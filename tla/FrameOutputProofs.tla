-------------------------- MODULE FrameOutputProofs --------------------------
(* FrameReorder, for any number of frames, jumps and drains: between two   *)
(* markers, frames are shown in the order of their display indices.        *)
(* DecodeToManifest takes indices to be used that never come; the proof    *)
(* follows each frame from the parser, which gives it its index, and shows *)
(* that whatever is not yet shown comes after all that was.                *)
EXTENDS FrameReorderProofs
-----------------------------------------------------------------------------
(* The order of the display indices.                                       *)

IsReference(f) == frames[f].kind = "reference"

\* Only the frames that go with a deferred reference frame have lower indices
\* than a frame parsed before them.
Indices ==
  /\ \A f \in Parsed : HasIndex(f) => Index(f) < NextDisplayFrameIndex
  /\ \A f, g \in Parsed : f < g /\ HasIndex(g) =>
       \/ HasIndex(f) /\ Index(f) < Index(g)
       \/ /\ IsReference(f) /\ HasIndex(f) => Index(f) # Index(g)
          /\ IsReference(f)
          /\ \A c \in Parsed : f < c /\ c <= g => ~IsReference(c)
  /\ Deferred # None =>
       /\ Deferred \in Parsed /\ ~HasIndex(Deferred) /\ IsReference(Deferred)
       /\ \A g \in Parsed : IsReference(g) => g <= Deferred

\* A frame that ends the holes behind a discontinuity is shown before any
\* that is parsed after it.
Holes ==
  /\ CollapseHoles =>
       /\ references = (IF Deferred = None THEN 0 ELSE 1)
       /\ Deferred # None => \A g \in Parsed : g <= Deferred
  /\ \A f \in Parsed : frames[f].Collapse =>
       /\ HasIndex(f) /\ IsReference(f)
       /\ \A g \in Parsed : f < g /\ HasIndex(g) => Index(f) < Index(g)

\* The jump and the marker of a drain that discards part the indices.
Partition ==
  /\ drain = "discard" => Deferred = None
  /\ \A m \in DOMAIN frames : frames[m].kind = "discard" =>
       \A f \in Parsed : f < m =>
         /\ HasIndex(f)
         /\ \A g \in Parsed : m < g /\ HasIndex(g) => Index(f) < Index(g)

\* What ParseToDecode has not taken yet.
Arriving == Occupied(ParsedFrameRing)

DiscardMarkers == {m \in Markers : frames[m].kind = "discard"}

DrainFlags ==
  /\ DiscardingDtoM <=> drain \in {"jump", "discard"} \/ DiscardMarkers # {}
  /\ DiscardingPtoD => \/ drain \in {"jump", "discard"}
                       \/ DiscardMarkers \cap Arriving # {}

Outstanding == {f \in Chain : ~IsMarker(f)}
Upstream    == {f \in Arriving \cup Pending : ~IsMarker(f)}

\* A frame ahead of the marker of a drain that discards is not shown.
Doomed(f) == DiscardingDtoM /\ \A m \in DiscardMarkers : f < m

\* The indices that will not come are recorded.
Recorded ==
  /\ \A e \in NonDecodedBuffers :
       /\ e.frame \in Parsed \ Chain
       /\ ~IsReference(e.frame) => e.ReleasedBuffer
       /\ ~HasIndex(e.frame) => drain = "jump"
  /\ DisplayIndicesCollapse \in 0 .. NextDisplayFrameIndex
  /\ \A g \in Outstanding : HasIndex(g) /\ ~Doomed(g) =>
       /\ DisplayIndicesCollapse <= Index(g)
       /\ \A e \in NonDecodedBuffers :
            IsReference(e.frame) => Index(e.frame) < Index(g)

\* A frame whose turn is over by its index is the next to come.
Desired ==
  /\ DesiredFrameIndex \in 0 .. NextDisplayFrameIndex
  /\ \A g \in Outstanding \ {current} :
       HasIndex(g) /\ ~Doomed(g) /\ Index(g) < DesiredFrameIndex =>
         /\ ~DiscardingDtoM /\ g \in Upstream /\ Table = {}
         /\ \A h \in Upstream : h < g => HasIndex(h) /\ Index(h) < Index(g)

\* What is passed on is the first of what is due before the next marker.
Due == IF MarkerFrame = None THEN Outstanding
       ELSE (Table \cup {current}) \ {None}

\* What DtoM is about to pass on is shown before all else that is due.
Turn ==
  pc = "pass" =>
    /\ HasIndex(current) /\ current \notin Table
    /\ ~DiscardingDtoM =>
         \A g \in Due \ {current} : HasIndex(g) => Index(current) < Index(g)

\* No frame that is due has been overtaken by a frame that was shown.
Recent(i) == /\ passed[i].shown
             /\ \A k \in i .. Len(passed) : ~IsMarker(passed[k].frame)
Overtaken ==
  /\ \A i \in 1 .. Len(passed) :
       ~IsMarker(passed[i].frame) => HasIndex(passed[i].frame)
  /\ ~DiscardingDtoM =>
       \A i \in 1 .. Len(passed) : Recent(i) =>
         \A g \in Due : HasIndex(g) => Index(passed[i].frame) < Index(g)

OutputInv == /\ IInv
             /\ Indices /\ Holes /\ Partition /\ DrainFlags /\ Recorded
             /\ Desired /\ Turn /\ Overtaken /\ OutputInOrder
-----------------------------------------------------------------------------
\* What the frames are.
LEMMA FrameFacts ==
  ASSUME IInv
  PROVE  /\ Len(frames) \in Nat /\ Parsed \subseteq 1 .. Len(frames)
         /\ DOMAIN frames = 1 .. Len(frames)
         /\ \A f \in 1 .. Len(frames) : f \in Parsed <=> ~IsMarker(f)
         /\ \A f \in Parsed : /\ f \in Nat /\ f # None /\ Index(f) \in Nat
                              /\ frames[f].Collapse \in BOOLEAN
         /\ NextDisplayFrameIndex \in Nat /\ MaxFrames \in Nat
         /\ NextDisplayFrameIndex <= MaxFrames
         /\ INVALID_INDEX = MaxFrames + 1
         /\ Outstanding \subseteq Parsed /\ Upstream \subseteq Outstanding
         /\ Chain \subseteq 1 .. Len(frames)
  <1>1. /\ Len(frames) \in Nat /\ DOMAIN frames = 1 .. Len(frames)
        /\ Chain \subseteq 1 .. Len(frames)
    BY ChainIs DEF IInv
  <1>2. \A f \in 1 .. Len(frames) : frames[f] \in Parameters
    BY ElementOfSeq DEF IInv, OrderInv, TypeOK
  <1>3. \A f \in Parsed : f \in 1 .. Len(frames) /\ ~IsMarker(f)
    BY <1>1 DEF Parsed
  <1>4. \A f \in Parsed : Index(f) \in Nat /\ frames[f].Collapse \in BOOLEAN
    BY <1>2, <1>3 DEF Parameters, Index
  <1>5. NextDisplayFrameIndex \in Nat /\ MaxFrames \in Nat
    BY BoundsAssumption DEF IInv, OrderInv, TypeOK
  <1>6. NextDisplayFrameIndex <= MaxFrames
    <2>1. Cardinality(Parsed) \in Nat
      <3>1. IsFiniteSet(1 .. Len(frames))
        BY <1>1, FS_Interval
      <3> QED BY <1>1, <3>1, FS_Subset, FS_CardinalityType DEF Parsed
    <2>2. /\ Cardinality(Parsed) <= MaxFrames
          /\ NextDisplayFrameIndex + (IF Deferred = None THEN 0 ELSE 1)
               <= Cardinality(Parsed)
      BY DEF IInv, Indexing
    <2> QED BY <1>5, <2>1, <2>2
  <1>7. Outstanding \subseteq Parsed
    BY <1>1 DEF Outstanding, Parsed
  <1>8. Upstream \subseteq Outstanding
    BY DEF Upstream, Outstanding, Chain, Accepted, Arriving
  <1> QED BY <1>1, <1>3, <1>4, <1>5, <1>6, <1>7, <1>8
          DEF Parsed, None, INVALID_INDEX

\* What the frame parser does: at most one frame is parsed, and at most one
\* gets the next index.
NumbersDeferred ==
  /\ Deferred = None =>
       /\ \A f \in Parsed : frames'[f] = frames[f]
       /\ NextDisplayFrameIndex' = NextDisplayFrameIndex
  /\ Deferred # None =>
       /\ \A f \in Parsed : f # Deferred => frames'[f] = frames[f]
       /\ frames'[Deferred].kind = frames[Deferred].kind
       /\ frames'[Deferred].DisplayFrameIndex = NextDisplayFrameIndex
       /\ frames'[Deferred].Collapse = CollapseHoles
       /\ NextDisplayFrameIndex' = NextDisplayFrameIndex + 1

ParsesOther ==
  /\ ParseFrame /\ Parsed' = Parsed \cup {Len(frames) + 1}
  /\ \A f \in Parsed : frames'[f] = frames[f]
  /\ frames'[Len(frames) + 1].kind = "other"
  /\ frames'[Len(frames) + 1].DisplayFrameIndex = NextDisplayFrameIndex
  /\ frames'[Len(frames) + 1].Collapse = CollapseHoles
  /\ NextDisplayFrameIndex' = NextDisplayFrameIndex + 1
  /\ Deferred' = Deferred /\ CollapseHoles' = FALSE /\ references = 2

ParsesReference ==
  /\ ParseFrame /\ Parsed' = Parsed \cup {Len(frames) + 1}
  /\ NumbersDeferred
  /\ frames'[Len(frames) + 1].kind = "reference"
  /\ frames'[Len(frames) + 1].DisplayFrameIndex = INVALID_INDEX
  /\ frames'[Len(frames) + 1].Collapse = FALSE
  /\ CollapseHoles' = (CollapseHoles /\ Deferred = None)
  /\ Deferred' = Len(frames) + 1 /\ references' = Lower(references + 1, 2)

ParsesJump ==
  /\ ParseJump /\ ~ParseFrame /\ Parsed' = Parsed /\ NumbersDeferred
  /\ Deferred' = None /\ CollapseHoles' = TRUE /\ references' = 0

ParsesNothing ==
  /\ ~ParseFrame /\ ~ParseJump
  /\ Parsed' = Parsed /\ \A f \in Parsed : frames'[f] = frames[f]
  /\ UNCHANGED <<NextDisplayFrameIndex, Deferred, CollapseHoles, references>>

\* The parser does one of these, or nothing.
LEMMA ParserStep ==
  ASSUME IInv, [Next]_vars
  PROVE  /\ ParsesOther \/ ParsesReference \/ ParsesJump \/ ParsesNothing
         /\ \A f \in 1 .. Len(frames) : frames'[f].kind = frames[f].kind
         /\ Len(frames) \in Nat /\ Len(frames') \in Nat
         /\ Len(frames') = IF ParseFrame \/ ParseMarker THEN Len(frames) + 1
                                                        ELSE Len(frames)
  <1>1. /\ Len(frames) \in Nat /\ Parsed \subseteq 1 .. Len(frames)
        /\ TypeOK /\ OrderInv
    BY FrameFacts DEF IInv, OrderInv
  <1>2. /\ ParseFrame => Parsed' = Parsed \cup {Len(frames) + 1}
        /\ ~ParseFrame => Parsed' = Parsed
        /\ \A f \in 1 .. Len(frames) : frames'[f].kind = frames[f].kind
    BY <1>1, ParsedStep, FramesStep
  <1>3. CASE ParseFrame /\ ParseOther
    <2>1. ParsesOther /\ Len(frames') = Len(frames) + 1
      BY <1>1, <1>2, <1>3, ParseOtherFrames
         DEF ParsesOther, ParseOther, ReferencesNeeded
    <2> QED BY <1>1, <1>2, <1>3, <2>1
  <1>4. CASE ParseFrame /\ ParseReference
    <2>1. /\ \A f \in Parsed : f # Deferred => frames'[f] = frames[f]
          /\ Len(frames') = Len(frames) + 1
          /\ Deferred # None =>
               /\ frames'[Deferred].DisplayFrameIndex = NextDisplayFrameIndex
               /\ frames'[Deferred].Collapse = CollapseHoles
          /\ frames'[Len(frames) + 1] = Unnumbered("reference")
          /\ Deferred' = Len(frames) + 1
      BY <1>1, <1>4, ParseReferenceFrames
    <2>2. /\ Deferred = None => UNCHANGED <<NextDisplayFrameIndex, CollapseHoles>>
          /\ Deferred # None =>
               /\ NextDisplayFrameIndex' = NextDisplayFrameIndex + 1
               /\ CollapseHoles' = FALSE
          /\ references' = Lower(references + 1, 2)
      BY <1>4 DEF ParseReference, NumberDeferred, ReferencesNeeded
    <2>3. Deferred # None => Deferred \in 1 .. Len(frames)
      BY <1>1 DEF TypeOK, None
    <2>4. NumbersDeferred
      <3>1. \A f \in Parsed : f # None
        BY <1>1 DEF None
      <3>2. Deferred # None => frames'[Deferred].kind = frames[Deferred].kind
        BY <1>2, <2>3
      <3>3. Deferred = None => \A f \in Parsed : frames'[f] = frames[f]
        BY <2>1, <3>1
      <3> QED BY <2>1, <2>2, <3>2, <3>3 DEF NumbersDeferred
    <2>5. CollapseHoles' = (CollapseHoles /\ Deferred = None)
      BY <1>1, <2>2, Zenon DEF TypeOK
    <2> QED BY <1>1, <1>2, <1>4, <2>1, <2>2, <2>4, <2>5
            DEF ParsesReference, Unnumbered
  <1>5. CASE ParseJump
    <2>1. /\ \A f \in Parsed : f # Deferred => frames'[f] = frames[f]
          /\ Deferred # None =>
               /\ frames'[Deferred].DisplayFrameIndex = NextDisplayFrameIndex
               /\ frames'[Deferred].Collapse = CollapseHoles
          /\ Deferred' = None /\ Len(frames') = Len(frames)
          /\ NextDisplayFrameIndex' =
               NextDisplayFrameIndex + (IF Deferred = None THEN 0 ELSE 1)
      BY <1>1, <1>5, ParseJumpFrames
    <2>2. Deferred # None => Deferred \in 1 .. Len(frames)
      BY <1>1 DEF TypeOK, None
    <2>3. NumbersDeferred
      BY <1>1, <1>2, <2>1, <2>2 DEF NumbersDeferred, None, TypeOK
    <2>4. ~ParseFrame
      BY <1>1, <2>1, ParseOtherFrames, ParseReferenceFrames DEF ParseFrame
    <2>5. ~ParseMarker
      BY <1>1, <2>1, ParseMarkerFrames
    <2> QED BY <1>1, <1>2, <1>5, <2>1, <2>3, <2>4, <2>5 DEF ParsesJump, ParseJump
  <1>6. CASE ~ParseFrame /\ ~ParseJump
    <2>1. CASE ParseMarker
      BY <1>1, <1>2, <1>6, <2>1, ParseMarkerFrames DEF ParsesNothing, ParseMarker
    <2>2. CASE UNCHANGED parser /\ ~ParseMarker
      BY <1>1, <1>2, <1>6, <2>2 DEF ParsesNothing, parser
    <2> QED BY <1>6, <2>1, <2>2 DEF Next, vars, PtoD, DtoM, DrainBegins,
            ReleaseReferences, PtoDMarker, Accept, Decode, Drop, Scan, Skip,
            PassMarker, Extract, Pass, Display
  <1> QED BY <1>3, <1>4, <1>5, <1>6 DEF ParseFrame

\* An index stays, and one that is given is higher than all others.
LEMMA IndexStep ==
  ASSUME IInv, Indices, [Next]_vars
  PROVE  /\ \A f \in Parsed : HasIndex(f) =>
              /\ frames'[f] = frames[f]
              /\ frames'[f].DisplayFrameIndex # INVALID_INDEX
         /\ \A f \in Parsed' : frames'[f].DisplayFrameIndex # INVALID_INDEX =>
              \/ f \in Parsed /\ HasIndex(f) /\ frames'[f] = frames[f]
              \/ /\ frames'[f].DisplayFrameIndex = NextDisplayFrameIndex
                 /\ frames'[f].Collapse = CollapseHoles
                 /\ NextDisplayFrameIndex' = NextDisplayFrameIndex + 1
                 /\ \/ f = Deferred /\ f \in Parsed
                    \/ ParsesOther /\ f = Len(frames) + 1
         /\ NextDisplayFrameIndex <= NextDisplayFrameIndex'
         /\ \A f \in Parsed' : f \in Parsed \/ (ParseFrame /\ f = Len(frames) + 1)
         /\ Parsed \subseteq Parsed'
  <1>1. /\ NextDisplayFrameIndex \in Nat /\ Parsed \subseteq 1 .. Len(frames)
        /\ Len(frames) \in Nat
        /\ NextDisplayFrameIndex <= MaxFrames /\ MaxFrames \in Nat
        /\ INVALID_INDEX = MaxFrames + 1
        /\ \A f \in Parsed : f # None
    BY FrameFacts
  <1>2. /\ \A f \in Parsed : HasIndex(f) => f # Deferred
        /\ \A f \in Parsed : ~HasIndex(f) => f = Deferred
        /\ Deferred # None => Deferred \in Parsed
    BY <1>1 DEF Indices, IInv, Indexing
  <1>3. ASSUME NumbersDeferred
        PROVE  /\ \A f \in Parsed : HasIndex(f) => frames'[f] = frames[f]
               /\ \A f \in Parsed :
                    frames'[f].DisplayFrameIndex # INVALID_INDEX =>
                      \/ HasIndex(f) /\ frames'[f] = frames[f]
                      \/ /\ frames'[f].DisplayFrameIndex = NextDisplayFrameIndex
                         /\ frames'[f].Collapse = CollapseHoles
                         /\ NextDisplayFrameIndex' = NextDisplayFrameIndex + 1
                         /\ f = Deferred
               /\ NextDisplayFrameIndex <= NextDisplayFrameIndex'
    <2>1. CASE Deferred = None
      BY <1>1, <1>2, <1>3, <2>1 DEF NumbersDeferred
    <2>2. CASE Deferred # None
      <3>1. /\ \A f \in Parsed : f # Deferred => frames'[f] = frames[f]
            /\ frames'[Deferred].DisplayFrameIndex = NextDisplayFrameIndex
            /\ frames'[Deferred].Collapse = CollapseHoles
            /\ NextDisplayFrameIndex' = NextDisplayFrameIndex + 1
        BY <1>3, <2>2 DEF NumbersDeferred
      <3> QED BY <1>1, <1>2, <3>1
    <2> QED BY <2>1, <2>2
  <1>4. \A f \in Parsed : HasIndex(f) /\ frames'[f] = frames[f] =>
          frames'[f].DisplayFrameIndex # INVALID_INDEX
    BY DEF HasIndex, Index
  <1>5. CASE ParsesOther
    BY <1>1, <1>4, <1>5 DEF ParsesOther, HasIndex, Index
  <1>6. CASE ParsesReference
    <2>1. /\ ParseFrame /\ Parsed' = Parsed \cup {Len(frames) + 1}
          /\ frames'[Len(frames) + 1].DisplayFrameIndex = INVALID_INDEX
          /\ NumbersDeferred
      BY <1>6 DEF ParsesReference
    <2> QED BY <1>3, <1>4, <2>1
  <1>7. CASE ParsesJump
    <2>1. Parsed' = Parsed /\ NumbersDeferred
      BY <1>7 DEF ParsesJump
    <2> QED BY <1>3, <1>4, <2>1
  <1>8. CASE ParsesNothing
    BY <1>1, <1>4, <1>8 DEF ParsesNothing, HasIndex, Index
  <1> QED BY <1>5, <1>6, <1>7, <1>8, ParserStep

\* A deferred reference frame gets its index from the next one.
LEMMA IndicesStep ==
  ASSUME IInv, Indices, [Next]_vars
  PROVE  Indices'
  <1> DEFINE Has(f) == frames'[f].DisplayFrameIndex # INVALID_INDEX
             idx(f) == frames'[f].DisplayFrameIndex
             Ref(f) == frames'[f].kind = "reference"
             n == Len(frames) + 1
             N == NextDisplayFrameIndex
  <1>1. /\ N \in Nat /\ Parsed \subseteq 1 .. Len(frames) /\ Len(frames) \in Nat
        /\ \A f \in Parsed : f \in Nat /\ f # None /\ Index(f) \in Nat /\ f < n
    BY FrameFacts
  <1>2. /\ \A f \in Parsed : HasIndex(f) => Has(f) /\ idx(f) = Index(f)
        /\ \A f \in Parsed' : Has(f) =>
             \/ f \in Parsed /\ HasIndex(f) /\ idx(f) = Index(f)
             \/ /\ idx(f) = N /\ NextDisplayFrameIndex' = N + 1
                /\ f = Deferred \/ (ParsesOther /\ f = n)
        /\ N <= NextDisplayFrameIndex'
        /\ \A f \in Parsed' : f \in Parsed \/ (ParseFrame /\ f = n)
        /\ NextDisplayFrameIndex' \in Nat
    <2>1. NextDisplayFrameIndex' \in Nat
      BY FramesStep DEF IInv, OrderInv
    <2> QED BY <2>1, IndexStep DEF Index
  <1>3. /\ \A f \in Parsed : HasIndex(f) => Index(f) < N
        /\ \A f, g \in Parsed : f < g /\ HasIndex(g) =>
             \/ HasIndex(f) /\ Index(f) < Index(g)
             \/ /\ HasIndex(f) => Index(f) # Index(g)
                /\ IsReference(f)
                /\ \A c \in Parsed : f < c /\ c <= g => ~IsReference(c)
        /\ Deferred # None =>
             /\ Deferred \in Parsed /\ ~HasIndex(Deferred) /\ IsReference(Deferred)
             /\ \A g \in Parsed : IsReference(g) => g <= Deferred
        /\ \A f \in Parsed : ~HasIndex(f) => f = Deferred
    BY DEF Indices, IInv, Indexing
  <1>4. /\ \A f \in Parsed : Ref(f) <=> IsReference(f)
        /\ ParsesOther => ~Ref(n)
        /\ ParseFrame => ParsesOther \/ ParsesReference
        /\ ParsesReference => Ref(n) /\ ~Has(n)
    <2>1. ParsesJump => ~ParseFrame
      BY DEF ParsesJump
    <2> QED BY <1>1, <2>1, ParserStep
            DEF ParsesOther, ParsesReference, ParsesNothing, IsReference
  <1> HIDE DEF Has, idx, Ref, n, N
  <1>5. \A f \in Parsed' : Has(f) => idx(f) < NextDisplayFrameIndex'
    <2> SUFFICES ASSUME NEW f \in Parsed', Has(f)
                 PROVE  idx(f) < NextDisplayFrameIndex'
      OBVIOUS
    <2>1. CASE f \in Parsed /\ HasIndex(f) /\ idx(f) = Index(f)
      <3>1. Index(f) < N /\ Index(f) \in Nat
        BY <1>1, <1>3, <2>1
      <3> QED BY <1>1, <1>2, <2>1, <3>1
    <2>2. CASE idx(f) = N /\ NextDisplayFrameIndex' = N + 1
      BY <1>1, <2>2
    <2> QED BY <1>2, <2>1, <2>2
  <1>6. ASSUME NEW f \in Parsed', NEW g \in Parsed', f < g, Has(g)
        PROVE  \/ Has(f) /\ idx(f) < idx(g)
               \/ /\ Has(f) => idx(f) # idx(g)
                  /\ Ref(f)
                  /\ \A c \in Parsed' : f < c /\ c <= g => ~Ref(c)
    <2>1. f \in Parsed /\ (g \in Parsed \/ g = n)
      <3>1. f # n
        <4>1. g = n \/ (g \in Nat /\ g < n)
          BY <1>1, <1>2
        <4>2. n \in Nat
          BY <1>1 DEF n
        <4> QED BY <1>6, <4>1, <4>2
      <3> QED BY <1>2, <1>6, <3>1
    <2>2. CASE g \in Parsed /\ HasIndex(g) /\ idx(g) = Index(g)
      <3>1. CASE HasIndex(f) /\ Index(f) < Index(g)
        BY <1>2, <2>1, <2>2, <3>1
      <3>2. CASE /\ HasIndex(f) => Index(f) # Index(g)
                 /\ IsReference(f)
                 /\ \A c \in Parsed : f < c /\ c <= g => ~IsReference(c)
        <4>1. \A c \in Parsed' : f < c /\ c <= g => c \in Parsed
          BY <1>1, <1>2, <2>2 DEF n
        <4>2. Has(f) => idx(f) # idx(g)
          <5>1. CASE HasIndex(f)
            BY <1>2, <2>1, <2>2, <3>2, <5>1
          <5>2. CASE ~HasIndex(f)
            <6>1. Has(f) => idx(f) = N
              BY <1>2, <1>6, <5>2
            <6> QED BY <1>1, <1>3, <2>2, <6>1
          <5> QED BY <5>1, <5>2
        <4> QED BY <1>4, <2>1, <3>2, <4>1, <4>2
      <3> QED BY <1>3, <1>6, <2>1, <2>2, <3>1, <3>2
    <2>3. CASE idx(g) = N /\ (g = Deferred \/ (ParsesOther /\ g = n))
      <3>1. CASE HasIndex(f)
        BY <1>1, <1>2, <1>3, <2>1, <2>3, <3>1
      <3>2. CASE ~HasIndex(f)
        <4>1. f = Deferred /\ IsReference(f) /\ g = n /\ ParsesOther
          BY <1>1, <1>3, <1>6, <2>1, <2>3, <3>2
        <4>2. \A c \in Parsed' : f < c /\ c <= g => ~Ref(c)
          <5>1. \A c \in Parsed : f < c => ~IsReference(c)
            BY <1>1, <1>3, <2>1, <4>1
          <5> QED BY <1>2, <1>4, <4>1, <5>1
        <4>3. ~Has(f)
          <5>1. frames'[f] = frames[f]
            BY <2>1, <4>1 DEF ParsesOther
          <5> QED BY <3>2, <5>1 DEF Has, HasIndex, Index
        <4> QED BY <1>4, <2>1, <4>1, <4>2, <4>3
      <3> QED BY <3>1, <3>2
    <2> QED BY <1>2, <1>6, <2>2, <2>3
  <1>7. ASSUME Deferred' # None
        PROVE  /\ Deferred' \in Parsed' /\ ~Has(Deferred') /\ Ref(Deferred')
               /\ \A g \in Parsed' : Ref(g) => g <= Deferred'
    <2>1. CASE ParsesOther
      <3>1. /\ Deferred' = Deferred /\ Parsed' = Parsed \cup {n}
            /\ \A f \in Parsed : frames'[f] = frames[f]
        BY <2>1 DEF ParsesOther, n
      <3>2. ~Has(Deferred)
        BY <1>3, <1>7, <3>1 DEF Has, HasIndex, Index
      <3> QED BY <1>3, <1>4, <1>7, <2>1, <3>1, <3>2
    <2>2. CASE ParsesReference
      <3>1. Deferred' = n /\ Parsed' = Parsed \cup {n}
        BY <2>2 DEF ParsesReference, n
      <3>2. n \in Nat
        BY <1>1 DEF n
      <3> QED BY <1>1, <1>4, <2>2, <3>1, <3>2
    <2>3. CASE ParsesJump
      BY <1>7, <2>3 DEF ParsesJump
    <2>4. CASE ParsesNothing
      <3>1. /\ Deferred' = Deferred /\ Parsed' = Parsed
            /\ \A f \in Parsed : frames'[f] = frames[f]
        BY <2>4 DEF ParsesNothing
      <3>2. ~Has(Deferred)
        BY <1>3, <1>7, <3>1 DEF Has, HasIndex, Index
      <3> QED BY <1>3, <1>4, <1>7, <3>1, <3>2
    <2> QED BY <2>1, <2>2, <2>3, <2>4, ParserStep
  <1> QED BY <1>5, <1>6, <1>7 DEF Indices, HasIndex, Index, IsReference, Has, idx,
          Ref, INVALID_INDEX, None

\* Holes collapse at the first frame that is shown behind them.
LEMMA HolesStep ==
  ASSUME IInv, Indices, Holes, [Next]_vars
  PROVE  Holes'
  <1> DEFINE Has(f) == frames'[f].DisplayFrameIndex # INVALID_INDEX
             idx(f) == frames'[f].DisplayFrameIndex
             n == Len(frames) + 1
             N == NextDisplayFrameIndex
  <1>1. /\ N \in Nat /\ n \in Nat
        /\ \A f \in Parsed : f \in Nat /\ f # None /\ f < n
    BY FrameFacts
  <1>2. /\ \A f \in Parsed : HasIndex(f) =>
             frames'[f] = frames[f] /\ Has(f) /\ idx(f) = Index(f)
        /\ \A f \in Parsed' : Has(f) =>
             \/ f \in Parsed /\ HasIndex(f) /\ frames'[f] = frames[f]
                /\ idx(f) = Index(f)
             \/ /\ idx(f) = N /\ frames'[f].Collapse = CollapseHoles
                /\ (f = Deferred /\ f \in Parsed) \/ (ParsesOther /\ f = n)
        /\ \A f \in Parsed' : f \in Parsed \/ (ParseFrame /\ f = n)
    BY IndexStep DEF Index
  <1>3. /\ \A f \in Parsed : HasIndex(f) => Index(f) < N
        /\ Deferred # None => Deferred \in Parsed /\ IsReference(Deferred)
        /\ \A f \in Parsed : frames'[f].kind = frames[f].kind
    <2>1. \A f \in Parsed : frames'[f].kind = frames[f].kind
      BY ParserStep, FrameFacts
    <2> QED BY <2>1 DEF Indices
  <1>4. /\ CollapseHoles =>
             /\ references = (IF Deferred = None THEN 0 ELSE 1)
             /\ Deferred # None => \A g \in Parsed : g <= Deferred
        /\ \A f \in Parsed : frames[f].Collapse =>
             /\ HasIndex(f) /\ IsReference(f)
             /\ \A g \in Parsed : f < g /\ HasIndex(g) => Index(f) < Index(g)
    BY DEF Holes
  <1>5. ParsesOther => ~CollapseHoles
    BY <1>4 DEF ParsesOther
  <1>6. ASSUME NEW f \in Parsed', frames'[f].Collapse
        PROVE  /\ Has(f) /\ frames'[f].kind = "reference"
               /\ \A g \in Parsed' : f < g /\ Has(g) => idx(f) < idx(g)
    <2>1. CASE f \in Parsed /\ frames'[f] = frames[f]
      <3>1. /\ HasIndex(f) /\ IsReference(f) /\ Has(f) /\ idx(f) = Index(f)
            /\ frames'[f].kind = "reference"
        BY <1>2, <1>4, <1>6, <2>1 DEF IsReference
      <3>2. ASSUME NEW g \in Parsed', f < g, Has(g)
            PROVE  idx(f) < idx(g)
        <4>1. CASE g \in Parsed /\ HasIndex(g) /\ idx(g) = Index(g)
          BY <1>4, <1>6, <2>1, <3>1, <3>2, <4>1
        <4>2. CASE idx(g) = N
          BY <1>3, <2>1, <3>1, <4>2
        <4> QED BY <1>2, <3>2, <4>1, <4>2
      <3> QED BY <3>1, <3>2
    <2>2. CASE f = Deferred /\ f \in Parsed /\ frames'[f].Collapse = CollapseHoles
               /\ Has(f) /\ idx(f) = N
      <3>1. \A g \in Parsed : g <= f
        BY <1>1, <1>4, <1>6, <2>2
      <3>2. ~ParsesOther
        BY <1>5, <1>6, <2>2
      <3>3. \A g \in Parsed' : f < g => ~Has(g)
        BY <1>1, <1>2, <2>2, <3>1, <3>2
      <3> QED BY <1>1, <1>3, <2>2, <3>3 DEF IsReference
    <2>3. ASSUME ~(f \in Parsed /\ frames'[f] = frames[f])
          PROVE  f = Deferred /\ f \in Parsed /\ frames'[f].Collapse = CollapseHoles
                 /\ Has(f) /\ idx(f) = N
      <3>1. CASE Has(f)
        BY <1>2, <1>5, <1>6, <2>3, <3>1
      <3>2. CASE ~Has(f) /\ f = n /\ ParseFrame
        <4>1. ParsesOther => frames'[f].Collapse = CollapseHoles
          BY <3>2 DEF ParsesOther
        <4>2. ParsesReference => ~frames'[f].Collapse
          BY <3>2 DEF ParsesReference
        <4> QED BY <1>5, <1>6, <3>2, <4>1, <4>2, ParserStep
                DEF ParsesJump, ParsesNothing
      <3>3. CASE ~Has(f) /\ f \in Parsed
        <4>1. ~HasIndex(f) /\ f = Deferred
          BY <1>2, <3>3 DEF IInv, Indexing
        <4>2. ~NumbersDeferred
          <5>1. N # INVALID_INDEX
            BY FrameFacts
          <5> QED BY <1>1, <3>3, <4>1, <5>1 DEF NumbersDeferred
        <4>3. ParsesOther \/ ParsesNothing
          BY <4>2, ParserStep DEF ParsesReference, ParsesJump
        <4>4. frames'[f] = frames[f]
          BY <3>3, <4>3 DEF ParsesOther, ParsesNothing
        <4> QED BY <2>3, <3>3, <4>4
      <3> QED BY <1>2, <3>1, <3>2, <3>3
    <2> QED BY <2>1, <2>2, <2>3
  <1>7. ASSUME CollapseHoles'
        PROVE  /\ references' = (IF Deferred' = None THEN 0 ELSE 1)
               /\ Deferred' # None => \A g \in Parsed' : g <= Deferred'
    <2>1. CASE ParsesOther
      BY <1>7, <2>1 DEF ParsesOther
    <2>2. CASE ParsesReference
      <3>1. /\ CollapseHoles /\ Deferred = None /\ Deferred' = n
            /\ references' = Lower(references + 1, 2)
            /\ Parsed' = Parsed \cup {n}
        BY <1>7, <2>2 DEF ParsesReference
      <3>2. references' = 1
        BY <1>4, <3>1 DEF Lower
      <3> QED BY <1>1, <3>1, <3>2 DEF None
    <2>3. CASE ParsesJump
      BY <2>3 DEF ParsesJump
    <2>4. CASE ParsesNothing
      BY <1>4, <1>7, <2>4 DEF ParsesNothing
    <2> QED BY <2>1, <2>2, <2>3, <2>4, ParserStep
  <1> HIDE DEF Has, idx
  <1> QED BY <1>6, <1>7 DEF Holes, HasIndex, Index, IsReference, Has, idx,
          INVALID_INDEX, None

\* What is parsed behind a marker has higher indices.
LEMMA PartitionStep ==
  ASSUME IInv, Indices, Partition, [Next]_vars
  PROVE  Partition'
  <1> DEFINE Has(f) == frames'[f].DisplayFrameIndex # INVALID_INDEX
             idx(f) == frames'[f].DisplayFrameIndex
             n == Len(frames) + 1
             N == NextDisplayFrameIndex
  <1>1. /\ N \in Nat /\ n \in Nat /\ Len(frames) \in Nat
        /\ DOMAIN frames = 1 .. Len(frames)
        /\ \A f \in Parsed : f \in Nat /\ f < n
        /\ \A f \in Parsed : f # None
    BY FrameFacts
  <1>2. /\ \A f \in Parsed : HasIndex(f) => Has(f) /\ idx(f) = Index(f)
        /\ \A f \in Parsed' : Has(f) =>
             \/ f \in Parsed /\ HasIndex(f) /\ idx(f) = Index(f)
             \/ idx(f) = N
        /\ \A f \in Parsed' : f \in Parsed \/ f = n
    BY IndexStep DEF Index
  <1>3. /\ \A f \in Parsed : HasIndex(f) => Index(f) < N
        /\ \A f \in Parsed : ~HasIndex(f) => f = Deferred
    BY DEF Indices, IInv, Indexing
  <1>4. /\ drain = "discard" => Deferred = None
        /\ \A m \in DOMAIN frames : frames[m].kind = "discard" =>
             \A f \in Parsed : f < m =>
               /\ HasIndex(f)
               /\ \A g \in Parsed : m < g /\ HasIndex(g) => Index(f) < Index(g)
    BY DEF Partition
  <1>5. drain' = "discard" => Deferred' = None
    <2>1. CASE ParsesJump
      BY <2>1 DEF ParsesJump
    <2>2. CASE ParseFrame
      <3>1. drain # "discard" /\ drain' = drain
        BY <2>2 DEF ParseFrame, DiscardingCtoP, control
      <3> QED BY <3>1
    <2>3. CASE ParsesNothing
      <3>1. Deferred' = Deferred /\ ~ParseJump
        BY <2>3 DEF ParsesNothing
      <3>2. drain' = "discard" => drain = "discard"
        BY <3>1 DEF Next, vars, control, PtoD, DtoM, DrainBegins, ReleaseReferences,
           PtoDMarker, Accept, Decode, Drop, Scan, Skip, PassMarker, Extract, Pass,
           Display, ParseFrame, ParseMarker
      <3> QED BY <1>4, <3>1, <3>2
    <2> QED BY <2>1, <2>2, <2>3, ParserStep DEF ParsesOther, ParsesReference
  <1>6. ASSUME NEW m \in DOMAIN frames', frames'[m].kind = "discard",
               NEW f \in Parsed', f < m
        PROVE  /\ Has(f)
               /\ \A g \in Parsed' : m < g /\ Has(g) => idx(f) < idx(g)
    <2>1. m \in 1 .. Len(frames')
      BY <1>6, FramesStep, LenProperties DEF IInv, OrderInv
    <2>2. CASE m \in 1 .. Len(frames)
      <3>1. frames[m].kind = "discard" /\ f \in Parsed
        BY <1>1, <1>2, <1>6, <2>2, ParserStep
      <3>2. HasIndex(f) /\ Has(f) /\ idx(f) = Index(f) /\ Index(f) < N
        BY <1>1, <1>2, <1>3, <1>4, <1>6, <2>2, <3>1
      <3>3. ASSUME NEW g \in Parsed', m < g, Has(g)
            PROVE  idx(f) < idx(g)
        <4>1. CASE g \in Parsed /\ HasIndex(g) /\ idx(g) = Index(g)
          BY <1>1, <1>4, <1>6, <2>2, <3>1, <3>2, <3>3, <4>1
        <4>2. CASE idx(g) = N
          BY <3>2, <4>2
        <4> QED BY <1>2, <3>3, <4>1, <4>2
      <3> QED BY <3>2, <3>3
    <2>3. CASE m \notin 1 .. Len(frames)
      <3>1. m = n /\ (ParseFrame \/ ParseMarker)
        BY <1>1, <2>1, <2>3, ParserStep
      <3>2. ~ParseFrame
        BY <1>6, <3>1, ParserStep
           DEF ParsesOther, ParsesReference, ParsesJump, ParsesNothing
      <3>3. ParseMarker /\ drain = "discard"
        BY <1>6, <3>1, <3>2, ParseMarkerFrames DEF IInv, OrderInv
      <3>4. f \in Parsed /\ HasIndex(f)
        BY <1>1, <1>2, <1>3, <1>4, <1>6, <3>1, <3>3
      <3>5. \A g \in Parsed' : ~(m < g)
        BY <1>1, <1>2, <3>1
      <3> QED BY <1>2, <3>4, <3>5
    <2> QED BY <2>2, <2>3
  <1> HIDE DEF Has, idx
  <1> QED BY <1>5, <1>6 DEF Partition, HasIndex, Index, Has, idx,
          INVALID_INDEX, None

-----------------------------------------------------------------------------
(* What a step moves down the chain.                                       *)

Enters ==
  /\ ParseFrame \/ ParseMarker
  /\ Arriving' = Arriving \cup {Len(frames) + 1} /\ Pending' = Pending
  /\ UNCHANGED <<Table, current, MarkerFrame>>

Advances ==
  /\ Accept \/ PtoDMarker
  /\ Arriving' = Arriving \ {Head(ParsedFrameRing)}
  /\ Pending' = Pending \cup {Head(ParsedFrameRing)}
  /\ Head(ParsedFrameRing) \in Arriving
  /\ UNCHANGED <<Table, current, MarkerFrame>>

Drops ==
  /\ Drop
  /\ Arriving' = Arriving \ {Head(ParsedFrameRing)} /\ Pending' = Pending
  /\ Head(ParsedFrameRing) \in Arriving /\ ~IsMarker(Head(ParsedFrameRing))
  /\ \A y \in Arriving' : Head(ParsedFrameRing) < y
  /\ UNCHANGED <<Table, current, MarkerFrame>>

Extracts(f) ==
  /\ Extract /\ MarkerFrame = None /\ current = None
  /\ Arriving' = Arriving /\ Pending' = Pending \ {f}
  /\ f \in Pending
  /\ \A y \in (Arriving \cup Pending) \ {f} : f < y
  /\ \/ IsMarker(f) /\ MarkerFrame' = f /\ pc' = "scan"
        /\ UNCHANGED <<Table, current>>
     \/ ~IsMarker(f) /\ Index(f) <= DesiredFrameIndex /\ current' = f
        /\ UNCHANGED <<Table, MarkerFrame>>
     \/ ~IsMarker(f) /\ Index(f) > DesiredFrameIndex /\ pc' = "scan"
        /\ Table' = Table \cup {f} /\ UNCHANGED <<current, MarkerFrame>>

Takes ==
  /\ Scan /\ IsTurn /\ Lowest \in WithIndex /\ current = None
  /\ Arriving' = Arriving /\ Pending' = Pending
  /\ Table' = Table \ {Lowest} /\ current' = Lowest /\ UNCHANGED MarkerFrame

Passes ==
  /\ Pass /\ current # None
  /\ Arriving' = Arriving /\ Pending' = Pending
  /\ current' = None /\ UNCHANGED <<Table, MarkerFrame>>

PassesMarker ==
  /\ PassMarker /\ MarkerFrame # None /\ current = None
  /\ Arriving' = Arriving /\ Pending' = Pending
  /\ MarkerFrame' = None /\ UNCHANGED <<Table, current>>

Stays ==
  /\ Arriving' = Arriving /\ Pending' = Pending
  /\ UNCHANGED <<Table, current, MarkerFrame>>
  /\ ~PassMarker /\ ~Pass /\ pc' = "pass" => pc = "pass"

\* A frame that is taken from the parsed ring.
LEMMA TakenMoves ==
  ASSUME IInv, ParsedFrameRing # << >>, Taken, Head(ParsedFrameRing) # None
  PROVE  /\ Arriving' = Arriving \ {Head(ParsedFrameRing)}
         /\ Head(ParsedFrameRing) \in Arriving
         /\ \A y \in Arriving' : Head(ParsedFrameRing) < y
  <1>1. /\ Occupied(ParsedFrameRing) =
             Occupied(Tail(ParsedFrameRing)) \cup ({Head(ParsedFrameRing)} \ {0})
        /\ \A y \in Occupied(Tail(ParsedFrameRing)) : Head(ParsedFrameRing) < y
        /\ Head(ParsedFrameRing) \in Nat
    BY RingTail DEF IInv, OrderInv, TypeOK, Order
  <1>2. Head(ParsedFrameRing) \notin Occupied(Tail(ParsedFrameRing))
    BY <1>1
  <1>3. Arriving' = Occupied(Tail(ParsedFrameRing))
    BY DEF Arriving, Taken, Occupied, Range
  <1> QED BY <1>1, <1>2, <1>3 DEF Arriving, None

\* What is appended to the decoded ring.
LEMMA DecodedMoves ==
  ASSUME IInv, NEW n \in Nat, DecodedFrameRing' = Append(DecodedFrameRing, n),
         n # 0 => \A y \in Occupied(DecodedFrameRing) : y < n
  PROVE  Occupied(DecodedFrameRing)' = Occupied(DecodedFrameRing) \cup ({n} \ {0})
  <1>1. Occupied(Append(DecodedFrameRing, n)) =
          Occupied(DecodedFrameRing) \cup ({n} \ {0})
    BY RingAppend DEF IInv, OrderInv, TypeOK, Order
  <1> QED BY <1>1 DEF Occupied, Range

\* A step moves at most one frame.
LEMMA MovesStep ==
  ASSUME IInv, [Next]_vars
  PROVE  /\ \/ Enters \/ Advances \/ Drops
            \/ Extracts(Head(DecodedFrameRing))
            \/ Takes \/ Passes \/ PassesMarker \/ Stays
         /\ ParseFrame \/ ParseMarker => Enters
         /\ Drop => Drops
         /\ Pass => Passes
         /\ PassMarker => PassesMarker
  <1>1. /\ ParsedFrameRing \in Seq(Nat) /\ DecodedFrameRing \in Seq(Nat)
        /\ input \in Nat /\ Len(frames) \in Nat
        /\ Rising(ParsedFrameRing) /\ Rising(DecodedFrameRing)
        /\ Order /\ TypeOK /\ OrderInv
        /\ pc = "pass" <=> current # None
    BY LenProperties DEF IInv, OrderInv, TypeOK, Order, Numbering
  <1>2. ASSUME UNCHANGED <<ParsedFrameRing, DecodedFrameRing, input>>
        PROVE  Arriving' = Arriving /\ Pending' = Pending
    BY <1>2 DEF Arriving, Pending, Occupied, Range
  <1>3. ASSUME ParseFrame \/ ParseMarker
        PROVE  Enters
    <2>1. /\ ParsedFrameRing' = Append(ParsedFrameRing, Len(frames) + 1)
          /\ UNCHANGED <<DecodedFrameRing, input, Table, current, MarkerFrame>>
      BY <1>3 DEF ParseFrame, ParseMarker, ptod, reorder
    <2>2. \A y \in Occupied(ParsedFrameRing) : y \in Nat /\ y < Len(frames) + 1
      BY <1>1, RingHolds DEF Order
    <2>3. Occupied(Append(ParsedFrameRing, Len(frames) + 1)) =
            Occupied(ParsedFrameRing) \cup ({Len(frames) + 1} \ {0})
      BY <1>1, <2>2, RingAppend
    <2>4. Arriving' = Arriving \cup {Len(frames) + 1}
      <3>1. Arriving' = Occupied(Append(ParsedFrameRing, Len(frames) + 1))
        BY <2>1 DEF Arriving, Occupied, Range
      <3> QED BY <1>1, <2>3, <3>1 DEF Arriving
    <2>5. Pending' = Pending
      BY <2>1 DEF Pending, Occupied, Range
    <2> QED BY <1>3, <2>1, <2>4, <2>5 DEF Enters
  <1>4. ASSUME ParseJump
        PROVE  Stays
    <2>1. /\ ParsedFrameRing' = Append(ParsedFrameRing, 0)
          /\ UNCHANGED <<DecodedFrameRing, input, Table, current, MarkerFrame, pc>>
      BY <1>4 DEF ParseJump, ptod, reorder, ReleaseAll
    <2>2. Occupied(Append(ParsedFrameRing, 0)) = Occupied(ParsedFrameRing)
      <3>1. Occupied(Append(ParsedFrameRing, 0)) =
              Occupied(ParsedFrameRing) \cup ({0} \ {0})
        <4>1. 0 \in Nat /\ ~(0 # 0)
          OBVIOUS
        <4> QED BY <1>1, <4>1, RingAppend
      <3> QED BY <3>1
    <2>3. Arriving' = Arriving /\ Pending' = Pending
      BY <2>1, <2>2 DEF Arriving, Pending, Occupied, Range
    <2>4. ~PassMarker /\ ~Pass
      <3>1. Append(ParsedFrameRing, 0) # ParsedFrameRing
        BY <1>1, AppendProperties, LenProperties
      <3> QED BY <2>1, <3>1 DEF PassMarker, Pass
    <2> QED BY <2>1, <2>3, <2>4 DEF Stays
  <1> DEFINE f == Head(ParsedFrameRing)
             h == Head(DecodedFrameRing)
  <1>5. ASSUME ParsedFrameRing # << >>, Taken
        PROVE  ~PassMarker /\ ~Pass
    <2>1. Tail(ParsedFrameRing) # ParsedFrameRing
      BY <1>1, <1>5, HeadTailProperties, LenProperties, EmptySeq
    <2> QED BY <1>5, <2>1 DEF PassMarker, Pass, Taken
  <1>6. ASSUME Accept \/ PtoDMarker
        PROVE  Advances
    <2>1. /\ ParsedFrameRing # << >> /\ f # 0 /\ Taken /\ input = 0
          /\ UNCHANGED <<Table, current, MarkerFrame>>
      BY <1>6 DEF Accept, PtoDMarker, AtFrame, ReleaseAll, None, reorder
    <2>2. Arriving' = Arriving \ {f} /\ f \in Arriving
      BY <2>1, TakenMoves DEF None
    <2>3. f \in Nat /\ \A y \in Occupied(DecodedFrameRing) : y < f
      BY <1>1, <2>2, RingHolds DEF Order, Arriving, Pending
    <2>4. Pending' = Pending \cup {f}
      <3>1. CASE Accept
        <4>1. input' = f /\ DecodedFrameRing' = DecodedFrameRing
          BY <3>1 DEF Accept
        <4> QED BY <2>1, <2>3, <4>1 DEF Pending, Occupied, Range, None
      <3>2. CASE PtoDMarker
        <4>1. input' = input /\ DecodedFrameRing' = Append(DecodedFrameRing, f)
          BY <3>2 DEF PtoDMarker, ptod
        <4>2. Occupied(DecodedFrameRing)' = Occupied(DecodedFrameRing) \cup {f}
          BY <2>1, <2>3, <4>1, DecodedMoves
        <4> HIDE DEF f
        <4> QED BY <2>1, <4>1, <4>2 DEF Pending, None
      <3> QED BY <1>6, <3>1, <3>2
    <2> QED BY <1>6, <2>1, <2>2, <2>4 DEF Advances
  <1>7. ASSUME Drop
        PROVE  Drops
    <2>1. /\ ParsedFrameRing # << >> /\ f # 0 /\ Taken /\ input' = input
          /\ ~IsMarker(f)
          /\ UNCHANGED <<Table, current, MarkerFrame>>
          /\ \/ DecodedFrameRing' = DecodedFrameRing
             \/ DecodedFrameRing' = Append(DecodedFrameRing, 0)
      BY <1>7 DEF Drop, AtFrame, ReleaseAll, None, reorder, Record, Poke
    <2>2. /\ Arriving' = Arriving \ {f} /\ f \in Arriving
          /\ \A y \in Arriving' : f < y
      BY <2>1, TakenMoves DEF None
    <2>3. Occupied(DecodedFrameRing)' = Occupied(DecodedFrameRing)
      <3>1. CASE DecodedFrameRing' = DecodedFrameRing
        BY <3>1 DEF Occupied, Range
      <3>2. CASE DecodedFrameRing' = Append(DecodedFrameRing, 0)
        BY <3>2, DecodedMoves
      <3> QED BY <2>1, <3>1, <3>2
    <2> QED BY <1>7, <2>1, <2>2, <2>3 DEF Drops, Pending
  <1>8. ASSUME ReleaseReferences
        PROVE  Stays
    <2>1. /\ ParsedFrameRing # << >> /\ f = 0 /\ Taken
          /\ UNCHANGED <<DecodedFrameRing, input, Table, current, MarkerFrame, pc>>
      BY <1>8 DEF ReleaseReferences, ReleaseAll, reorder
    <2>2. Arriving' = Arriving
      <3>1. Occupied(ParsedFrameRing) =
              Occupied(Tail(ParsedFrameRing)) \cup ({f} \ {0})
        BY <1>1, <2>1, RingTail
      <3> QED BY <2>1, <3>1 DEF Arriving, Taken, Occupied, Range
    <2>3. Pending' = Pending
      BY <2>1 DEF Pending, Occupied, Range
    <2> QED BY <1>5, <2>1, <2>2, <2>3 DEF Stays
  <1>9. ASSUME Decode
        PROVE  Stays
    <2>1. /\ input # 0 /\ input' = 0
          /\ DecodedFrameRing' = Append(DecodedFrameRing, input)
          /\ UNCHANGED <<ParsedFrameRing, Table, current, MarkerFrame, pc>>
      BY <1>9 DEF Decode, reorder, None
    <2>2. Occupied(DecodedFrameRing)' = Occupied(DecodedFrameRing) \cup {input}
      <3>1. \A y \in Occupied(DecodedFrameRing) : y < input
        BY <1>1, <2>1 DEF Order, None
      <3> QED BY <1>1, <2>1, <3>1, DecodedMoves
    <2>3. Pending' = Pending
      BY <2>1, <2>2 DEF Pending, None
    <2>4. ~PassMarker /\ ~Pass
      BY <2>1 DEF PassMarker, Pass, ptod
    <2> QED BY <2>1, <2>3, <2>4 DEF Stays, Arriving, Occupied, Range
  <1>10. ASSUME Extract
         PROVE  Extracts(h) \/ Stays
    <2>1. /\ pc = "extract" /\ MarkerFrame = None /\ current = None
          /\ UNCHANGED <<ParsedFrameRing, input>>
      BY <1>1, <1>10 DEF Extract, ptod
    <2>2. Arriving' = Arriving
      BY <2>1 DEF Arriving, Occupied, Range
    <2>3. ~PassMarker /\ ~Pass
      BY <2>1 DEF PassMarker, Pass
    <2>4. CASE DecodedFrameRing = << >>
      <3>1. /\ UNCHANGED <<DecodedFrameRing, Table, current, MarkerFrame>>
            /\ pc' = "scan"
        BY <1>10, <2>4 DEF Extract
      <3> QED BY <1>2, <2>1, <2>3, <3>1 DEF Stays
    <2>5. CASE DecodedFrameRing # << >>
      <3>1. /\ h \in Nat
            /\ Occupied(DecodedFrameRing) =
                 Occupied(Tail(DecodedFrameRing)) \cup ({h} \ {0})
            /\ \A y \in Occupied(Tail(DecodedFrameRing)) : h < y
        BY <1>1, <2>5, RingTail
      <3>2. DecodedFrameRing' = Tail(DecodedFrameRing)
        BY <1>10, <2>5 DEF Extract
      <3>3. Occupied(DecodedFrameRing)' = Occupied(Tail(DecodedFrameRing))
        BY <3>2 DEF Occupied, Range
      <3>4. CASE h = 0
        <4>1. UNCHANGED <<Table, current, MarkerFrame>> /\ pc' = "scan"
          BY <1>10, <2>5, <3>4 DEF Extract, Poke
        <4>2. Pending' = Pending
          BY <2>1, <3>1, <3>3, <3>4 DEF Pending
        <4> QED BY <2>1, <2>2, <2>3, <4>1, <4>2 DEF Stays
      <3>5. CASE h # 0
        <4>1. h \in Occupied(DecodedFrameRing) /\ h \in Pending
          BY <3>1, <3>5 DEF Pending
        <4>2. h \notin Occupied(Tail(DecodedFrameRing))
          BY <3>1
        <4>3. input # 0 => h < input
          BY <1>1, <4>1 DEF Order, None
        <4>4. Pending' = Pending \ {h}
          BY <1>1, <2>1, <3>1, <3>3, <4>1, <4>2, <4>3 DEF Pending, None
        <4>5. \A y \in (Arriving \cup Pending) \ {h} : h < y
          <5>1. \A y \in Arriving : h < y
            BY <1>1, <4>1 DEF Order, Arriving
          <5> QED BY <3>1, <4>3, <5>1 DEF Pending, None
        <4>6. \/ IsMarker(h) /\ MarkerFrame' = h /\ pc' = "scan"
                 /\ UNCHANGED <<Table, current>>
              \/ ~IsMarker(h) /\ Index(h) <= DesiredFrameIndex /\ current' = h
                 /\ UNCHANGED <<Table, MarkerFrame>>
              \/ ~IsMarker(h) /\ Index(h) > DesiredFrameIndex /\ pc' = "scan"
                 /\ Table' = Table \cup {h} /\ UNCHANGED <<current, MarkerFrame>>
          BY <1>10, <2>5, <3>5, Zenon DEF Extract, Poke
        <4> QED BY <1>10, <2>1, <2>2, <4>1, <4>4, <4>5, <4>6 DEF Extracts
      <3> QED BY <3>4, <3>5
    <2> QED BY <2>4, <2>5
  <1>11. ASSUME Scan
         PROVE  Takes \/ Stays
    <2>1. /\ pc = "scan" /\ current = None
          /\ UNCHANGED <<ParsedFrameRing, DecodedFrameRing, input, MarkerFrame>>
          /\ ~PassMarker /\ ~Pass
      BY <1>1, <1>11 DEF Scan, ptod, PassMarker, Pass
    <2>2. Arriving' = Arriving /\ Pending' = Pending
      BY <1>2, <2>1
    <2>3. CASE IsTurn
      <3>1. Lowest \in WithIndex
        BY <1>1, <2>3, LowestIs DEF IsTurn
      <3>2. Table' = Table \ {Lowest} /\ current' = Lowest
        BY <1>11, <2>3 DEF Scan
      <3> QED BY <1>11, <2>1, <2>2, <2>3, <3>1, <3>2 DEF Takes
    <2>4. CASE ~IsTurn
      <3>1. UNCHANGED <<Table, current>> /\ pc' = "skip"
        BY <1>11, <2>4 DEF Scan
      <3> QED BY <2>1, <2>2, <3>1 DEF Stays
    <2> QED BY <2>3, <2>4
  <1>12. ASSUME Pass
         PROVE  Passes
    BY <1>1, <1>2, <1>12 DEF Pass, Passes, ptod, reorder
  <1>13. ASSUME PassMarker
         PROVE  PassesMarker
    BY <1>1, <1>2, <1>13 DEF PassMarker, PassesMarker, ptod
  <1>14. ASSUME Skip \/ Display \/ UNCHANGED vars
                \/ \E kind \in Drains : DrainBegins(kind)
         PROVE  Stays \/ Passes \/ PassesMarker
    <2>1. /\ UNCHANGED <<ParsedFrameRing, DecodedFrameRing, input>>
          /\ UNCHANGED <<Table, current, MarkerFrame>>
          /\ pc' \in {"extract", pc}
      BY <1>14 DEF Skip, Display, vars, DrainBegins, ptod, reorder
    <2> QED BY <1>2, <1>12, <1>13, <2>1 DEF Stays
  <1> QED BY <1>3, <1>4, <1>6, <1>7, <1>8, <1>9, <1>10, <1>11, <1>12, <1>13,
             <1>14, Zenon DEF Next, PtoD, DtoM

\* What a step does to the frames and the markers that have not been passed.
LEMMA OutstandingStep ==
  ASSUME IInv, [Next]_vars
  PROVE  /\ \A g \in Outstanding' :
              g \in Outstanding \/ (ParseFrame /\ g = Len(frames) + 1)
         /\ \A g \in Upstream' :
              g \in Upstream \/ (ParseFrame /\ g = Len(frames) + 1)
         /\ Outstanding' \subseteq Parsed'
         /\ ~PassMarker /\ ~ParseMarker => DiscardMarkers' = DiscardMarkers
         /\ PassMarker => DiscardMarkers' = {} /\ Markers = {MarkerFrame}
         /\ ParseMarker =>
              /\ DiscardMarkers = {} /\ ~PassMarker
              /\ DiscardMarkers' =
                   {m \in {Len(frames) + 1} : frames'[m].kind = "discard"}
              /\ frames'[Len(frames) + 1].kind = drain
              /\ Len(frames) + 1 \in Arriving'
         /\ \A m \in Markers \cap Arriving : m \in Arriving' \/ PtoDMarker
  <1> DEFINE n == Len(frames) + 1
             h == Head(DecodedFrameRing)
             Mark(f) == frames'[f].kind \in {"playout", "discard"}
  <1>1. /\ Len(frames) \in Nat /\ Chain \subseteq 1 .. Len(frames)
        /\ \A f \in 1 .. Len(frames) : f # n
        /\ Upstream \subseteq Outstanding
        /\ OrderInv /\ TypeOK /\ OneMarker
    BY FrameFacts DEF IInv, OrderInv
  <1>2. /\ \A f \in 1 .. Len(frames) : Mark(f) <=> IsMarker(f)
        /\ \A f \in 1 .. Len(frames) : frames'[f].kind = frames[f].kind
    BY <1>1, KindStep, FramesStep
  <1>3. ParseFrame => ~Mark(n) /\ Enters /\ ~ParseMarker
    <2>1. ParseFrame => frames'[n].kind \in {"other", "reference"}
      BY <1>1, ParseOtherFrames, ParseReferenceFrames DEF ParseFrame
    <2>2. ParseMarker => frames'[n].kind \in {"playout", "discard"}
      BY <1>1, ParseMarkerFrames
    <2> QED BY <2>1, <2>2, MovesStep
  <1>4. ParseMarker => Mark(n) /\ Enters /\ frames'[n].kind = drain
    BY <1>1, ParseMarkerFrames, MovesStep
  <1>5. ParseMarker => Markers = {} /\ drain' = "marker" /\ ~PassMarker
    BY <1>1 DEF OneMarker, ParseMarker, PassMarker
  <1>6. PassMarker => Markers' = {} /\ Markers = {MarkerFrame}
    <2>1. PassMarker => drain' = "none" /\ MarkerFrame # None
      BY DEF PassMarker
    <2>2. PassMarker => MarkerFrame \in Markers
      BY <1>1, <2>1 DEF Markers, Chain, Accepted, Extracted, OrderInv, Numbering
    <2> QED BY <1>1, <2>1, <2>2, MarkersStep DEF OneMarker
  <1>7. /\ Outstanding' = {f \in Chain' : ~Mark(f)}
        /\ Upstream' = {f \in Arriving' \cup Pending' : ~Mark(f)}
        /\ DiscardMarkers' = {m \in Markers' : frames'[m].kind = "discard"}
        /\ Markers' = {m \in Chain' : Mark(m)}
        /\ Chain' = Arriving' \cup Pending' \cup
                      ((Table' \cup {current', MarkerFrame'}) \ {0})
        /\ Chain = Arriving \cup Pending \cup
                     ((Table \cup {current, MarkerFrame}) \ {0})
        /\ Outstanding = {f \in Chain : ~IsMarker(f)}
        /\ Upstream = {f \in Arriving \cup Pending : ~IsMarker(f)}
        /\ Markers = {m \in Chain : IsMarker(m)}
        /\ DiscardMarkers = {m \in Markers : frames[m].kind = "discard"}
    BY DEF Outstanding, Upstream, DiscardMarkers, Markers, IsMarker, Chain,
       Accepted, Extracted, Arriving, None
  <1> HIDE DEF n, h, Mark
  <1>8. /\ Chain' \subseteq Chain \cup {n}
        /\ n \in Chain' => Enters
        /\ Arriving' \cup Pending' \subseteq Arriving \cup Pending \cup {n}
        /\ ~PassMarker => Markers \subseteq Chain'
        /\ Markers \cap Arriving \subseteq Arriving'
             \cup {f \in {Head(ParsedFrameRing)} : Accept \/ PtoDMarker}
        /\ Enters => n \in Arriving'
    <2>1. n \notin Chain
      BY <1>1
    <2>2. PassesMarker => PassMarker
      BY DEF PassesMarker
    <2>3. current # 0 => ~IsMarker(current)
      BY <1>1 DEF OneMarker, None
    <2>4. CASE Enters
      BY <1>7, <2>1, <2>4 DEF Enters, n
    <2>5. CASE Advances
      BY <1>7, <2>1, <2>5 DEF Advances, Enters, n
    <2>6. CASE Drops
      BY <1>7, <2>1, <2>6 DEF Drops, Enters, n
    <2>7. CASE Extracts(h)
      <3>1. /\ Arriving' = Arriving /\ Pending' = Pending \ {h} /\ h \in Pending
            /\ Table' \cup {current', MarkerFrame'} \subseteq
                 Table \cup {current, MarkerFrame, h}
            /\ Extract /\ MarkerFrame = 0
            /\ IsMarker(h) => MarkerFrame' = h
        BY <2>7 DEF Extracts, None
      <3>2. Table \cup {current} \subseteq Table' \cup {current', 0}
        BY <2>7 DEF Extracts, None
      <3>3. h # 0 /\ h \in Chain
        BY <1>1, <1>7, <3>1
      <3>4. Chain' \subseteq Chain
        BY <1>7, <3>1, <3>3
      <3>5. ~PassMarker => Markers \subseteq Chain'
        BY <1>7, <3>1, <3>2, <3>3
      <3> QED BY <1>7, <2>1, <3>1, <3>4, <3>5 DEF Enters, n
    <2>8. CASE Takes
      BY <1>7, <2>1, <2>8 DEF Takes, Enters, n, None, WithIndex
    <2>9. CASE Passes
      BY <1>7, <2>1, <2>3, <2>9 DEF Passes, Enters, n, None
    <2>10. CASE PassesMarker
      BY <1>7, <2>1, <2>2, <2>10 DEF PassesMarker, Enters, n, None
    <2>11. CASE Stays
      BY <1>7, <2>1, <2>11 DEF Stays, Enters, n
    <2> QED BY <2>4, <2>5, <2>6, <2>7, <2>8, <2>9, <2>10, <2>11, MovesStep DEF h
  <1>9. n \in Chain' => ParseFrame \/ ParseMarker
    BY <1>8 DEF Enters
  <1>10. /\ \A g \in Outstanding' : g \in Outstanding \/ (ParseFrame /\ g = n)
         /\ \A g \in Upstream' : g \in Upstream \/ (ParseFrame /\ g = n)
    BY <1>1, <1>2, <1>4, <1>7, <1>8, <1>9
  <1>11. ~PassMarker /\ ~ParseMarker => DiscardMarkers' = DiscardMarkers
    <2>1. ~PassMarker /\ ~ParseMarker => Markers' = Markers
      BY <1>1, <1>2, <1>3, <1>7, <1>8, <1>9
    <2> QED BY <1>1, <1>2, <1>7, <2>1
  <1>12. PassMarker => DiscardMarkers' = {} /\ Markers = {MarkerFrame}
    BY <1>6, <1>7
  <1>13. ParseMarker =>
           /\ DiscardMarkers = {} /\ ~PassMarker
           /\ DiscardMarkers' = {m \in {n} : frames'[m].kind = "discard"}
           /\ frames'[n].kind = drain
           /\ n \in Arriving'
    <2> SUFFICES ASSUME ParseMarker
                 PROVE  /\ DiscardMarkers = {} /\ ~PassMarker
                        /\ DiscardMarkers' =
                             {m \in {n} : frames'[m].kind = "discard"}
                        /\ frames'[n].kind = drain
                        /\ n \in Arriving'
      OBVIOUS
    <2>1. Markers = {} /\ Mark(n) /\ n \in Arriving' /\ frames'[n].kind = drain
      BY <1>4, <1>5, <1>8
    <2>2. Markers' = {n}
      BY <1>1, <1>2, <1>7, <1>8, <2>1
    <2> QED BY <1>5, <1>7, <2>1, <2>2
  <1>14. \A m \in Markers \cap Arriving : m \in Arriving' \/ PtoDMarker
    <2>1. Accept => ~IsMarker(Head(ParsedFrameRing))
      BY DEF Accept, AtFrame
    <2> QED BY <1>7, <1>8, <2>1
  <1>15. Outstanding' \subseteq Parsed'
    <2>1. DOMAIN frames' = 1 .. Len(frames')
      BY <1>1, FramesStep, LenProperties
    <2>2. Chain' \subseteq DOMAIN frames'
      <3>1. \A f \in Chain : f \in 1 .. Len(frames')
        BY <1>1, ParserStep
      <3>2. n \in Chain' => Len(frames') = n
        BY <1>9, ParserStep DEF n
      <3>3. n \in Chain' => n \in 1 .. Len(frames')
        BY <1>1, <3>2 DEF n
      <3> QED BY <1>8, <2>1, <3>1, <3>3
    <2> QED BY <2>2 DEF Outstanding, Parsed
  <1> QED BY <1>10, <1>11, <1>12, <1>13, <1>14, <1>15 DEF n

\* The flags that tell what is discarded, and the drain.
LEMMA DrainFlagsStep ==
  ASSUME IInv, DrainFlags, [Next]_vars
  PROVE  DrainFlags'
  <1>1. /\ OneMarker /\ Numbering /\ Order
        /\ DiscardingDtoM \in BOOLEAN /\ DiscardingPtoD \in BOOLEAN
        /\ DiscardMarkers \subseteq Markers
    BY DEF IInv, OrderInv, TypeOK, DiscardMarkers
  <1>2. /\ DiscardingDtoM <=> drain \in {"jump", "discard"} \/ DiscardMarkers # {}
        /\ DiscardingPtoD => \/ drain \in {"jump", "discard"}
                             \/ DiscardMarkers \cap Arriving # {}
    BY DEF DrainFlags
  <1>3. Markers # {} => drain = "marker"
    BY <1>1 DEF OneMarker
  <1>4. CASE \E kind \in Drains : DrainBegins(kind)
    <2>1. PICK kind \in Drains : DrainBegins(kind)
      BY <1>4
    <2>2. /\ drain = "none"
          /\ drain' = IF kind = "discard" THEN "jump" ELSE "playout"
          /\ DiscardingPtoD' = (kind = "discard" \/ DiscardingPtoD)
          /\ DiscardingDtoM' = (kind = "discard" \/ DiscardingDtoM)
          /\ ~PassMarker /\ ~ParseMarker
      BY <2>1 DEF DrainBegins, PassMarker, ParseMarker
    <2>3. DiscardMarkers' = {} /\ DiscardMarkers = {}
      BY <1>1, <1>3, <2>2, OutstandingStep
    <2> QED BY <1>2, <2>2, <2>3 DEF DrainFlags
  <1>5. CASE ParseMarker
    <2>1. /\ drain \in {"playout", "discard"} /\ drain' = "marker"
          /\ UNCHANGED <<DiscardingPtoD, DiscardingDtoM>>
      BY <1>5 DEF ParseMarker, flags
    <2>2. /\ DiscardMarkers = {}
          /\ DiscardMarkers' = {m \in {Len(frames) + 1} : drain = "discard"}
          /\ Len(frames) + 1 \in Arriving'
      BY <1>5, OutstandingStep
    <2> QED BY <1>2, <2>1, <2>2 DEF DrainFlags
  <1>6. CASE PassMarker
    <2>1. /\ DiscardingDtoM' = FALSE /\ drain' = "none" /\ MarkerFrame # None
          /\ DiscardingPtoD' = DiscardingPtoD
      BY <1>6 DEF PassMarker
    <2>2. DiscardMarkers' = {} /\ Markers = {MarkerFrame}
      BY <1>6, OutstandingStep
    <2>3. MarkerFrame \notin Arriving
      <3>1. MarkerFrame \in Extracted /\ MarkerFrame \in Nat
        BY <2>1 DEF Extracted, IInv, OrderInv, TypeOK
      <3>2. \A y \in Arriving : MarkerFrame < y
        BY <1>1, <3>1 DEF Order, Arriving
      <3> QED BY <3>1, <3>2
    <2>4. DiscardingPtoD = FALSE
      BY <1>1, <1>2, <1>3, <2>2, <2>3
    <2> QED BY <2>1, <2>2, <2>4 DEF DrainFlags
  <1>7. CASE /\ ~\E kind \in Drains : DrainBegins(kind)
             /\ ~ParseMarker /\ ~PassMarker
    <2>1. DiscardMarkers' = DiscardMarkers
      BY <1>7, OutstandingStep
    <2>2. /\ DiscardingDtoM' = DiscardingDtoM
          /\ DiscardingPtoD' = DiscardingPtoD \/ DiscardingPtoD' = FALSE
          /\ DiscardingPtoD' => ~PtoDMarker
          /\ drain' \in {"jump", "discard"} <=> drain \in {"jump", "discard"}
      BY <1>7 DEF Next, vars, flags, control, PtoD, DtoM, ReleaseReferences,
         PtoDMarker, Accept, Decode, Drop, Scan, Skip, Extract, Pass, Display,
         ParseFrame, ParseJump
    <2>3. DiscardingPtoD' => DiscardMarkers \cap Arriving \subseteq Arriving'
      BY <1>1, <2>2, OutstandingStep
    <2> QED BY <1>1, <1>2, <2>1, <2>2, <2>3 DEF DrainFlags
  <1> QED BY <1>4, <1>5, <1>6, <1>7

\* A frame that is to be discarded stays so until it has been.
LEMMA DoomedStep ==
  ASSUME IInv, DrainFlags, [Next]_vars
  PROVE  /\ \A g \in Outstanding : ~Doomed(g)' =>
              ~Doomed(g) /\ (DiscardingDtoM' => DiscardingDtoM)
         /\ drain = "jump" => \A g \in Outstanding' : Doomed(g)'
         /\ drain \in {"jump", "discard"} => \A g \in Outstanding : Doomed(g)
         /\ ~DiscardingDtoM' => ~DiscardingDtoM \/ PassMarker
  <1>1. /\ OneMarker /\ Numbering /\ Order /\ Discards
        /\ DiscardingDtoM \in BOOLEAN
        /\ DiscardMarkers \subseteq Markers
        /\ Len(frames) \in Nat /\ Outstanding \subseteq 1 .. Len(frames)
    BY FrameFacts DEF IInv, OrderInv, TypeOK, DiscardMarkers
  <1>2. /\ DiscardingDtoM <=> drain \in {"jump", "discard"} \/ DiscardMarkers # {}
        /\ Markers # {} => drain = "marker"
    BY <1>1 DEF DrainFlags, OneMarker
  <1>3. /\ DiscardingDtoM' <=>
             drain' \in {"jump", "discard"} \/ DiscardMarkers' # {}
        /\ DiscardMarkers' # {} => drain' = "marker"
    <2>1. DrainFlags'
      BY DrainFlagsStep
    <2>2. Markers' # {} => drain' = "marker"
      BY MarkersStep DEF IInv
    <2> QED BY <2>1, <2>2 DEF DrainFlags, DiscardMarkers
  <1>4. \A g : Doomed(g)' <=> DiscardingDtoM' /\ \A m \in DiscardMarkers' : g < m
    BY DEF Doomed
  <1>5. ASSUME PassMarker, NEW g \in Outstanding
        PROVE  ~Doomed(g)
    <2>1. Markers = {MarkerFrame} /\ MarkerFrame # None /\ pc = "extract"
      BY <1>5, OutstandingStep DEF PassMarker
    <2>2. MarkerFrame \in Nat
      BY DEF IInv, OrderInv, TypeOK
    <2>3. CASE frames[MarkerFrame].kind = "discard"
      <3>1. Table = {}
        BY <1>1, <2>1, <2>3 DEF Discards
      <3>2. current = None
        BY <1>1, <2>1 DEF Numbering
      <3>3. g \in Arriving \cup Pending \cup (Extracted \ {MarkerFrame})
        BY <2>1 DEF Outstanding, Chain, Accepted, Arriving, Markers
      <3>4. g \in Arriving \cup Pending
        BY <3>1, <3>2, <3>3 DEF Extracted
      <3>5. MarkerFrame < g
        BY <1>1, <2>1, <3>4 DEF Order, Extracted, Arriving, Pending
      <3>6. MarkerFrame \in DiscardMarkers
        BY <2>1, <2>3 DEF DiscardMarkers
      <3> QED BY <1>1, <2>2, <3>5, <3>6 DEF Doomed
    <2>4. CASE frames[MarkerFrame].kind # "discard"
      BY <1>2, <2>1, <2>4 DEF DiscardMarkers, Doomed
    <2> QED BY <2>3, <2>4
  <1>6. /\ DiscardingDtoM' => DiscardingDtoM \/ drain' = "jump"
        /\ DiscardingDtoM => DiscardingDtoM' \/ PassMarker
        /\ drain = "jump" => drain' \in {"jump", "discard"}
    <2>1. \A kind \in Drains : DrainBegins(kind) =>
            /\ DiscardingDtoM' = (kind = "discard" \/ DiscardingDtoM)
            /\ kind = "discard" => drain' = "jump"
            /\ drain # "jump"
      BY DEF DrainBegins
    <2>2. CASE PassMarker
      BY <1>2, <2>2, OutstandingStep DEF PassMarker
    <2>3. CASE ~(\E kind \in Drains : DrainBegins(kind)) /\ ~PassMarker
      <3>1. /\ DiscardingDtoM' = DiscardingDtoM
            /\ drain = "jump" => drain' \in {"jump", "discard"}
        BY <2>3 DEF Next, vars, flags, control, PtoD, DtoM, ReleaseReferences,
           PtoDMarker, Accept, Decode, Drop, Scan, Skip, Extract, Pass, Display,
           ParseFrame, ParseJump, ParseMarker
      <3> QED BY <3>1
    <2> QED BY <1>1, <2>1, <2>2, <2>3
  <1>7. ASSUME NEW g \in Outstanding, ~Doomed(g)'
        PROVE  ~Doomed(g) /\ (DiscardingDtoM' => DiscardingDtoM)
    <2>1. ~Doomed(g)
      <3>1. CASE PassMarker
        BY <1>5, <3>1
      <3>2. CASE ~PassMarker /\ ParseMarker
        <4>1. \A m \in DiscardMarkers' : g < m
          BY <1>1, <3>2, OutstandingStep
        <4> QED BY <1>4, <1>6, <1>7, <3>2, <4>1 DEF Doomed
      <3>3. CASE ~PassMarker /\ ~ParseMarker
        <4>1. DiscardMarkers' = DiscardMarkers
          BY <3>3, OutstandingStep
        <4> QED BY <1>4, <1>6, <1>7, <3>3, <4>1 DEF Doomed
      <3> QED BY <3>1, <3>2, <3>3
    <2>2. drain' # "jump"
      BY <1>3, <1>4, <1>7
    <2> QED BY <1>6, <2>1, <2>2
  <1>8. drain' \in {"jump", "discard"} => \A g : Doomed(g)'
    BY <1>3, <1>4
  <1>9. drain \in {"jump", "discard"} => \A g \in Outstanding : Doomed(g)
    BY <1>1, <1>2 DEF Doomed
  <1> QED BY <1>6, <1>7, <1>8, <1>9

-----------------------------------------------------------------------------
(* The indices that will not come.                                         *)

\* Two frames have two indices.
LEMMA Distinct ==
  ASSUME IInv, Indices, NEW f \in Parsed, NEW g \in Parsed, f # g,
         HasIndex(f), HasIndex(g)
  PROVE  Index(f) # Index(g) /\ Index(f) < NextDisplayFrameIndex
  <1>1. f < g \/ g < f
    BY FrameFacts
  <1>2. Index(f) \in Nat /\ Index(g) \in Nat
    BY FrameFacts
  <1> QED BY <1>1, <1>2 DEF Indices

\* A set of numbers that has a bound has a greatest element.
LEMMA LargestIs ==
  ASSUME NEW S \in SUBSET Nat, S # {}, NEW bound \in Nat,
         \A x \in S : x <= bound
  PROVE  \E m \in S : \A x \in S : x <= m
  <1> DEFINE U == {u \in Nat : \A x \in S : x <= u}
             u0 == Smallest(U)
  <1>1. U \in SUBSET Nat /\ U # {}
    OBVIOUS
  <1>2. u0 \in U /\ \A y \in U : u0 <= y
    <2> HIDE DEF U
    <2> QED BY <1>1, SmallestIs
  <1>3. u0 \in Nat /\ \A x \in S : x <= u0
    BY <1>2
  <1>4. ASSUME u0 \notin S
        PROVE  FALSE
    <2>1. \A x \in S : x < u0
      BY <1>3, <1>4
    <2>2. u0 # 0
      <3>1. PICK x \in S : TRUE
        OBVIOUS
      <3>2. x \in Nat /\ x < u0
        BY <2>1
      <3> HIDE DEF u0
      <3> QED BY <1>3, <3>2
    <2>3. u0 - 1 \in U
      BY <1>3, <2>1, <2>2
    <2> HIDE DEF U, u0
    <2> QED BY <1>2, <1>3, <2>3
  <1> HIDE DEF u0
  <1> QED BY <1>3, <1>4

\* What DtoM learns of the collapse was dropped, and had been given its index.
LEMMA CollapsedIs ==
  ASSUME IInv, Indices, Recorded
  PROVE  /\ Collapsed \in 0 .. NextDisplayFrameIndex
         /\ \/ Collapsed = DisplayIndicesCollapse
            \/ \E e \in NonDecodedBuffers :
                 IsReference(e.frame) /\ HasIndex(e.frame)
                 /\ Collapsed = Index(e.frame)
  <1> DEFINE late == {e.frame : e \in {k \in Known : ~k.ReleasedBuffer}}
             far == {Index(f) : f \in {g \in late :
                                  DiscardingDtoM \/ frames[g].Collapse}}
             S == far \cup {DisplayIndicesCollapse}
  <1>1. /\ NextDisplayFrameIndex \in Nat
        /\ DisplayIndicesCollapse \in 0 .. NextDisplayFrameIndex
        /\ \A e \in NonDecodedBuffers :
             e.frame \in Parsed /\ (~IsReference(e.frame) => e.ReleasedBuffer)
        /\ \A f \in Parsed : Index(f) \in Nat
    BY FrameFacts DEF Recorded
  <1>2. \A x \in far : \E e \in NonDecodedBuffers :
          IsReference(e.frame) /\ HasIndex(e.frame) /\ x = Index(e.frame)
    BY <1>1 DEF Known
  <1>3. \A x \in S : x \in Nat /\ x <= NextDisplayFrameIndex
    <2>1. \A x \in far : x \in Nat /\ x < NextDisplayFrameIndex
      BY <1>1, <1>2 DEF Indices
    <2> HIDE DEF far
    <2> QED BY <1>1, <2>1
  <1>4. Collapsed = CHOOSE m \in S : \A x \in S : x <= m
    BY DEF Collapsed
  <1>5. S \in SUBSET Nat /\ S # {}
    <2> HIDE DEF far
    <2> QED BY <1>3
  <1> HIDE DEF S
  <1>6. \E m \in S : \A x \in S : x <= m
    BY <1>1, <1>3, <1>5, LargestIs
  <1>7. Collapsed \in S
    BY <1>4, <1>6
  <1> HIDE DEF far
  <1> QED BY <1>1, <1>2, <1>3, <1>7 DEF S

\* A frame that is dropped while ParseToDecode discards is shown before what is
\* not to be discarded.
LEMMA DroppedBefore ==
  ASSUME IInv, Indices, Partition, DrainFlags, Drops, DiscardingPtoD
  PROVE  LET h == Head(ParsedFrameRing)
         IN  /\ HasIndex(h) \/ drain = "jump"
             /\ \A g \in Outstanding : g # h /\ HasIndex(g) /\ ~Doomed(g) =>
                  HasIndex(h) /\ Index(h) < Index(g)
  <1> DEFINE h == Head(ParsedFrameRing)
  <1>1. /\ h \in Arriving /\ ~IsMarker(h) /\ Arriving' = Arriving \ {h}
        /\ \A y \in Arriving' : h < y
    BY DEF Drops
  <1>2. /\ h \in Parsed /\ h # None
        /\ Outstanding \subseteq Parsed
        /\ \A g \in Parsed : g \in Nat /\ ~IsMarker(g) /\ g \in DOMAIN frames
        /\ Markers \subseteq DOMAIN frames
        /\ \A m \in DOMAIN frames : m \in Nat
    BY <1>1, FrameFacts DEF Chain, Arriving, Markers, Parsed
  <1>3. CASE drain \in {"jump", "discard"}
    <2>1. \A g : Doomed(g)
      <3>1. DiscardMarkers = {}
        BY <1>3 DEF DiscardMarkers, IInv, OneMarker
      <3>2. DiscardingDtoM
        BY <1>3 DEF DrainFlags
      <3> QED BY <3>1, <3>2 DEF Doomed
    <2>2. drain = "discard" => HasIndex(h)
      BY <1>2 DEF Partition, IInv, Indexing
    <2> QED BY <1>3, <2>1, <2>2
  <1>4. CASE drain \notin {"jump", "discard"}
    <2>1. PICK m \in DiscardMarkers : m \in Arriving
      BY <1>4 DEF DrainFlags
    <2>2. /\ m \in Markers /\ frames[m].kind = "discard" /\ DiscardingDtoM
          /\ IsMarker(m) /\ \A k \in DiscardMarkers : k = m
      BY <2>1 DEF DiscardMarkers, DrainFlags, IInv, OneMarker, Markers
    <2>3. h < m
      BY <1>1, <2>1, <2>2
    <2>4. ASSUME NEW g \in Outstanding, ~Doomed(g)
          PROVE  m < g
      <3>1. ~(g < m)
        BY <2>2, <2>4 DEF Doomed
      <3> QED BY <1>2, <2>2, <3>1
    <2> HIDE DEF h
    <2>5. /\ HasIndex(h)
          /\ \A g \in Parsed : m < g /\ HasIndex(g) => Index(h) < Index(g)
      BY <1>2, <2>2, <2>3 DEF Partition
    <2> QED BY <1>2, <2>4, <2>5 DEF h
  <1> QED BY <1>3, <1>4

\* An index that will not come is recorded before DtoM waits for it.
LEMMA RecordedStep ==
  ASSUME Droppable \subseteq {"other"}, IInv, Indices, Holes, Partition,
         DrainFlags, Recorded, [Next]_vars
  PROVE  Recorded'
  <1> DEFINE Has(f) == frames'[f].DisplayFrameIndex # INVALID_INDEX
             idx(f) == frames'[f].DisplayFrameIndex
             Ref(f) == frames'[f].kind = "reference"
             N == NextDisplayFrameIndex
             n == Len(frames) + 1
             D == DisplayIndicesCollapse
             h == Head(ParsedFrameRing)
  <1>1. /\ N \in Nat /\ Outstanding \subseteq Parsed
        /\ Parsed \subseteq 1 .. Len(frames) /\ Len(frames) \in Nat
        /\ \A f \in Parsed : Index(f) \in Nat /\ f # n /\ f # None
        /\ \A f \in Parsed : ~HasIndex(f) => f = Deferred /\ IsReference(f)
        /\ \A f \in Parsed : Ref(f) <=> IsReference(f)
    <2>1. \A f \in Parsed : ~HasIndex(f) => f = Deferred /\ IsReference(f)
      BY FrameFacts DEF Indices, IInv, Indexing
    <2>2. \A f \in Parsed : Ref(f) <=> IsReference(f)
      BY ParserStep, FrameFacts DEF IsReference
    <2> HIDE DEF Ref
    <2> QED BY FrameFacts, <2>1, <2>2
  <1>2. /\ \A e \in NonDecodedBuffers :
             /\ e.frame \in Parsed \ Chain
             /\ ~IsReference(e.frame) => e.ReleasedBuffer
             /\ ~HasIndex(e.frame) => drain = "jump"
        /\ D \in 0 .. N
        /\ \A g \in Outstanding : HasIndex(g) /\ ~Doomed(g) =>
             /\ D <= Index(g)
             /\ \A e \in NonDecodedBuffers :
                  IsReference(e.frame) => Index(e.frame) < Index(g)
    BY DEF Recorded
  <1>3. /\ \A f \in Parsed : HasIndex(f) => Has(f) /\ idx(f) = Index(f)
        /\ \A f \in Parsed' : Has(f) =>
             \/ f \in Parsed /\ HasIndex(f) /\ idx(f) = Index(f)
             \/ idx(f) = N /\ NextDisplayFrameIndex' = N + 1
        /\ N <= NextDisplayFrameIndex' /\ NextDisplayFrameIndex' \in Nat
        /\ Parsed \subseteq Parsed'
    <2>1. NextDisplayFrameIndex' \in Nat
      BY FramesStep DEF IInv, OrderInv
    <2> QED BY <2>1, IndexStep DEF Index
  <1>4. /\ \A f \in Parsed : f \notin Chain => f \notin Chain'
        /\ Outstanding' \subseteq Parsed'
        /\ \A g \in Outstanding' : g \in Parsed => g \in Outstanding
        /\ Outstanding' \subseteq Chain'
    <2>1. Chain' \subseteq Chain \cup {n}
      BY ChainStep DEF IInv
    <2> QED BY <1>1, <2>1, OutstandingStep DEF Outstanding
  <1>5. \A f \in Parsed : ~Has(f) /\ drain = "jump" => drain' = "jump"
    <2>1. ParseJump => \A f \in Parsed : Has(f)
      BY IndexingStep DEF IInv
    <2>2. drain = "jump" /\ ~ParseJump => drain' = "jump"
      <3>1. PassMarker => drain = "marker"
        BY OutstandingStep DEF IInv, OneMarker
      <3> QED BY <3>1 DEF Next, vars, control, PtoD, DtoM, DrainBegins,
         ReleaseReferences, PtoDMarker, Accept, Decode, Drop, Scan, Skip, Extract,
         Pass, Display, ParseFrame, ParseMarker
    <2> HIDE DEF Has
    <2> QED BY <2>1, <2>2
  <1>6. /\ \A g \in Outstanding : ~Doomed(g)' => ~Doomed(g) /\ drain # "jump"
        /\ drain = "jump" => \A g \in Outstanding' : Doomed(g)'
    BY DoomedStep
  <1>7. Drop \/ Skip => UNCHANGED <<frames, NextDisplayFrameIndex>>
    BY DEF Drop, Skip, parser
  <1>8. CASE UNCHANGED nonDecoded
    <2>1. NonDecodedBuffers' = NonDecodedBuffers /\ DisplayIndicesCollapse' = D
      BY <1>8 DEF nonDecoded
    <2> HIDE DEF Has, idx, Ref, N, n, D, h
    <2>2. \A e \in NonDecodedBuffers :
            /\ e.frame \in Parsed' \ Chain'
            /\ ~Ref(e.frame) => e.ReleasedBuffer
            /\ ~Has(e.frame) => drain' = "jump"
      BY <1>1, <1>2, <1>3, <1>4, <1>5
    <2>3. ASSUME NEW g \in Outstanding', Has(g), ~Doomed(g)'
          PROVE  /\ D <= idx(g)
                 /\ \A e \in NonDecodedBuffers :
                      Ref(e.frame) => idx(e.frame) < idx(g)
      <3>1. CASE g \in Parsed /\ HasIndex(g) /\ idx(g) = Index(g)
        <4>1. g \in Outstanding /\ ~Doomed(g) /\ drain # "jump"
          BY <1>4, <1>6, <2>3, <3>1
        <4> QED BY <1>1, <1>2, <1>3, <3>1, <4>1
      <3>2. CASE idx(g) = N
        <4>1. drain # "jump"
          BY <1>6, <2>3
        <4>2. \A e \in NonDecodedBuffers :
                HasIndex(e.frame) /\ idx(e.frame) < N
          BY <1>2, <1>3, <4>1 DEF Indices, N
        <4> QED BY <1>1, <1>2, <3>2, <4>2
      <3> QED BY <1>3, <1>4, <2>3, <3>1, <3>2
    <2>4. D \in 0 .. NextDisplayFrameIndex'
      BY <1>1, <1>2, <1>3
    <2> QED BY <2>1, <2>2, <2>3, <2>4 DEF Recorded, HasIndex, Index, IsReference,
            Has, idx, Ref, INVALID_INDEX
  <1>9. ASSUME Drop \/ Skip,
               \A e \in NonDecodedBuffers' :
                 /\ e.frame \in Parsed \ Chain'
                 /\ ~IsReference(e.frame) => e.ReleasedBuffer
                 /\ ~HasIndex(e.frame) => drain = "jump",
               DisplayIndicesCollapse' \in 0 .. N,
               \A g \in Outstanding : g \in Chain' /\ HasIndex(g) /\ ~Doomed(g) =>
                 /\ DisplayIndicesCollapse' <= Index(g)
                 /\ \A e \in NonDecodedBuffers' :
                      IsReference(e.frame) => Index(e.frame) < Index(g)
        PROVE  Recorded'
    <2>1. UNCHANGED <<frames, NextDisplayFrameIndex>> /\ drain' = drain
      BY <1>7, <1>9 DEF Drop, Skip, control
    <2>2. /\ Parsed' = Parsed /\ \A f : HasIndex(f)' <=> HasIndex(f)
          /\ \A f : Index(f)' = Index(f)
          /\ \A f : IsReference(f)' <=> IsReference(f)
      BY <2>1 DEF Parsed, HasIndex, Index, IsReference, IsMarker, INVALID_INDEX
    <2>3. \A g \in Outstanding' : g \in Outstanding /\ g \in Chain'
      BY <1>4, <2>2
    <2> HIDE DEF Has, idx, Ref, N, n, D, h
    <2> QED BY <1>6, <1>9, <2>1, <2>2, <2>3 DEF Recorded, N
  <1>10. CASE Drop
    <2>1. /\ Drops /\ h \in Parsed /\ h \notin Chain' /\ AtFrame
          /\ DiscardingPtoD \/ frames[h].kind \in Droppable
      <3>1. Drops
        BY <1>10, MovesStep
      <3>2. h \in Arriving /\ ~IsMarker(h) /\ h \notin Arriving'
        BY <3>1 DEF Drops
      <3>3. h \in Chain /\ h \notin Accepted
        <4>1. h \in Chain
          BY <3>2 DEF Chain, Arriving
        <4>2. \A x \in Accepted : x < h
          BY <3>2, ChainIs DEF IInv, Arriving
        <4> QED BY <4>1, <4>2, FrameFacts
      <3>4. h \notin Chain'
        <4>1. Accepted' \subseteq Accepted \/ Accept \/ PtoDMarker
          BY ChainStep DEF IInv
        <4>2. ~PtoDMarker
          BY <3>2 DEF PtoDMarker
        <4>3. Accept => input' = h /\ input' = input /\ input = None
          BY <1>10 DEF Accept, Drop, AtFrame
        <4>4. Accept => h = 0
          BY <4>3 DEF None
        <4>5. h # 0
          BY <3>3, FrameFacts
        <4> QED BY <3>2, <3>3, <4>1, <4>2, <4>4, <4>5 DEF Chain, Arriving
      <3> QED BY <1>10, <3>1, <3>2, <3>3, <3>4, FrameFacts DEF Drop
    <2>2. IsReference(h) => DiscardingPtoD
      BY <2>1 DEF IsReference
    <2>3. /\ ~HasIndex(h) => IsReference(h) /\ drain = "jump"
          /\ DiscardingPtoD =>
               \A g \in Outstanding : g # h /\ HasIndex(g) /\ ~Doomed(g) =>
                  HasIndex(h) /\ Index(h) < Index(g)
      BY <1>1, <2>1, <2>2, DroppedBefore
    <2>4. frames[h].Collapse => IsReference(h)
      BY <2>1 DEF Holes
    <2> DEFINE entry == [frame |-> h, ReleasedBuffer |-> HasIndex(h)]
    <2>5. /\ NonDecodedBuffers' \subseteq NonDecodedBuffers \cup {entry}
          /\ \/ DisplayIndicesCollapse' = D
             \/ /\ HasIndex(h) /\ (DiscardingPtoD \/ frames[h].Collapse)
                /\ DisplayIndicesCollapse' = Higher(D, Index(h))
      BY <1>10, Zenon DEF Drop, Record, nonDecoded
    <2>6. entry.frame = h /\ entry.ReleasedBuffer = HasIndex(h)
      OBVIOUS
    <2> HIDE DEF entry, h
    <2>7. ASSUME NEW e \in NonDecodedBuffers'
          PROVE  /\ e.frame \in Parsed \ Chain'
                 /\ ~IsReference(e.frame) => e.ReleasedBuffer
                 /\ ~HasIndex(e.frame) => drain = "jump"
      BY <1>2, <1>4, <2>1, <2>3, <2>5, <2>6
    <2>8. DisplayIndicesCollapse' \in 0 .. N
      <3>1. HasIndex(h) => Index(h) \in Nat /\ Index(h) < N
        BY <1>1, <2>1 DEF Indices
      <3> HIDE DEF N, D
      <3> QED BY <1>1, <1>2, <2>5, <3>1 DEF Higher
    <2>9. ASSUME NEW g \in Outstanding, g \in Chain', HasIndex(g), ~Doomed(g)
          PROVE  /\ DisplayIndicesCollapse' <= Index(g)
                 /\ \A e \in NonDecodedBuffers' :
                      IsReference(e.frame) => Index(e.frame) < Index(g)
      <3>1. g # h
        BY <2>1, <2>9
      <3>2. DiscardingPtoD => Index(h) < Index(g)
        BY <2>3, <2>9, <3>1
      <3>3. Index(h) \in Nat /\ Index(g) \in Nat /\ D <= Index(g) /\ D \in Nat
        BY <1>1, <1>2, <2>1, <2>9
      <3> HIDE DEF D
      <3>4. DisplayIndicesCollapse' <= Index(g)
        BY <2>2, <2>4, <2>5, <3>2, <3>3 DEF Higher
      <3> QED BY <1>2, <2>2, <2>5, <2>6, <2>9, <3>2, <3>4
    <2> QED BY <1>9, <1>10, <2>7, <2>8, <2>9
  <1>11. CASE Skip /\ ~UNCHANGED nonDecoded
    <2>1. /\ DisplayIndicesCollapse' = Collapsed
          /\ NonDecodedBuffers' =
               (NonDecodedBuffers \ Known) \cup
               {[frame |-> e.frame, ReleasedBuffer |-> TRUE] :
                  e \in {k \in Known : Index(k.frame) > FirstWanted}}
      BY <1>11 DEF Skip
    <2>2. \A e \in NonDecodedBuffers' : \E k \in NonDecodedBuffers :
            e.frame = k.frame /\ (k.ReleasedBuffer => e.ReleasedBuffer)
      <3> HIDE DEF Has, idx, Ref, N, n, D, h
      <3>1. TAKE e \in NonDecodedBuffers'
      <3>2. CASE e \in NonDecodedBuffers
        BY <3>2
      <3>3. CASE e \in {[frame |-> k.frame, ReleasedBuffer |-> TRUE] :
                          k \in {k \in Known : Index(k.frame) > FirstWanted}}
        <4>1. PICK k \in Known : e = [frame |-> k.frame, ReleasedBuffer |-> TRUE]
          BY <3>3
        <4> QED BY <4>1 DEF Known
      <3> QED BY <2>1, <3>2, <3>3
    <2>3. /\ Collapsed \in 0 .. N
          /\ \/ Collapsed = D
             \/ \E e \in NonDecodedBuffers :
                  IsReference(e.frame) /\ HasIndex(e.frame)
                  /\ Collapsed = Index(e.frame)
      BY CollapsedIs
    <2> HIDE DEF Has, idx, Ref, N, n, D, h
    <2>4. ASSUME NEW e \in NonDecodedBuffers'
          PROVE  /\ e.frame \in Parsed \ Chain'
                 /\ ~IsReference(e.frame) => e.ReleasedBuffer
                 /\ ~HasIndex(e.frame) => drain = "jump"
      BY <1>2, <1>4, <2>2
    <2>5. ASSUME NEW g \in Outstanding, HasIndex(g), ~Doomed(g)
          PROVE  /\ DisplayIndicesCollapse' <= Index(g)
                 /\ \A e \in NonDecodedBuffers' :
                      IsReference(e.frame) => Index(e.frame) < Index(g)
      <3>1. \A e \in NonDecodedBuffers : Index(e.frame) \in Nat
        BY <1>1, <1>2
      <3>2. Collapsed <= Index(g)
        BY <1>1, <1>2, <2>3, <2>5, <3>1
      <3> QED BY <1>2, <2>1, <2>2, <2>5, <3>2
    <2> QED BY <1>9, <1>11, <2>1, <2>3, <2>4, <2>5
  <1>12. UNCHANGED nonDecoded \/ Drop \/ (Skip /\ ~UNCHANGED nonDecoded)
    BY DEF Next, vars, PtoD, DtoM, DrainBegins, ReleaseReferences, PtoDMarker,
       Accept, Decode, Scan, PassMarker, Extract, Pass, Display, ParseFrame,
       ParseJump, ParseMarker
  <1> QED BY <1>8, <1>10, <1>11, <1>12

-----------------------------------------------------------------------------
(* The index DtoM waits for.                                               *)

\* Only one frame ahead of another one can have a higher index.
LEMMA OneInverted ==
  ASSUME IInv, Indices, NEW f \in Parsed, NEW t \in Parsed, NEW g \in Parsed,
         f < g, t < g, f # t, HasIndex(f), HasIndex(g), ~(Index(f) < Index(g)),
         HasIndex(t) => ~(Index(t) < Index(g))
  PROVE  FALSE
  <1>1. f \in Nat /\ t \in Nat /\ g \in Nat
    BY FrameFacts
  <1>2. /\ IsReference(f)
        /\ \A c \in Parsed : f < c /\ c <= g => ~IsReference(c)
    BY DEF Indices
  <1>3. CASE HasIndex(t)
    <2>1. /\ IsReference(t)
          /\ \A c \in Parsed : t < c /\ c <= g => ~IsReference(c)
      BY <1>3 DEF Indices
    <2> QED BY <1>1, <1>2, <2>1
  <1>4. CASE ~HasIndex(t)
    <2>1. t = Deferred /\ t # None
      BY <1>4, FrameFacts DEF IInv, Indexing
    <2>2. IsReference(t) /\ f <= t
      BY <1>2, <2>1 DEF Indices
    <2> QED BY <1>1, <1>2, <2>2
  <1> QED BY <1>3, <1>4

\* No index that is to come is skipped.
LEMMA FirstWantedIs ==
  ASSUME IInv, Indices, Recorded, Desired
  PROVE  /\ FirstWanted \in DesiredFrameIndex .. NextDisplayFrameIndex
         /\ \A g \in Outstanding :
              HasIndex(g) /\ ~Doomed(g) /\ DesiredFrameIndex <= Index(g) =>
                FirstWanted <= Index(g)
  <1> DEFINE C == {d \in DesiredFrameIndex .. MaxFrames :
                     /\ \A e \in Known : Index(e.frame) # d
                     /\ d >= Collapsed \/ Emptied(d)}
             N == NextDisplayFrameIndex
  <1>1. /\ N \in Nat /\ MaxFrames \in Nat /\ N <= MaxFrames
        /\ Outstanding \subseteq Parsed
        /\ \A f \in Parsed : Index(f) \in Nat
        /\ DesiredFrameIndex \in 0 .. N
        /\ \A e \in NonDecodedBuffers : e.frame \in Parsed \ Chain
    BY FrameFacts DEF Recorded, Desired
  <1>2. /\ Collapsed \in 0 .. N
        /\ \/ Collapsed = DisplayIndicesCollapse
           \/ \E e \in NonDecodedBuffers :
                IsReference(e.frame) /\ HasIndex(e.frame)
                /\ Collapsed = Index(e.frame)
    BY CollapsedIs
  <1>3. \A e \in Known : /\ e \in NonDecodedBuffers /\ HasIndex(e.frame)
                         /\ Index(e.frame) \in Nat /\ Index(e.frame) < N
    BY <1>1 DEF Known, Indices
  <1>4. N \in C
    BY <1>1, <1>2, <1>3
  <1>5. C \in SUBSET Nat
    BY <1>1
  <1>6. FirstWanted \in C /\ \A d \in C : FirstWanted <= d
    <2>1. FirstWanted = Smallest(C)
      BY DEF FirstWanted
    <2> HIDE DEF C
    <2> QED BY <1>4, <1>5, <2>1, SmallestIs
  <1>7. ASSUME NEW g \in Outstanding, HasIndex(g), ~Doomed(g),
               DesiredFrameIndex <= Index(g)
        PROVE  Index(g) \in C
    <2>1. Index(g) \in Nat /\ Index(g) < N
      BY <1>1, <1>7 DEF Indices
    <2>2. /\ DisplayIndicesCollapse <= Index(g)
          /\ \A e \in NonDecodedBuffers :
               IsReference(e.frame) => Index(e.frame) < Index(g)
      BY <1>7 DEF Recorded
    <2>3. Collapsed <= Index(g)
      <3>1. \A e \in NonDecodedBuffers : Index(e.frame) \in Nat
        BY <1>1
      <3> QED BY <1>2, <2>1, <2>2, <3>1
    <2>4. \A e \in Known : Index(e.frame) # Index(g)
      <3>1. \A e \in Known : e.frame \in Parsed /\ e.frame # g
        BY <1>1, <1>3 DEF Outstanding
      <3> QED BY <1>1, <1>3, <1>7, <3>1, Distinct
    <2>5. Index(g) \in DesiredFrameIndex .. MaxFrames
      BY <1>1, <1>7, <2>1
    <2>6. Index(g) >= Collapsed
      BY <1>1, <1>2, <2>1, <2>3
    <2> QED BY <2>4, <2>5, <2>6
  <1> HIDE DEF C
  <1>8. FirstWanted \in DesiredFrameIndex .. MaxFrames
    BY <1>6 DEF C
  <1> QED BY <1>1, <1>4, <1>6, <1>7, <1>8

\* A frame of a lower index than what is passed on is the next to come, and
\* does so only behind the marker that pushed a lone frame out of the table.
LEMMA PassedOver ==
  ASSUME IInv, Indices, Partition, Turn, pc = "pass",
         NEW g \in Outstanding, g # current, HasIndex(g), ~Doomed(g),
         ~(Index(current) < Index(g))
  PROVE  /\ ~DiscardingDtoM /\ g \in Upstream /\ Table = {}
         /\ \A h \in Upstream : h < g => HasIndex(h) /\ Index(h) < Index(g)
  <1>1. /\ Outstanding \subseteq Parsed /\ Upstream \subseteq Outstanding
        /\ \A f \in Parsed : f \in Nat /\ Index(f) \in Nat
        /\ Chain \subseteq DOMAIN frames
        /\ \A m \in DOMAIN frames : m \in Nat
        /\ Order /\ Numbering /\ OneMarker
    BY FrameFacts DEF IInv, OrderInv
  <1>2. /\ current # None /\ current \in Outstanding /\ HasIndex(current)
        /\ current \in Extracted
    <2>1. current # None /\ HasIndex(current)
      BY <1>1 DEF Numbering, Turn
    <2>2. current \in Extracted /\ ~IsMarker(current)
      BY <1>1, <2>1 DEF Extracted, OneMarker
    <2> QED BY <2>1, <2>2 DEF Outstanding, Chain, Accepted
  <1>3. \A m \in Markers : current < m
    <2> SUFFICES ASSUME NEW m \in Markers
                 PROVE  current < m
      OBVIOUS
    <2>1. m \in Chain /\ IsMarker(m)
      BY DEF Markers
    <2>2. CASE m \in Arriving \cup Pending
      BY <1>1, <1>2, <2>2 DEF Order, Arriving, Pending
    <2>3. CASE m = MarkerFrame /\ MarkerFrame # None
      BY <1>1, <2>3 DEF Order
    <2>4. CASE m \in (Table \cup {current}) \ {None}
      BY <1>1, <2>1, <2>4 DEF OneMarker
    <2> QED BY <2>1, <2>2, <2>3, <2>4 DEF Chain, Accepted, Extracted, Arriving
  <1>4. ~DiscardingDtoM
    <2> SUFFICES ASSUME DiscardingDtoM
                 PROVE  FALSE
      OBVIOUS
    <2>1. PICK m \in DiscardMarkers : ~(g < m)
      BY DEF Doomed
    <2>2. /\ m \in Markers /\ frames[m].kind = "discard" /\ g # m
          /\ m \in DOMAIN frames
      BY <1>1, <2>1 DEF DiscardMarkers, Markers, Outstanding
    <2>3. current < m /\ m < g
      BY <1>1, <1>3, <2>1, <2>2
    <2> QED BY <1>1, <1>2, <2>2, <2>3 DEF Partition
  <1>5. g \notin Due /\ (\A t \in Due \ {current} : HasIndex(t) =>
                           Index(current) < Index(t))
    BY <1>4 DEF Turn
  <1>6. MarkerFrame # None /\ g \in Upstream
    <2>1. MarkerFrame # None /\ g \notin Table
      <3>1. g # None
        BY <1>1, FrameFacts
      <3> QED BY <1>5, <3>1 DEF Due
    <2>2. g # MarkerFrame
      BY <1>1, <2>1 DEF Outstanding, Numbering
    <2> QED BY <1>1, <2>1, <2>2
            DEF Outstanding, Chain, Accepted, Extracted, Upstream, Arriving
  <1>7. \A x \in Extracted, y \in Upstream : x < y
    BY <1>1 DEF Order, Upstream, Arriving, Pending
  <1>8. Table = {}
    <2> SUFFICES ASSUME NEW t \in Table
                 PROVE  FALSE
      OBVIOUS
    <2>1. t # None /\ t \in Extracted
      BY DEF Extracted, IInv, OrderInv, TypeOK
    <2>2. t \in Outstanding
      BY <1>1, <2>1 DEF OneMarker, Outstanding, Chain, Accepted
    <2>3. t # current
      BY DEF Turn
    <2>4. HasIndex(t) => Index(current) < Index(t)
      BY <1>5, <1>6, <2>1, <2>3 DEF Due
    <2>5. t < g /\ current < g
      BY <1>2, <1>6, <1>7, <2>1
    <2>6. HasIndex(t) => ~(Index(t) < Index(g))
      BY <1>1, <1>2, <2>2, <2>4
    <2> QED BY <1>1, <1>2, <2>2, <2>3, <2>5, <2>6, OneInverted
  <1>9. ASSUME NEW h \in Upstream, h < g
        PROVE  HasIndex(h) /\ Index(h) < Index(g)
    <2>1. current < h /\ current < g
      BY <1>2, <1>6, <1>7
    <2>2. ~IsReference(h)
      BY <1>1, <1>2, <1>9, <2>1 DEF Indices
    <2> QED BY <1>1, <1>9, <2>2 DEF Indices
  <1> QED BY <1>4, <1>6, <1>8, <1>9

\* What is passed on leaves the chain.
LEMMA PassedLeaves ==
  ASSUME IInv, Turn, Passes
  PROVE  current \notin Chain'
  <1>1. /\ current # None /\ current \in Extracted /\ current \in Nat
        /\ pc = "pass" /\ Order /\ current \notin Table
        /\ MarkerFrame \in Nat
    BY DEF Passes, Extracted, Pass, Turn, IInv, OrderInv, TypeOK
  <1>2. current \notin Arriving \cup Pending
    <2>1. \A y \in Arriving \cup Pending : current < y
      BY <1>1 DEF Order, Arriving, Pending
    <2> QED BY <1>1, <2>1
  <1>3. MarkerFrame # None => current # MarkerFrame
    BY <1>1 DEF Order
  <1>4. Chain' = Arriving \cup Pending \cup ((Table \cup {None, MarkerFrame}) \ {None})
    BY DEF Passes, Chain, Accepted, Extracted, Arriving
  <1> QED BY <1>1, <1>2, <1>3, <1>4

\* DesiredFrameIndex passes only what is recorded or shown.
LEMMA DesiredStep ==
  ASSUME IInv, Indices, Partition, DrainFlags, Recorded, Turn, Desired,
         [Next]_vars
  PROVE  Desired'
  <1> DEFINE Has(f) == frames'[f].DisplayFrameIndex # INVALID_INDEX
             idx(f) == frames'[f].DisplayFrameIndex
             N == NextDisplayFrameIndex
             n == Len(frames) + 1
             Next1(g) == /\ ~DiscardingDtoM /\ g \in Upstream /\ Table = {}
                         /\ \A h \in Upstream : h < g =>
                              HasIndex(h) /\ Index(h) < Index(g)
  <1>1. /\ N \in Nat /\ Outstanding \subseteq Parsed
        /\ Upstream \subseteq Outstanding
        /\ \A f \in Parsed : /\ f \in Nat /\ Index(f) \in Nat /\ f < n
                             /\ f # None
        /\ DesiredFrameIndex \in 0 .. N
        /\ n \in Nat
    BY FrameFacts DEF Desired
  <1>2. \A g \in Outstanding \ {current} :
          HasIndex(g) /\ ~Doomed(g) /\ Index(g) < DesiredFrameIndex => Next1(g)
    BY DEF Desired
  <1>3. /\ \A f \in Parsed : HasIndex(f) => Has(f) /\ idx(f) = Index(f)
        /\ \A f \in Parsed' : Has(f) =>
             \/ f \in Parsed /\ HasIndex(f) /\ idx(f) = Index(f)
             \/ idx(f) = N
        /\ N <= NextDisplayFrameIndex' /\ NextDisplayFrameIndex' \in Nat
    <2>1. NextDisplayFrameIndex' \in Nat
      BY FramesStep DEF IInv, OrderInv
    <2> QED BY <2>1, IndexStep DEF Index
  <1>4. /\ \A g \in Outstanding' : g \in Outstanding \/ g = n
        /\ \A g \in Upstream' : g \in Upstream \/ g = n
        /\ Outstanding' \subseteq Parsed'
        /\ \A g \in Outstanding : ~Doomed(g)' =>
             ~Doomed(g) /\ (DiscardingDtoM' => DiscardingDtoM)
    BY OutstandingStep, DoomedStep
  <1>5. Pass \/ Skip \/ DesiredFrameIndex' = DesiredFrameIndex
    BY DEF Next, vars, output, PtoD, DtoM, DrainBegins, ReleaseReferences,
       PtoDMarker, Accept, Decode, Drop, Scan, PassMarker, Extract, Display,
       ParseFrame, ParseJump, ParseMarker
  <1>6. Pass => /\ pc = "pass" /\ HasIndex(current) /\ current \in Parsed
                /\ DesiredFrameIndex' = Index(current) + 1
                /\ current \notin Chain'
    <2> SUFFICES ASSUME Pass
                 PROVE  /\ pc = "pass" /\ HasIndex(current) /\ current \in Parsed
                        /\ DesiredFrameIndex' = Index(current) + 1
                        /\ current \notin Chain'
      OBVIOUS
    <2>1. Passes /\ pc = "pass" /\ DesiredFrameIndex' = Index(current) + 1
      BY MovesStep DEF Pass
    <2>2. HasIndex(current) /\ current # None
      BY <2>1 DEF Turn, Passes
    <2>3. current \in Chain /\ ~IsMarker(current)
      BY <2>2 DEF IInv, OneMarker, Chain, Accepted, Extracted
    <2> QED BY <2>1, <2>2, <2>3, PassedLeaves, FrameFacts
  <1>7. Skip => /\ DesiredFrameIndex' \in DesiredFrameIndex .. N
                /\ \A g \in Outstanding :
                     HasIndex(g) /\ ~Doomed(g) /\ DesiredFrameIndex <= Index(g) =>
                       DesiredFrameIndex' <= Index(g)
    <2>1. DesiredFrameIndex \in DesiredFrameIndex .. N
      BY <1>1
    <2> QED BY <2>1, FirstWantedIs DEF Skip
  <1>8. DesiredFrameIndex' \in 0 .. N
    <2>1. Pass => Index(current) < N /\ Index(current) \in Nat
      BY <1>1, <1>6 DEF Indices
    <2>2. Pass => DesiredFrameIndex' \in 0 .. N
      BY <1>1, <1>6, <2>1
    <2>3. Skip => DesiredFrameIndex' \in 0 .. N
      BY <1>1, <1>7
    <2> QED BY <1>1, <1>5, <2>2, <2>3
  <1>9. ASSUME NEW g \in Outstanding' \ {current'}, Has(g), ~Doomed(g)',
               idx(g) < DesiredFrameIndex'
        PROVE  /\ ~DiscardingDtoM' /\ g \in Upstream' /\ Table' = {}
               /\ \A h \in Upstream' : h < g => Has(h) /\ idx(h) < idx(g)
    <2>1. /\ g \in Parsed /\ HasIndex(g) /\ idx(g) = Index(g) /\ g \in Outstanding
          /\ ~Doomed(g) /\ (DiscardingDtoM' => DiscardingDtoM)
          /\ Index(g) \in Nat
      <3>1. idx(g) # N
        <4> HIDE DEF idx
        <4> QED BY <1>1, <1>8, <1>9
      <3>2. g \in Parsed /\ HasIndex(g) /\ idx(g) = Index(g)
        BY <1>3, <1>4, <1>9, <3>1
      <3>3. g # n
        BY <1>1, <3>2
      <3> HIDE DEF n
      <3> QED BY <1>1, <1>4, <1>9, <3>2, <3>3
    <2>2. Next1(g)
      <3>1. CASE g # current /\ Index(g) < DesiredFrameIndex
        BY <1>2, <2>1, <3>1
      <3>2. CASE g # current /\ ~(Index(g) < DesiredFrameIndex)
        <4>1. Pass
          <5>1. Skip => DesiredFrameIndex' <= Index(g)
            BY <1>1, <1>7, <2>1, <3>2
          <5>2. DesiredFrameIndex' \in Nat
            BY <1>1, <1>8
          <5>3. ~Skip
            BY <1>9, <2>1, <5>1, <5>2
          <5> QED BY <1>5, <1>9, <2>1, <3>2, <5>3
        <4>2. ~(Index(current) < Index(g))
          BY <1>1, <1>6, <1>9, <2>1, <4>1
        <4> QED BY <1>6, <2>1, <3>2, <4>1, <4>2, PassedOver
      <3>3. CASE g = current
        <4>1. g # None /\ g \in Chain' /\ current' # current
          BY <1>1, <1>9, <2>1, <3>3 DEF Outstanding
        <4>2. ~Pass
          BY <1>6, <3>3, <4>1
        <4> QED BY <3>3, <4>1, <4>2, MovesStep DEF Enters, Advances, Drops,
                Extracts, Takes, Passes, PassesMarker, Stays
      <3> QED BY <3>1, <3>2, <3>3
    <2> DEFINE f == Head(DecodedFrameRing)
    <2>3. Extracts(f) =>
            /\ ~IsMarker(f) => current' = f
            /\ g # f /\ Table' = Table
      <3> SUFFICES ASSUME Extracts(f)
                   PROVE  /\ ~IsMarker(f) => current' = f
                          /\ g # f /\ Table' = Table
        OBVIOUS
      <3>1. ~Pass /\ ~Skip /\ DesiredFrameIndex' = DesiredFrameIndex
        BY <1>5 DEF Extracts, Extract, Pass, Skip, output
      <3>2. Index(g) < DesiredFrameIndex
        BY <1>9, <2>1, <3>1
      <3>3. ~IsMarker(g)
        BY <2>1 DEF Outstanding
      <3>4. ~IsMarker(f) => f \in Upstream
        BY DEF Extracts, Upstream
      <3>5. g # f => f < g
        BY <2>2 DEF Extracts, Upstream
      <3> HIDE DEF f
      <3>6. ASSUME ~IsMarker(f), Index(f) > DesiredFrameIndex
            PROVE  FALSE
        <4>1. g # f
          BY <1>1, <2>1, <3>2, <3>6
        <4>2. Index(f) < Index(g)
          BY <2>2, <3>4, <3>5, <3>6, <4>1
        <4> QED BY <1>1, <2>1, <3>2, <3>4, <3>6, <4>2
      <3>7. (~IsMarker(f) => current' = f) /\ Table' = Table
        BY <3>6 DEF Extracts
      <3> QED BY <1>9, <3>3, <3>7
    <2> HIDE DEF f
    <2>4. g \in Upstream' /\ Table' = {}
      <3>1. g \in Arriving \cup Pending /\ ~IsMarker(g)
        BY <2>2 DEF Upstream
      <3>2. g \in Arriving' \cup Pending' /\ Table' = {}
        <4>1. CASE Enters \/ Advances \/ Stays \/ Passes \/ PassesMarker
          BY <2>2, <3>1, <4>1 DEF Enters, Advances, Stays, Passes, PassesMarker
        <4>2. CASE Drops
          <5>1. g # Head(ParsedFrameRing)
            <6>1. g \in Chain'
              BY <1>9 DEF Outstanding
            <6>2. Drops => Head(ParsedFrameRing) \notin Chain'
              <7>1. \A x \in Accepted, y \in Arriving : x < y
                BY ChainIs DEF IInv, Arriving
              <7>2. Arriving \subseteq Nat
                BY FrameFacts DEF Chain, Arriving
              <7>3. Drops => /\ Accepted' = Accepted
                             /\ Head(ParsedFrameRing) \in Arriving \ Arriving'
                BY DEF Drops, Accepted, Extracted
              <7> QED BY <7>1, <7>2, <7>3 DEF Chain, Arriving
            <6> QED BY <4>2, <6>1, <6>2
          <5> QED BY <2>2, <3>1, <4>2, <5>1 DEF Drops
        <4>3. CASE Extracts(f)
          BY <2>2, <2>3, <3>1, <4>3 DEF Extracts
        <4>4. CASE Takes
          BY <2>2, <4>4 DEF Takes, WithIndex
        <4> QED BY <4>1, <4>2, <4>3, <4>4, MovesStep DEF f
      <3>3. ~IsMarker(g)'
        BY <2>1, <1>9 DEF Outstanding
      <3> QED BY <3>2, <3>3 DEF Upstream
    <2>5. ASSUME NEW h \in Upstream', h < g
          PROVE  Has(h) /\ idx(h) < idx(g)
      <3>1. h \in Upstream
        BY <1>1, <1>4, <2>1, <2>5
      <3> QED BY <1>1, <1>3, <2>1, <2>2, <2>5, <3>1
    <2> QED BY <2>1, <2>2, <2>4, <2>5
  <1>10. DesiredFrameIndex' \in 0 .. NextDisplayFrameIndex'
    BY <1>1, <1>3, <1>8
  <1> HIDE DEF Has, idx
  <1> QED BY <1>9, <1>10 DEF Desired, HasIndex, Index, Has, idx, INVALID_INDEX

-----------------------------------------------------------------------------
(* What is passed on, and the frames that are due with it.                 *)

\* What becomes due was due, or is new.
LEMMA DueStep ==
  ASSUME IInv, [Next]_vars
  PROVE  /\ Due \subseteq Outstanding
         /\ \A g \in Due' : g \in Parsed'
         /\ ~PassMarker => \A g \in Due' : g \in Parsed => g \in Due
  <1>1. /\ Outstanding \subseteq Parsed /\ OneMarker
        /\ \A f \in Parsed : f # None /\ f # Len(frames) + 1
    BY FrameFacts DEF IInv
  <1>2. /\ Outstanding' \subseteq Parsed'
        /\ \A g \in Outstanding' : g \in Parsed => g \in Outstanding
    BY <1>1, OutstandingStep
  <1>3. Due \subseteq Outstanding
    BY <1>1 DEF Due, OneMarker, Outstanding, Chain, Accepted, Extracted
  <1>4. Due' \subseteq Outstanding'
    <2>1. OneMarker'
      BY OneMarkerStep DEF IInv
    <2> QED BY <2>1 DEF Due, OneMarker, Outstanding, Chain, Accepted, Extracted,
            None
  <1>5. ASSUME ~PassMarker, NEW g \in Due', g \in Parsed
        PROVE  g \in Due
    <2>1. g \in Outstanding /\ g # None
      BY <1>1, <1>2, <1>4, <1>5
    <2>2. CASE MarkerFrame = None
      BY <2>1, <2>2 DEF Due
    <2>3. CASE MarkerFrame # None
      <3>1. /\ MarkerFrame' = MarkerFrame
            /\ Table' \cup {current'} \subseteq Table \cup {current, None}
        BY <1>5, <2>3, MovesStep DEF Enters, Advances, Drops, Extracts, Takes,
           Passes, PassesMarker, Stays, WithIndex
      <3>2. g \in (Table' \cup {current'}) \ {None}
        BY <1>5, <2>1, <2>3, <3>1 DEF Due, None
      <3> QED BY <2>1, <2>3, <3>1, <3>2 DEF Due
    <2> QED BY <2>2, <2>3
  <1> QED BY <1>2, <1>3, <1>4, <1>5

\* What DtoM takes out of the table is the first of what is due.
LEMMA TakesFirst ==
  ASSUME MaxDecodesOutOfOrder >= 2, IInv, Indices, Holes, Desired, Takes,
         ~DiscardingDtoM, NEW g \in Due, g # Lowest, HasIndex(g),
         Due \subseteq Outstanding
  PROVE  Index(Lowest) < Index(g)
  <1> DEFINE L == Lowest
  <1>1. /\ Outstanding \subseteq Parsed /\ Upstream \subseteq Outstanding
        /\ \A f \in Parsed : f \in Nat /\ Index(f) \in Nat /\ f # None
        /\ Order /\ OneMarker /\ Numbering /\ g \in Parsed
        /\ DesiredFrameIndex \in Nat
    BY FrameFacts DEF IInv, OrderInv, Desired
  <1>2. \A t \in Table : t \in Parsed /\ t \in Extracted
    BY <1>1 DEF OneMarker, Outstanding, Chain, Accepted, Extracted, IInv, OrderInv,
            TypeOK
  <1>3. /\ L \in WithIndex /\ L \in Table /\ HasIndex(L) /\ L \in Parsed
        /\ L \in Extracted
        /\ \A t \in WithIndex : Index(L) <= Index(t)
        /\ IsTurn /\ current = None
    BY <1>2, LowestIs DEF Takes, WithIndex, IInv, OrderInv, IsTurn
  <1>4. Index(L) # Index(g)
    BY <1>1, <1>3, Distinct
  <1>5. CASE g \in Table
    BY <1>1, <1>3, <1>4, <1>5 DEF WithIndex
  <1>6. CASE g \notin Table
    <2>1. MarkerFrame = None /\ g \in Outstanding
      BY <1>1, <1>3, <1>6 DEF Due
    <2>2. g \in Upstream
      BY <1>1, <1>3, <1>6, <2>1
         DEF Outstanding, Chain, Accepted, Extracted, Upstream, Arriving
    <2>3. \A x \in Extracted : x < g
      BY <1>1, <2>2 DEF Order, Upstream, Arriving, Pending
    <2>4. CASE Index(L) = DesiredFrameIndex
      <3>1. ~(Index(g) < DesiredFrameIndex)
        BY <1>1, <1>3, <2>1 DEF Desired, Doomed
      <3> HIDE DEF L
      <3>2. Index(L) < Index(g)
        BY <1>1, <1>3, <1>4, <2>4, <3>1
      <3> QED BY <3>2 DEF L
    <2>5. CASE Cardinality(Table) >= MaxDecodesOutOfOrder
      <3>1. MaxDecodesOutOfOrder \in Int
        BY BuffersAssumption DEF MaxDecodesOutOfOrder, Lower
      <3>2. Table # {L}
        <4>1. Cardinality({L}) = 1
          BY FS_Singleton
        <4> QED BY <2>5, <3>1, <4>1
      <3> HIDE DEF L
      <3>3. PICK t \in Table : t # L
        BY <1>3, <3>2
      <3>4. t \in Parsed /\ t < g /\ L < g
        BY <1>2, <1>3, <2>3, <3>3
      <3>5. ASSUME ~(Index(L) < Index(g))
            PROVE  FALSE
        <4>1. HasIndex(t) => ~(Index(t) < Index(g))
          BY <1>1, <1>3, <3>3, <3>4, <3>5 DEF WithIndex
        <4> QED BY <1>1, <1>3, <3>3, <3>4, <3>5, <4>1, OneInverted
      <3> QED BY <3>5 DEF L
    <2>6. CASE frames[L].Collapse
      BY <1>1, <1>3, <2>3, <2>6 DEF Holes
    <2> QED BY <1>3, <2>1, <2>4, <2>5, <2>6 DEF IsTurn
  <1> QED BY <1>5, <1>6

\* So is what DtoM passes on straight out of the ring.
LEMMA ExtractsFirst ==
  ASSUME IInv, Indices, Desired, NEW f, Extracts(f), ~IsMarker(f),
         current' = f
  PROVE  /\ HasIndex(f) /\ f \in Parsed /\ f \notin Table
         /\ ~DiscardingDtoM => \A g \in Outstanding :
              g # f /\ HasIndex(g) => Index(f) < Index(g)
  <1>1. /\ Outstanding \subseteq Parsed /\ Upstream \subseteq Outstanding
        /\ \A g \in Parsed : g \in Nat /\ Index(g) \in Nat /\ g # None
        /\ Order /\ DesiredFrameIndex \in 0 .. NextDisplayFrameIndex
        /\ NextDisplayFrameIndex <= MaxFrames /\ NextDisplayFrameIndex \in Nat
        /\ MaxFrames \in Nat /\ INVALID_INDEX = MaxFrames + 1
    BY FrameFacts DEF IInv, OrderInv, Desired
  <1>2. /\ f \in Pending /\ f \in Upstream /\ f \in Parsed
        /\ \A y \in (Arriving \cup Pending) \ {f} : f < y
        /\ current = None
    BY <1>1 DEF Extracts, Upstream
  <1>3. f \notin Table
    <2>1. \A x \in Table : x \in Extracted
      BY DEF Extracted, IInv, OrderInv, TypeOK
    <2>2. \A x \in Extracted : x < f
      BY <1>1, <1>2 DEF Order, Pending
    <2> QED BY <1>1, <1>2, <2>1, <2>2
  <1>4. Index(f) <= DesiredFrameIndex
    BY <1>1, <1>2 DEF Extracts
  <1>5. HasIndex(f)
    BY <1>1, <1>2, <1>4 DEF HasIndex
  <1>6. ASSUME ~DiscardingDtoM, NEW g \in Outstanding, g # f, HasIndex(g)
        PROVE  Index(f) < Index(g)
    <2>1. g \in Parsed /\ g # current /\ ~Doomed(g)
      BY <1>1, <1>2, <1>6 DEF Doomed
    <2>2. CASE Index(g) < DesiredFrameIndex
      <3>1. /\ g \in Upstream
            /\ \A h \in Upstream : h < g => HasIndex(h) /\ Index(h) < Index(g)
        BY <1>6, <2>1, <2>2 DEF Desired
      <3>2. f < g
        BY <1>2, <1>6, <3>1 DEF Upstream
      <3> QED BY <1>2, <3>1, <3>2
    <2>3. CASE ~(Index(g) < DesiredFrameIndex)
      <3>1. Index(f) # Index(g)
        BY <1>2, <1>5, <1>6, <2>1, Distinct
      <3> QED BY <1>1, <1>2, <1>4, <2>1, <2>3, <3>1
    <2> QED BY <2>2, <2>3
  <1> QED BY <1>2, <1>3, <1>5, <1>6

\* DtoM takes the first of what is due.
LEMMA TurnStep ==
  ASSUME MaxDecodesOutOfOrder >= 2, IInv, Indices, Holes, Desired, Turn, DrainFlags,
         [Next]_vars
  PROVE  Turn'
  <1> DEFINE Has(f) == frames'[f].DisplayFrameIndex # INVALID_INDEX
             idx(f) == frames'[f].DisplayFrameIndex
             N == NextDisplayFrameIndex
  <1>1. /\ N \in Nat /\ Outstanding \subseteq Parsed
        /\ \A f \in Parsed : f \in Nat /\ Index(f) \in Nat /\ f # None
        /\ pc = "pass" <=> current # None
    BY FrameFacts DEF IInv, OrderInv, Numbering
  <1>2. /\ \A f \in Parsed : HasIndex(f) => Has(f) /\ idx(f) = Index(f)
        /\ \A f \in Parsed' : Has(f) =>
             \/ f \in Parsed /\ HasIndex(f) /\ idx(f) = Index(f)
             \/ idx(f) = N
        /\ \A f \in Parsed : HasIndex(f) => Index(f) < N
    BY IndexStep DEF Index, Indices
  <1>3. /\ Due \subseteq Outstanding
        /\ \A g \in Due' : g \in Parsed'
        /\ ~PassMarker => \A g \in Due' : g \in Parsed => g \in Due
        /\ ~DiscardingDtoM' => ~DiscardingDtoM \/ PassMarker
    BY DueStep, DoomedStep DEF IInv
  <1>4. ASSUME NEW f, Extracts(f) \/ Takes, pc' = "pass"
        PROVE  /\ UNCHANGED <<frames, DiscardingDtoM>> /\ Parsed' = Parsed
               /\ \A g \in Parsed : Has(g) <=> HasIndex(g)
               /\ \A g \in Parsed : idx(g) = Index(g)
               /\ ~PassMarker
    <2>1. UNCHANGED <<frames, DiscardingDtoM>> /\ ~PassMarker
      BY <1>4 DEF Extracts, Takes, Extract, Scan, parser, flags, PassMarker
    <2> QED BY <2>1 DEF Parsed, IsMarker, HasIndex, Index
  <1>5. CASE Takes /\ pc' = "pass"
    <2>1. /\ current' = Lowest /\ Table' = Table \ {Lowest}
          /\ HasIndex(Lowest) /\ Lowest \in Parsed
      <3>1. \A t \in Table : t \in Parsed
        BY <1>1 DEF IInv, OneMarker, Outstanding, Chain, Accepted, Extracted,
           OrderInv, TypeOK
      <3> QED BY <1>5, <3>1 DEF Takes, WithIndex
    <2>2. ASSUME ~DiscardingDtoM, NEW g \in Due', g # Lowest, Has(g)
          PROVE  idx(Lowest) < idx(g)
      <3>1. g \in Due /\ HasIndex(g) /\ g \in Parsed
        BY <1>3, <1>4, <1>5, <2>2
      <3>2. Index(Lowest) < Index(g)
        BY <1>3, <1>5, <2>2, <3>1, TakesFirst
      <3> QED BY <1>4, <1>5, <2>1, <3>1, <3>2
    <2> HIDE DEF Has, idx
    <2>3. Has(Lowest) /\ DiscardingDtoM' = DiscardingDtoM
      BY <1>4, <1>5, <2>1
    <2> QED BY <2>1, <2>2, <2>3 DEF Turn, HasIndex, Index, Has, idx, INVALID_INDEX
  <1>6. ASSUME NEW f, Extracts(f), pc' = "pass"
        PROVE  Turn'
    <2>1. /\ current' = f /\ ~IsMarker(f) /\ Table' = Table
          /\ MarkerFrame = None
      BY <1>6 DEF Extracts
    <2>2. /\ HasIndex(f) /\ f \in Parsed /\ f \notin Table
          /\ ~DiscardingDtoM => \A g \in Outstanding :
               g # f /\ HasIndex(g) => Index(f) < Index(g)
      BY <1>6, <2>1, ExtractsFirst
    <2>3. ASSUME ~DiscardingDtoM, NEW g \in Due', g # f, Has(g)
          PROVE  idx(f) < idx(g)
      <3>1. g \in Outstanding /\ HasIndex(g) /\ g \in Parsed
        BY <1>3, <1>4, <1>6, <2>3
      <3> QED BY <1>4, <1>6, <2>2, <2>3, <3>1
    <2> HIDE DEF Has, idx
    <2>4. Has(f) /\ DiscardingDtoM' = DiscardingDtoM
      BY <1>4, <1>6, <2>2
    <2> QED BY <2>1, <2>2, <2>3, <2>4
            DEF Turn, HasIndex, Index, Has, idx, INVALID_INDEX
  <1>7. CASE /\ pc = "pass" /\ UNCHANGED <<Table, current, MarkerFrame>>
    <2>1. current # None /\ HasIndex(current) /\ current \notin Table
      BY <1>1, <1>7 DEF Turn
    <2>2. current \in Parsed /\ ~PassMarker
      BY <1>1, <1>7, <2>1 DEF IInv, OneMarker, Outstanding, Chain, Accepted, Extracted,
         PassMarker
    <2>3. ASSUME ~DiscardingDtoM', NEW g \in Due' \ {current}, Has(g)
          PROVE  idx(current) < idx(g)
      <3>1. ~DiscardingDtoM
        BY <1>3, <2>2, <2>3
      <3>2. CASE g \in Parsed /\ HasIndex(g) /\ idx(g) = Index(g)
        <4>1. g \in Due
          BY <1>3, <2>2, <2>3, <3>2
        <4>2. Index(current) < Index(g)
          BY <1>7, <2>3, <3>1, <3>2, <4>1 DEF Turn
        <4> QED BY <1>2, <2>1, <2>2, <3>2, <4>2
      <3>3. CASE idx(g) = N
        BY <1>2, <2>1, <2>2, <3>3
      <3> QED BY <1>2, <1>3, <2>3, <3>2, <3>3
    <2> HIDE DEF Has, idx
    <2>4. Has(current)
      BY <1>2, <2>1, <2>2
    <2> QED BY <1>7, <2>1, <2>3, <2>4
            DEF Turn, HasIndex, Index, Has, idx, INVALID_INDEX
  <1>8. CASE pc' # "pass"
    BY <1>8 DEF Turn
  <1>9. ASSUME Enters \/ Advances \/ Drops, pc' = "pass"
        PROVE  pc = "pass"
    BY <1>9 DEF Enters, Advances, Drops, ParseFrame, ParseMarker, Accept,
       PtoDMarker, Drop
  <1>10. Passes \/ PassesMarker => pc' # "pass"
    BY DEF Passes, PassesMarker, Pass, PassMarker
  <1> QED BY <1>5, <1>6, <1>7, <1>8, <1>9, <1>10, MovesStep
          DEF Enters, Advances, Drops, Stays

\* No frame that is shown overtakes another.
LEMMA OvertakenStep ==
  ASSUME IInv, Indices, Turn, DrainFlags, Overtaken, OutputInOrder, [Next]_vars
  PROVE  Overtaken' /\ OutputInOrder'
  <1> DEFINE Has(f) == frames'[f].DisplayFrameIndex # INVALID_INDEX
             idx(f) == frames'[f].DisplayFrameIndex
             Mark(f) == frames'[f].kind \in {"playout", "discard"}
             N == NextDisplayFrameIndex
             last == Len(passed) + 1
  <1>1. /\ N \in Nat /\ Outstanding \subseteq Parsed
        /\ Len(frames) \in Nat
        /\ \A f \in Parsed : f \in Nat /\ Index(f) \in Nat /\ f # None
        /\ \A f \in 1 .. Len(frames) : f \in Parsed <=> ~IsMarker(f)
        /\ pc = "pass" <=> current # None
        /\ TypeOK /\ OneMarker
        /\ Len(passed) \in Nat /\ DOMAIN passed = 1 .. Len(passed)
        /\ \A i \in 1 .. Len(passed) : passed[i].frame \in 1 .. Len(frames)
        /\ MarkerFrame # None => IsMarker(MarkerFrame)
    BY FrameFacts, PassedIs DEF IInv, OrderInv, Numbering, Order
  <1>2. /\ \A f \in Parsed : HasIndex(f) => Has(f) /\ idx(f) = Index(f)
        /\ \A f \in Parsed' : Has(f) =>
             \/ f \in Parsed /\ HasIndex(f) /\ idx(f) = Index(f)
             \/ idx(f) = N
        /\ \A f \in Parsed : HasIndex(f) => Index(f) < N
        /\ \A f \in 1 .. Len(frames) : Mark(f) <=> IsMarker(f)
    BY <1>1, IndexStep, KindStep DEF Index, Indices
  <1>3. /\ Due \subseteq Outstanding
        /\ \A g \in Due' : g \in Parsed'
        /\ ~PassMarker => \A g \in Due' : g \in Parsed => g \in Due
        /\ ~DiscardingDtoM' => ~DiscardingDtoM \/ PassMarker
    BY DueStep, DoomedStep DEF IInv
  <1>4. \A i \in 1 .. Len(passed) : ~Mark(passed[i].frame) =>
          /\ passed[i].frame \in Parsed /\ HasIndex(passed[i].frame)
          /\ Has(passed[i].frame) /\ idx(passed[i].frame) = Index(passed[i].frame)
    BY <1>1, <1>2 DEF Overtaken
  <1> HIDE DEF Has, idx, Mark, N
  <1>5. /\ Overtaken' <=>
             /\ \A i \in 1 .. Len(passed') :
                  ~Mark(passed'[i].frame) => Has(passed'[i].frame)
             /\ ~DiscardingDtoM' =>
                  \A i \in 1 .. Len(passed') :
                    /\ passed'[i].shown
                    /\ \A k \in i .. Len(passed') : ~Mark(passed'[k].frame)
                    => \A g \in Due' : Has(g) => idx(passed'[i].frame) < idx(g)
        /\ OutputInOrder' <=>
             \A i, j \in DOMAIN passed' :
               /\ i < j /\ passed'[i].shown /\ passed'[j].shown
               /\ \A k \in i .. j : ~Mark(passed'[k].frame)
               => idx(passed'[i].frame) < idx(passed'[j].frame)
    BY DEF Overtaken, OutputInOrder, Recent, Has, idx, Mark, HasIndex, Index,
       IsMarker, INVALID_INDEX
  <1>6. ASSUME NEW i \in 1 .. Len(passed), passed[i].shown,
               \A k \in i .. Len(passed) : ~Mark(passed[k].frame)
        PROVE  Recent(i)
    BY <1>1, <1>2, <1>6 DEF Recent
  <1>7. ASSUME NEW i \in 1 .. Len(passed), NEW j \in 1 .. Len(passed),
               i < j, passed[i].shown, passed[j].shown,
               \A k \in i .. j : ~Mark(passed[k].frame)
        PROVE  idx(passed[i].frame) < idx(passed[j].frame)
    <2>1. \A k \in i .. j : k \in 1 .. Len(passed) /\ ~IsMarker(passed[k].frame)
      BY <1>1, <1>2, <1>7
    <2>2. Index(passed[i].frame) < Index(passed[j].frame)
      BY <1>1, <1>7, <2>1 DEF OutputInOrder
    <2>3. i \in i .. j /\ j \in i .. j
      BY <1>1, <1>7
    <2> QED BY <1>4, <1>7, <2>2, <2>3
  <1>8. ASSUME ~DiscardingDtoM', ~PassMarker, NEW i \in 1 .. Len(passed),
               Recent(i), NEW g \in Due', Has(g)
        PROVE  idx(passed[i].frame) < idx(g)
    <2>1. ~DiscardingDtoM
      BY <1>3, <1>8
    <2>2. ~Mark(passed[i].frame)
      <3>1. i \in i .. Len(passed)
        BY <1>1
      <3> QED BY <1>1, <1>2, <1>8, <3>1 DEF Recent
    <2>3. CASE g \in Parsed /\ HasIndex(g) /\ idx(g) = Index(g)
      <3>1. g \in Due
        BY <1>3, <1>8, <2>3
      <3>2. Index(passed[i].frame) < Index(g)
        BY <1>8, <2>1, <2>3, <3>1 DEF Overtaken
      <3> QED BY <1>4, <2>2, <2>3, <3>2
    <2>4. CASE idx(g) = N
      BY <1>2, <1>4, <2>2, <2>4
    <2> QED BY <1>2, <1>3, <1>8, <2>3, <2>4
  <1>9. CASE UNCHANGED passed
    <2>1. ~PassMarker
      <3>1. PassMarker => Len(passed') = Len(passed) + 1
        BY <1>1, PassedStep
      <3>2. Len(passed) \in Nat
        BY <1>1
      <3>3. Len(passed') = Len(passed)
        BY <1>9
      <3>4. Len(passed) + 1 # Len(passed)
        BY <3>2
      <3> QED BY <3>1, <3>3, <3>4
    <2> QED BY <1>1, <1>4, <1>5, <1>6, <1>7, <1>8, <1>9, <2>1
  <1>10. CASE PassMarker \/ Pass
    <2>1. /\ passed' \in Seq([frame : Nat, number : Nat, shown : BOOLEAN])
          /\ Len(passed') = last
          /\ \A i \in 1 .. Len(passed) : passed'[i] = passed[i]
          /\ passed'[last].frame = IF pc = "pass" THEN current ELSE MarkerFrame
          /\ passed'[last].shown => pc = "pass" /\ ~DiscardingDtoM
      BY <1>1, <1>10, PassedStep
    <2>2. DOMAIN passed' = 1 .. last
      BY <2>1, LenProperties
    <2>3. \A i \in 1 .. last : i = last \/ i \in 1 .. Len(passed)
      BY <1>1
    <2>4. last \in Nat /\ last \in 1 .. last
          /\ \A i \in 1 .. Len(passed) : i \in 1 .. last /\ i < last
      BY <1>1
    <2>5. CASE PassMarker
      <3>1. pc # "pass" /\ MarkerFrame # None
        BY <2>5 DEF PassMarker
      <3>2. Mark(passed'[last].frame)
        <4>1. MarkerFrame \in 1 .. Len(frames)
          BY <3>1, FrameFacts DEF Chain, Accepted, Extracted
        <4> QED BY <1>1, <1>2, <2>1, <3>1, <4>1
      <3>3. \A i \in 1 .. last : last \in i .. last
        BY <2>4
      <3>4. ~passed'[last].shown
        BY <2>1, <3>1
      <3> HIDE DEF last
      <3>5. Overtaken'
        BY <1>4, <1>5, <2>1, <2>3, <3>2, <3>3
      <3>6. OutputInOrder'
        <4> SUFFICES ASSUME NEW i \in 1 .. last, NEW j \in 1 .. last, i < j,
                            passed'[i].shown, passed'[j].shown,
                            \A k \in i .. j : ~Mark(passed'[k].frame)
                     PROVE  idx(passed'[i].frame) < idx(passed'[j].frame)
          BY <1>5, <2>2
        <4>1. i \in 1 .. Len(passed) /\ j \in 1 .. Len(passed)
          BY <2>3, <3>4
        <4>2. \A k \in i .. j : passed'[k] = passed[k]
          BY <1>1, <2>1, <4>1
        <4> QED BY <1>7, <2>1, <4>1, <4>2
      <3> QED BY <3>5, <3>6
    <2>6. CASE Pass
      <3>1. /\ pc = "pass" /\ current # None /\ HasIndex(current)
            /\ passed'[last].frame = current /\ Passes
            /\ UNCHANGED <<frames, DiscardingDtoM>> /\ ~PassMarker
        BY <1>1, <2>1, <2>6, MovesStep DEF Turn, Pass, parser, flags, PassMarker
      <3>2. /\ current \in Outstanding /\ current \in Due /\ current \in Parsed
            /\ current \notin Chain' /\ Has(current) /\ idx(current) = Index(current)
            /\ ~Mark(current)
        <4>1. current \in Outstanding /\ current \in Due
          BY <1>1, <3>1 DEF OneMarker, Outstanding, Chain, Accepted, Extracted, Due
        <4>2. current \in 1 .. Len(frames) /\ ~IsMarker(current)
          BY <4>1, FrameFacts DEF Outstanding
        <4> QED BY <1>1, <1>2, <3>1, <4>1, <4>2, PassedLeaves
      <3> HIDE DEF last
      <3>3. ASSUME ~DiscardingDtoM', NEW g \in Due', Has(g)
            PROVE  idx(current) < idx(g)
        <4>1. g \in Parsed /\ HasIndex(g) /\ idx(g) = Index(g)
          <5>1. Parsed' = Parsed
            BY <3>1 DEF Parsed, IsMarker
          <5>2. \A f : Has(f) <=> HasIndex(f)
            BY <3>1 DEF Has, HasIndex, Index
          <5>3. \A f : idx(f) = Index(f)
            BY <3>1 DEF idx, Index
          <5> QED BY <1>3, <3>3, <5>1, <5>2, <5>3
        <4>2. g \in Due
          BY <1>3, <3>1, <3>3, <4>1
        <4>3. g # current
          <5>1. g \in Chain'
            <6>1. CASE MarkerFrame' = None
              BY <3>3, <6>1 DEF Due, Outstanding, None
            <6>2. CASE MarkerFrame' # None
              BY <3>3, <6>2 DEF Due, Chain, Accepted, Extracted, None
            <6> QED BY <6>1, <6>2
          <5> QED BY <3>2, <5>1
        <4> QED BY <3>1, <3>2, <3>3, <4>1, <4>2, <4>3 DEF Turn
      <3>4. ASSUME NEW i \in 1 .. Len(passed), passed[i].shown,
                   \A k \in i .. last : ~Mark(passed'[k].frame)
            PROVE  Recent(i)
        <4>1. \A k \in i .. Len(passed) : k \in i .. last /\ k \in 1 .. Len(passed)
          BY <1>1 DEF last
        <4> QED BY <1>6, <2>1, <3>4, <4>1
      <3>5. Overtaken'
        <4>1. \A i \in 1 .. last : ~Mark(passed'[i].frame) => Has(passed'[i].frame)
          BY <1>4, <2>1, <2>3, <3>1, <3>2
        <4>2. ASSUME ~DiscardingDtoM', NEW i \in 1 .. last, passed'[i].shown,
                     \A k \in i .. last : ~Mark(passed'[k].frame),
                     NEW g \in Due', Has(g)
              PROVE  idx(passed'[i].frame) < idx(g)
          <5>1. CASE i = last
            BY <3>1, <3>3, <4>2, <5>1
          <5>2. CASE i \in 1 .. Len(passed)
            BY <1>8, <2>1, <3>1, <3>4, <4>2, <5>2
          <5> QED BY <2>3, <5>1, <5>2
        <4> QED BY <1>5, <2>1, <4>1, <4>2
      <3>6. OutputInOrder'
        <4> SUFFICES ASSUME NEW i \in 1 .. last, NEW j \in 1 .. last, i < j,
                            passed'[i].shown, passed'[j].shown,
                            \A k \in i .. j : ~Mark(passed'[k].frame)
                     PROVE  idx(passed'[i].frame) < idx(passed'[j].frame)
          BY <1>5, <2>2
        <4>1. i \in 1 .. Len(passed)
          BY <2>3, <2>4
        <4>2. CASE j \in 1 .. Len(passed)
          <5>1. \A k \in i .. j : passed'[k] = passed[k]
            BY <1>1, <2>1, <4>1, <4>2
          <5> QED BY <1>7, <2>1, <4>1, <4>2, <5>1
        <4>3. CASE j = last
          <5>1. ~DiscardingDtoM /\ Recent(i) /\ passed'[i] = passed[i]
            BY <2>1, <3>4, <4>1, <4>3
          <5>2. Index(passed[i].frame) < Index(current)
            BY <3>1, <3>2, <4>1, <5>1 DEF Overtaken
          <5>3. ~Mark(passed[i].frame)
            <6>1. i \in i .. j
              BY <1>1, <4>1, <4>3 DEF last
            <6> QED BY <5>1, <6>1
          <5> QED BY <1>4, <3>1, <3>2, <4>1, <4>3, <5>1, <5>2, <5>3
        <4> QED BY <2>3, <4>2, <4>3
      <3> QED BY <3>5, <3>6
    <2> QED BY <1>10, <2>5, <2>6
  <1>11. UNCHANGED passed \/ PassMarker \/ Pass
    BY DEF Next, vars, output, PtoD, DtoM, DrainBegins, ReleaseReferences,
       PtoDMarker, Accept, Decode, Drop, Scan, Skip, Extract, Display,
       ParseFrame, ParseJump, ParseMarker
  <1> QED BY <1>9, <1>10, <1>11

-----------------------------------------------------------------------------
\* Nothing has been parsed.
LEMMA InitOutputInv ==
  ASSUME Init
  PROVE  OutputInv
  <1>1. IInv
    BY InitIInv
  <1>2. /\ frames = << >> /\ NonDecodedBuffers = {} /\ passed = << >>
        /\ DisplayIndicesCollapse = 0 /\ DesiredFrameIndex = 0
        /\ NextDisplayFrameIndex = 0 /\ CollapseHoles = TRUE /\ Deferred = None
        /\ references = 0 /\ drain = "none" /\ pc = "scan"
        /\ DiscardingPtoD = FALSE /\ DiscardingDtoM = FALSE
    BY DEF Init
  <1>3. /\ DOMAIN frames = {} /\ DOMAIN passed = {} /\ Len(passed) = 0
        /\ Parsed = {} /\ Outstanding = {} /\ Markers = {}
    <2>1. DOMAIN frames = {} /\ DOMAIN passed = {} /\ Len(passed) = 0
      BY <1>2
    <2> QED BY <1>1, <1>2, <2>1, FrameFacts DEF Parsed, Markers, IInv, OneMarker
  <1>4. 0 \in 0 .. 0 /\ 1 .. 0 = {}
    OBVIOUS
  <1>5. Indices /\ Holes /\ Partition /\ DrainFlags
    BY <1>2, <1>3 DEF Indices, Holes, Partition, DrainFlags, DiscardMarkers
  <1>6. Recorded /\ Desired /\ Turn /\ Overtaken /\ OutputInOrder
    BY <1>2, <1>3, <1>4 DEF Recorded, Desired, Turn, Overtaken, OutputInOrder
  <1> QED BY <1>1, <1>5, <1>6 DEF OutputInv

\* OutputInv adds to IInv where the display indices stand: in the order of the
\* frames, among the recorded ones, and against the index DtoM waits for.
THEOREM OutputInvariant ==
  ASSUME Droppable \subseteq {"other"}, MaxDecodesOutOfOrder >= 2
  PROVE  Spec => []OutputInv
  <1>1. Init => OutputInv
    BY InitOutputInv
  <1>2. OutputInv /\ [Next]_vars => OutputInv'
    <2> SUFFICES ASSUME OutputInv, [Next]_vars
                 PROVE  OutputInv'
      OBVIOUS
    <2>1. /\ IInv /\ Indices /\ Holes /\ Partition /\ DrainFlags /\ Recorded
          /\ Desired /\ Turn /\ Overtaken /\ OutputInOrder
      BY DEF OutputInv
    <2>2. IInv'
      BY <2>1, IInvStep
    <2>3. Indices' /\ Holes' /\ Partition'
      BY <2>1, IndicesStep, HolesStep, PartitionStep
    <2>4. DrainFlags' /\ Recorded'
      BY <2>1, DrainFlagsStep, RecordedStep
    <2>5. Desired' /\ Turn'
      BY <2>1, DesiredStep, TurnStep
    <2>6. Overtaken' /\ OutputInOrder'
      BY <2>1, OvertakenStep
    <2> QED BY <2>2, <2>3, <2>4, <2>5, <2>6 DEF OutputInv
  <1> QED BY <1>1, <1>2, PTL DEF Spec

\* "Frame re-ordering failure" (DtoM) is never reported: between two markers,
\* frames are shown in the order of their display indices, with any number of
\* frames, jumps and drains.  Two frames may wait in the table, and the output
\* timer drops no reference frame undecoded.
THEOREM FramesAreShownInOrder ==
  ASSUME Droppable \subseteq {"other"}, MaxDecodesOutOfOrder >= 2
  PROVE  Spec => []OutputInOrder
  <1>1. OutputInv => OutputInOrder
    BY DEF OutputInv
  <1> QED BY <1>1, OutputInvariant, PTL
=============================================================================
