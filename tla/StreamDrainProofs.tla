--------------------------- MODULE StreamDrainProofs ---------------------------
(* StreamDrain, for any number of frames and of drains made one after the  *)
(* other, each waiting for its end: order is kept, a drain that has        *)
(* returned is complete, what is discarded was to be discarded, the time   *)
(* mapping is reset ahead of the frames that come after, no message and no *)
(* flag is left behind, and the chain of processes implements DrainService.*)
EXTENDS StreamDrain, SequenceTheorems, TLAPS

\* Drains wait, and TestMarkerFramePassOn is as good as one step.
OneAtATime == /\ NonBlockingCalls \subseteq {FALSE} /\ TimesOut = FALSE
              /\ Preempted = FALSE

-----------------------------------------------------------------------------
(* The inductive invariant.                                                *)

Of(kinds) == [kind : kinds, id : Nat, seq : Nat]
MarkerOrNone == Of({"marker"}) \cup {NoBuffer}
Asked == [discard : BOOLEAN, parseAll : BOOLEAN, seq : Nat, behind : Nat,
          back : Nat]
Codecs == [decoding : Seq(Of({"frame"})), Prepared : Nat, Completed : Nat,
           DiscardUntil : Nat, Marker : MarkerOrNone, PassOnAt : Nat,
           input : {"idle", "flag", "at", "hold", "test"},
           callback : {"idle", "count", "test"}]

TypeOK ==
  /\ CollatedFrameRing \in Seq(Of({"frame", "jump", "marker"}))
  /\ ParsedFrameRing \in Seq(Of({"frame", "marker"}))
  /\ DecodedFrameRing \in Seq(Of({"frame", "marker", "reset"}))
  /\ ManifestedBufferRing \in Seq(Of({"frame", "marker", "drained"}))
  /\ shown \in Seq(Of({"frame"}))
  /\ busy \in [{"PtoD", "DtoM"} -> MarkerOrNone]
  /\ seen \in [{"DtoM", "PostM"} -> Nat]
  /\ messages \in [{"DtoM", "PostM"} -> SUBSET Of({"reset", "drained"})]
  /\ NextBufferSequenceNumber \in Nat /\ MarkerInCodedFrameIndex \in Nat
  /\ Discarding \in [Stages -> BOOLEAN] /\ Drained \in BOOLEAN
  /\ codec \in Codecs
  /\ drainer \in [at : {"idle", "flush", "check", "number", "launch", "reset",
                        "event", "wait"},
                  nonBlocking : {FALSE}]
  /\ frames \in 0 .. MaxFrames
  /\ drains \in Seq(Asked) /\ drain <= MaxDrains
  /\ discarded \subseteq Nat /\ resets \subseteq Nat

-----------------------------------------------------------------------------
(* How far the drains have come.                                           *)

Launched(d) == drains[d].behind # Never
Over(d)     == d < drain \/ drainer.at = "idle"

Status ==
  /\ drainer.at # "idle" => drain > 0
  /\ drainer.at = "flush" => drains[drain].discard
  /\ \A d \in 1 .. drain :
       /\ Over(d) => drains[d].back # Never /\ drains[d].seq <= seen["PostM"]
       /\ ~Over(d) => drains[d].back = Never
       /\ Launched(d) <=> Over(d) \/ drainer.at \in {"reset", "event", "wait"}
       /\ Launched(d) => drains[d].behind <= frames
  /\ MarkerInCodedFrameIndex # INVALID =>
       drainer.at \in {"reset", "event", "wait"}

\* The event is set by the message of the last drain, and by nothing else.
Event ==
  /\ drainer.at \in {"reset", "event"} => ~Drained
  /\ drainer.at = "wait" /\ Drained => DrainSequenceNumber <= seen["PostM"]
  /\ \A m \in messages["PostM"] :
       /\ drainer.at = "wait" /\ ~Drained
       /\ m = Buffer("drained", drain, DrainSequenceNumber)
  /\ \A i \in 1 .. Len(ManifestedBufferRing) :
       ManifestedBufferRing[i].kind = "drained" =>
         /\ drainer.at = "wait" /\ ~Drained /\ messages["PostM"] = {}
         /\ ManifestedBufferRing[i] =
              Buffer("drained", drain, DrainSequenceNumber)
         /\ \A j \in 1 .. Len(ManifestedBufferRing) :
              ManifestedBufferRing[j].kind = "drained" => i = j
  /\ seen["PostM"] <= seen["DtoM"]
  /\ \A b \in ToSet(ManifestedBufferRing) \cup ToSet(shown) :
       b.kind # "drained" => b.seq <= seen["DtoM"]

-----------------------------------------------------------------------------
(* The order of what has its number.                                       *)

Ordered(ring) == \A i, j \in 1 .. Len(ring) :
                   i < j /\ IsNumbered(ring[i]) /\ IsNumbered(ring[j])
                     => ring[i].seq < ring[j].seq
Ahead(S, T) == \A x \in S, y \in T :
                 IsNumbered(x) /\ IsNumbered(y) => x.seq < y.seq

\* PtoD is about to give its marker to the codec.
AtCodec == IF codec.input \in {"flag", "at", "hold"} THEN {busy["PtoD"]}
           ELSE {}
Behind  == ToSet(codec.decoding) \cup {codec.Marker} \cup AtCodec
             \cup ToSet(ParsedFrameRing)
Numbered == ToSet(DecodedFrameRing) \cup Behind

Order ==
  /\ Ordered(DecodedFrameRing) /\ Ordered(codec.decoding)
  /\ Ordered(ParsedFrameRing)
  /\ Ahead(ToSet(DecodedFrameRing), Behind)
  /\ Ahead(ToSet(codec.decoding), AtCodec \cup ToSet(ParsedFrameRing))
  /\ Ahead({codec.Marker} \cup AtCodec, ToSet(ParsedFrameRing))
  /\ seen["DtoM"] < NextBufferSequenceNumber
  /\ \A b \in Numbered : IsNumbered(b) =>
       seen["DtoM"] < b.seq /\ b.seq < NextBufferSequenceNumber

\* Decodes that are counted, and those ahead of the marker that is held; and
\* no drain has begun while PtoD has a marker that it is about to test.
Uncounted   == IF codec.callback = "count" THEN 1 ELSE 0
MarkerPlace == Len(codec.decoding) + codec.PassOnAt - codec.Prepared

Counts ==
  /\ codec.Prepared = codec.Completed + Len(codec.decoding) + Uncounted
  /\ codec.PassOnAt <= codec.Prepared /\ codec.DiscardUntil <= codec.Prepared
  /\ codec.input = "idle" <=> busy["PtoD"] = NoBuffer
  /\ codec.input = "flag" => ~Discarding["PtoD"]
  /\ codec.input \in {"hold", "test"} => codec.PassOnAt = codec.Prepared
  /\ codec.Marker # NoBuffer =>
       /\ codec.input \in {"idle", "test"}
       /\ codec.input = "idle" /\ codec.callback = "idle" =>
            codec.Completed < codec.PassOnAt
       /\ \A k \in 1 .. Len(codec.decoding) :
            IF k <= MarkerPlace THEN codec.decoding[k].seq < codec.Marker.seq
                                ELSE codec.Marker.seq < codec.decoding[k].seq

-----------------------------------------------------------------------------
(* The markers, and the frames ahead of each.                              *)

\* A marker in the chain has the number that was taken for its drain.
MarkerOf(b) == /\ b.id \in 1 .. drain /\ Launched(b.id)
               /\ b.seq = drains[b.id].seq
HasMarker(d) == \E b \in ToSet(CollatedFrameRing) :
                  b.kind = "marker" /\ b.id = d

Markers ==
  /\ \A b \in Numbered : b.kind = "marker" => MarkerOf(b)
  /\ \A i \in 1 .. Len(CollatedFrameRing) :
       CollatedFrameRing[i].kind = "marker" =>
         /\ MarkerOf(CollatedFrameRing[i])
         /\ CollatedFrameRing[i].id = MarkerInCodedFrameIndex
         /\ NextBufferSequenceNumber + i - 1 <= CollatedFrameRing[i].seq
         /\ \A j \in 1 .. Len(CollatedFrameRing) :
              CollatedFrameRing[j].kind = "marker" => i = j
  /\ MarkerInCodedFrameIndex # INVALID => HasMarker(MarkerInCodedFrameIndex)
  /\ \A d \in 1 .. drain : Launched(d) /\ ~HasMarker(d) =>
       drains[d].seq < NextBufferSequenceNumber

\* There is room for the numbers of what is ahead of the marker.
Room ==
  /\ Len(CollatedFrameRing) + (IF drainer.at = "flush" THEN 1 ELSE 0)
       <= frames + drain + (IF MarkerInCodedFrameIndex = INVALID THEN 0 ELSE 1)
  /\ drainer.at = "launch" =>
       NextBufferSequenceNumber + Len(CollatedFrameRing) + MaxRingSize
         <= DrainSequenceNumber + frames + drain

\* A frame is ahead of the marker if it was injected before it.
Injected ==
  /\ \A b \in ToSet(CollatedFrameRing) \cup Numbered \cup ToSet(shown) :
       b.kind = "frame" => b.id <= frames
  /\ \A b \in Numbered, d \in 1 .. drain :
       b.kind = "frame" /\ Launched(d) =>
         (b.seq < drains[d].seq <=> b.id <= drains[d].behind)
  /\ \A i \in 1 .. Len(CollatedFrameRing), d \in 1 .. drain :
       CollatedFrameRing[i].kind = "frame" /\ Launched(d) =>
         (CollatedFrameRing[i].id <= drains[d].behind <=>
            \E j \in i .. Len(CollatedFrameRing) :
              /\ CollatedFrameRing[j].kind = "marker"
              /\ CollatedFrameRing[j].id = d)

-----------------------------------------------------------------------------
(* The flags and the messages.                                             *)

Upto(stage) == CASE stage = "CtoP" -> ToSet(CollatedFrameRing)
                 [] stage = "PtoD" -> ToSet(CollatedFrameRing)
                                        \cup ToSet(ParsedFrameRing)
                 [] stage = "DtoM" -> ToSet(CollatedFrameRing) \cup Numbered

\* The marker that clears the flag has yet to come.
ToCome(stage, d) ==
  ~Launched(d) \/ \E b \in Upto(stage) : b.kind = "marker" /\ b.id = d

Flags ==
  /\ \A s \in {"CtoP", "PtoD", "DtoM"} : Discarding[s] =>
       \/ s = "DtoM" /\ ~Idle("DtoM")
       \/ \E d \in 1 .. drain : drains[d].discard /\ ToCome(s, d)
  /\ drain > 0 /\ drains[drain].discard =>
       /\ ~drains[drain].parseAll /\ ToCome("CtoP", drain) => Discarding["CtoP"]
       /\ ToCome("PtoD", drain) => Discarding["PtoD"]

\* A drain asked for the frame to be discarded.
MayGo(f) == \E d \in 1 .. drain : drains[d].discard /\ f <= drains[d].behind

Discards ==
  /\ \A f \in discarded : f <= frames /\ MayGo(f)
  /\ \A k \in 1 .. Len(codec.decoding) :
       codec.Completed + Uncounted + k <= codec.DiscardUntil =>
         MayGo(codec.decoding[k].id)

ResetOf(b, d) == b.kind = "reset" /\ b.id = d

Resets ==
  /\ \A m \in messages["DtoM"] : /\ m.kind = "reset" /\ MarkerOf(m)
                                 /\ seen["DtoM"] < m.seq
  /\ \A b \in ToSet(DecodedFrameRing) : b.kind = "reset" => MarkerOf(b)
  /\ \A d \in 1 .. drain :
       Launched(d) /\ d \notin resets =>
         \/ d = drain /\ drainer.at = "reset"
         \/ \E b \in messages["DtoM"] \cup ToSet(DecodedFrameRing) : ResetOf(b, d)
  /\ \A d \in 1 .. drain : drains[d].back # Never /\ d \notin resets =>
       /\ \A b \in ToSet(shown) : b.id <= drains[d].back
       /\ \E i \in 1 .. Len(DecodedFrameRing) :
            /\ ResetOf(DecodedFrameRing[i], d)
            /\ \A j \in 1 .. i : DecodedFrameRing[j].kind = "frame" =>
                                   DecodedFrameRing[j].id <= drains[d].back

IInv == /\ TypeOK /\ Status /\ Event /\ Order /\ Counts /\ Markers /\ Room
        /\ Injected /\ Flags /\ Discards /\ Resets

-----------------------------------------------------------------------------
(* Sequences, and the sets of what they hold.                              *)

\* What a sequence holds is what it has at some index.
LEMMA Holding ==
  ASSUME NEW S, NEW s \in Seq(S)
  PROVE  /\ Len(s) \in Nat /\ DOMAIN s = 1 .. Len(s)
         /\ \A i \in 1 .. Len(s) : s[i] \in S /\ s[i] \in ToSet(s)
         /\ ToSet(s) \subseteq S
         /\ \A x : x \in ToSet(s) <=> \E i \in 1 .. Len(s) : s[i] = x
  <1>1. Len(s) \in Nat /\ DOMAIN s = 1 .. Len(s)
    BY LenProperties
  <1>2. \A i \in 1 .. Len(s) : s[i] \in S
    BY ElementOfSeq
  <1> QED BY <1>1, <1>2 DEF ToSet

\* An element more, at the end.
LEMMA Appended ==
  ASSUME NEW S, NEW s \in Seq(S), NEW e \in S
  PROVE  /\ Append(s, e) \in Seq(S) /\ Append(s, e) # << >>
         /\ Len(Append(s, e)) = Len(s) + 1
         /\ \A i \in 1 .. Len(s) : Append(s, e)[i] = s[i]
         /\ Append(s, e)[Len(s) + 1] = e
         /\ ToSet(Append(s, e)) = ToSet(s) \cup {e}
  <1> DEFINE t == Append(s, e)
  <1>1. /\ t \in Seq(S) /\ t # << >> /\ Len(t) = Len(s) + 1
        /\ \A i \in 1 .. Len(s) : t[i] = s[i]
        /\ t[Len(s) + 1] = e
    BY AppendProperties
  <1>2. Len(s) \in Nat /\ \A x : x \in ToSet(s) <=> \E i \in 1 .. Len(s) : s[i] = x
    BY Holding
  <1>3. \A x : x \in ToSet(t) <=> \E i \in 1 .. Len(t) : t[i] = x
    BY <1>1, Holding
  <1>4. \A x : x \in ToSet(t) <=> x \in ToSet(s) \cup {e}
    <2> HIDE DEF t
    <2>1. ASSUME NEW x \in ToSet(t)
          PROVE  x \in ToSet(s) \cup {e}
      BY <2>1, <1>1, <1>2, <1>3
    <2>2. ASSUME NEW x \in ToSet(s) \cup {e}
          PROVE  x \in ToSet(t)
      BY <2>2, <1>1, <1>2, <1>3
    <2> QED BY <2>1, <2>2
  <1> QED BY <1>1, <1>4

\* The head, and what comes behind it.
LEMMA Tailed ==
  ASSUME NEW S, NEW s \in Seq(S), s # << >>
  PROVE  /\ Tail(s) \in Seq(S) /\ Head(s) \in S /\ Head(s) = s[1]
         /\ Len(s) > 0 /\ Len(Tail(s)) = Len(s) - 1
         /\ \A i \in 1 .. Len(Tail(s)) : Tail(s)[i] = s[i + 1]
         /\ ToSet(s) = {Head(s)} \cup ToSet(Tail(s))
  <1> DEFINE t == Tail(s)
  <1>1. /\ t \in Seq(S) /\ Head(s) \in S /\ Head(s) = s[1]
        /\ Len(s) \in Nat \ {0} /\ Len(t) = Len(s) - 1
        /\ \A i \in 1 .. Len(t) : t[i] = s[i + 1]
    BY HeadTailProperties, LenProperties, EmptySeq
  <1> HIDE DEF t
  <1>2. \A x : x \in ToSet(s) <=> \E i \in 1 .. Len(s) : s[i] = x
    BY Holding
  <1>3. \A x : x \in ToSet(t) <=> \E i \in 1 .. Len(t) : t[i] = x
    BY <1>1, Holding
  <1>4. \A x : x \in ToSet(s) <=> x \in {Head(s)} \cup ToSet(t)
    <2>1. ASSUME NEW x \in ToSet(s)
          PROVE  x \in {Head(s)} \cup ToSet(t)
      <3>1. PICK i \in 1 .. Len(s) : s[i] = x
        BY <1>2
      <3>2. CASE i = 1
        BY <3>1, <3>2, <1>1
      <3>3. CASE i # 1
        <4>1. i - 1 \in 1 .. Len(t) /\ t[i - 1] = s[(i - 1) + 1]
          BY <3>3, <1>1
        <4> QED BY <4>1, <3>1, <1>3
      <3> QED BY <3>2, <3>3
    <2>2. ASSUME NEW x \in {Head(s)} \cup ToSet(t)
          PROVE  x \in ToSet(s)
      <3>1. CASE x = Head(s)
        BY <3>1, <1>1, <1>2
      <3>2. CASE x \in ToSet(t)
        <4>1. PICK i \in 1 .. Len(t) : t[i] = x
          BY <3>2, <1>3
        <4>2. i + 1 \in 1 .. Len(s) /\ s[i + 1] = x
          BY <4>1, <1>1
        <4> QED BY <4>2, <1>2
      <3> QED BY <2>2, <3>1, <3>2
    <2> QED BY <2>1, <2>2
  <1> QED BY <1>1, <1>4 DEF t

\* Two sequences, one behind the other.
LEMMA Joined ==
  ASSUME NEW S, NEW s \in Seq(S), NEW t \in Seq(S)
  PROVE  /\ s \o t \in Seq(S) /\ Len(s \o t) = Len(s) + Len(t)
         /\ \A i \in 1 .. Len(s) : (s \o t)[i] = s[i]
         /\ \A i \in Len(s) + 1 .. Len(s) + Len(t) : (s \o t)[i] = t[i - Len(s)]
         /\ ToSet(s \o t) = ToSet(s) \cup ToSet(t)
  <1> DEFINE u == s \o t
  <1>1. /\ u \in Seq(S) /\ Len(u) = Len(s) + Len(t)
        /\ Len(s) \in Nat /\ Len(t) \in Nat
        /\ \A i \in 1 .. Len(s) : u[i] = s[i]
        /\ \A i \in Len(s) + 1 .. Len(s) + Len(t) : u[i] = t[i - Len(s)]
    BY ConcatProperties, LenProperties
  <1>2. /\ \A x : x \in ToSet(s) <=> \E i \in 1 .. Len(s) : s[i] = x
        /\ \A x : x \in ToSet(t) <=> \E i \in 1 .. Len(t) : t[i] = x
    BY Holding
  <1>3. \A x : x \in ToSet(u) <=> \E i \in 1 .. Len(u) : u[i] = x
    BY <1>1, Holding
  <1>4. \A x : x \in ToSet(u) <=> x \in ToSet(s) \cup ToSet(t)
    <2> HIDE DEF u
    <2>1. ASSUME NEW x \in ToSet(u)
          PROVE  x \in ToSet(s) \cup ToSet(t)
      <3>1. PICK i \in 1 .. Len(u) : u[i] = x
        BY <1>3
      <3>2. CASE i <= Len(s)
        BY <3>1, <3>2, <1>1, <1>2
      <3>3. CASE i > Len(s)
        <4>1. i - Len(s) \in 1 .. Len(t) /\ t[i - Len(s)] = x
          BY <3>1, <3>3, <1>1
        <4> QED BY <4>1, <1>2
      <3> QED BY <3>2, <3>3, <1>1
    <2>2. ASSUME NEW x \in ToSet(s)
          PROVE  x \in ToSet(u)
      BY <2>2, <1>1, <1>2, <1>3
    <2>3. ASSUME NEW x \in ToSet(t)
          PROVE  x \in ToSet(u)
      <3>1. PICK i \in 1 .. Len(t) : t[i] = x
        BY <1>2
      <3>2. i + Len(s) \in Len(s) + 1 .. Len(s) + Len(t)
        BY <1>1
      <3>3. u[i + Len(s)] = t[(i + Len(s)) - Len(s)] /\ i + Len(s) \in 1 .. Len(u)
        BY SMTT(30), <3>2, <1>1
      <3> QED BY <3>1, <3>3, <1>1, <1>3
    <2> QED BY <2>1, <2>2, <2>3
  <1> QED BY <1>1, <1>4

\* Order is kept when what is added comes behind all the rest.
LEMMA OrderedAppend ==
  ASSUME NEW s \in Seq(Of(Kinds)), NEW e \in Of(Kinds),
         Ordered(s), Ahead(ToSet(s), {e})
  PROVE  Ordered(Append(s, e))
  <1>1. /\ Len(s) \in Nat /\ Len(Append(s, e)) = Len(s) + 1
        /\ \A i \in 1 .. Len(s) : Append(s, e)[i] = s[i]
        /\ Append(s, e)[Len(s) + 1] = e
        /\ \A i \in 1 .. Len(s) : s[i] \in ToSet(s)
    BY Holding, Appended
  <1> DEFINE t == Append(s, e)
  <1> SUFFICES ASSUME NEW i \in 1 .. Len(t), NEW j \in 1 .. Len(t),
                      i < j, IsNumbered(t[i]), IsNumbered(t[j])
               PROVE  t[i].seq < t[j].seq
    BY DEF Ordered
  <1>2. i \in 1 .. Len(s) /\ t[i] = s[i]
    BY <1>1
  <1>3. CASE j = Len(s) + 1
    BY <1>1, <1>2, <1>3 DEF Ahead
  <1>4. CASE j # Len(s) + 1
    <2>1. j \in 1 .. Len(s) /\ t[j] = s[j]
      BY <1>1, <1>4
    <2> QED BY <1>2, <2>1 DEF Ordered
  <1> QED BY <1>3, <1>4

\* A ring without its head, and what the head is ahead of.
LEMMA OrderedTail ==
  ASSUME NEW s \in Seq(Of(Kinds)), s # << >>, Ordered(s)
  PROVE  Ordered(Tail(s)) /\ Ahead({Head(s)}, ToSet(Tail(s)))
  <1> DEFINE t == Tail(s)
  <1>1. /\ Len(s) \in Nat /\ Len(t) = Len(s) - 1 /\ Len(s) > 0
        /\ \A i \in 1 .. Len(t) : t[i] = s[i + 1]
        /\ Head(s) = s[1] /\ t \in Seq(Of(Kinds))
    BY Holding, Tailed
  <1>2. \A x : x \in ToSet(t) <=> \E i \in 1 .. Len(t) : t[i] = x
    BY <1>1, Holding
  <1>3. \A i, j \in 1 .. Len(t) : i < j => i + 1 \in 1 .. Len(s)
                                   /\ j + 1 \in 1 .. Len(s) /\ i + 1 < j + 1
    BY <1>1
  <1>4. Ordered(t)
    BY <1>1, <1>3 DEF Ordered
  <1>5. \A i \in 1 .. Len(t) : /\ 1 \in 1 .. Len(s) /\ i + 1 \in 1 .. Len(s)
                               /\ 1 < i + 1
    BY <1>1
  <1>6. Ahead({Head(s)}, ToSet(t))
    BY <1>1, <1>2, <1>5 DEF Ordered, Ahead
  <1> QED BY <1>4, <1>6

\* Two rings, one ahead of the other.
LEMMA OrderedJoin ==
  ASSUME NEW s \in Seq(Of(Kinds)), NEW t \in Seq(Of(Kinds)),
         Ordered(s), Ordered(t), Ahead(ToSet(s), ToSet(t))
  PROVE  Ordered(s \o t)
  <1> DEFINE u == s \o t
  <1>1. /\ Len(s) \in Nat /\ Len(t) \in Nat /\ Len(u) = Len(s) + Len(t)
        /\ \A i \in 1 .. Len(s) : u[i] = s[i] /\ s[i] \in ToSet(s)
        /\ \A i \in Len(s) + 1 .. Len(s) + Len(t) : u[i] = t[i - Len(s)]
        /\ \A i \in 1 .. Len(t) : t[i] \in ToSet(t)
    BY Holding, Joined
  <1> SUFFICES ASSUME NEW i \in 1 .. Len(u), NEW j \in 1 .. Len(u),
                      i < j, IsNumbered(u[i]), IsNumbered(u[j])
               PROVE  u[i].seq < u[j].seq
    BY DEF Ordered
  <1> HIDE DEF u
  <1>2. CASE j <= Len(s)
    BY <1>1, <1>2 DEF Ordered
  <1>3. CASE i > Len(s)
    <2>1. /\ i - Len(s) \in 1 .. Len(t) /\ j - Len(s) \in 1 .. Len(t)
          /\ i - Len(s) < j - Len(s)
          /\ u[i] = t[i - Len(s)] /\ u[j] = t[j - Len(s)]
      BY SMTT(30), <1>1, <1>3
    <2> QED BY <2>1 DEF Ordered
  <1>4. CASE i <= Len(s) /\ j > Len(s)
    <2>1. /\ u[i] \in ToSet(s) /\ u[j] = t[j - Len(s)]
          /\ j - Len(s) \in 1 .. Len(t)
      BY <1>1, <1>4
    <2> QED BY <1>1, <2>1 DEF Ahead
  <1> QED BY <1>1, <1>2, <1>3, <1>4

-----------------------------------------------------------------------------
(* Types.                                                                  *)

\* A sequence is one over any larger set.
LEMMA Widened ==
  ASSUME NEW S, NEW T, S \subseteq T, NEW s \in Seq(S)
  PROVE  s \in Seq(T)
  <1>1. /\ Len(s) \in Nat /\ DOMAIN s = 1 .. Len(s)
        /\ \A i \in 1 .. Len(s) : s[i] \in T
    BY Holding
  <1>2. s = [i \in 1 .. Len(s) |-> s[i]]
    BY <1>1, SeqDef
  <1> QED BY <1>1, <1>2, SeqDef

\* What TypeOK says of a buffer that is a marker or none,
LEMMA MarkerIs ==
  ASSUME NEW m \in MarkerOrNone
  PROVE  /\ m \in Of(Kinds) /\ m.id \in Nat /\ m.seq \in Nat
         /\ m # NoBuffer <=> m.kind = "marker"
         /\ IsNumbered(m) <=> m # NoBuffer
  BY DEF MarkerOrNone, Of, Kinds, NoBuffer, Buffer, IsNumbered

\* of a buffer that is made,
LEMMA BufferIs ==
  ASSUME NEW kind, NEW id \in Nat, NEW value \in Nat
  PROVE  /\ Buffer(kind, id, value) \in Of({kind})
         /\ Buffer(kind, id, value).kind = kind
         /\ Buffer(kind, id, value).id = id
         /\ Buffer(kind, id, value).seq = value
  BY DEF Buffer, Of

\* and of what a ring of some kinds holds.
LEMMA RingIs ==
  ASSUME NEW kinds \in SUBSET Kinds, NEW s \in Seq(Of(kinds))
  PROVE  s \in Seq(Of(Kinds)) /\ \A b \in ToSet(s) : b.kind \in kinds
  <1>1. Of(kinds) \subseteq Of(Kinds)
    BY DEF Of
  <1>2. s \in Seq(Of(Kinds))
    BY <1>1, Widened
  <1>3. ToSet(s) \subseteq Of(kinds)
    BY Holding
  <1> QED BY <1>2, <1>3 DEF Of

\* What TypeOK says of the rings.
LEMMA Rings ==
  ASSUME TypeOK
  PROVE  /\ CollatedFrameRing \in Seq(Of(Kinds))
         /\ ParsedFrameRing \in Seq(Of(Kinds))
         /\ DecodedFrameRing \in Seq(Of(Kinds))
         /\ ManifestedBufferRing \in Seq(Of(Kinds))
         /\ shown \in Seq(Of(Kinds))
         /\ codec.decoding \in Seq(Of(Kinds))
         /\ \A b \in ToSet(CollatedFrameRing) : b.kind \in {"frame", "jump", "marker"}
         /\ \A b \in ToSet(ParsedFrameRing) : b.kind \in {"frame", "marker"}
         /\ \A b \in ToSet(DecodedFrameRing) : b.kind \in {"frame", "marker", "reset"}
         /\ \A b \in ToSet(ManifestedBufferRing) :
              b.kind \in {"frame", "marker", "drained"}
         /\ \A b \in ToSet(shown) : b.kind = "frame"
         /\ \A b \in ToSet(codec.decoding) : b.kind = "frame"
  <1>2. \A kinds \in SUBSET Kinds : \A s \in Seq(Of(kinds)) :
          s \in Seq(Of(Kinds)) /\ \A b \in ToSet(s) : b.kind \in kinds
    BY RingIs
  <1>3. codec.decoding \in Seq(Of({"frame"}))
    BY DEF TypeOK, Codecs
  <1>4. /\ {"frame", "jump", "marker"} \in SUBSET Kinds
        /\ {"frame", "marker"} \in SUBSET Kinds
        /\ {"frame", "marker", "reset"} \in SUBSET Kinds
        /\ {"frame", "marker", "drained"} \in SUBSET Kinds
        /\ {"frame"} \in SUBSET Kinds
    BY DEF Kinds
  <1>5. /\ CollatedFrameRing \in Seq(Of({"frame", "jump", "marker"}))
        /\ ParsedFrameRing \in Seq(Of({"frame", "marker"}))
        /\ DecodedFrameRing \in Seq(Of({"frame", "marker", "reset"}))
        /\ ManifestedBufferRing \in Seq(Of({"frame", "marker", "drained"}))
        /\ shown \in Seq(Of({"frame"}))
    BY DEF TypeOK
  <1>6. /\ CollatedFrameRing \in Seq(Of(Kinds))
        /\ \A b \in ToSet(CollatedFrameRing) : b.kind \in {"frame", "jump", "marker"}
    BY <1>2, <1>4, <1>5
  <1>7. /\ ParsedFrameRing \in Seq(Of(Kinds))
        /\ \A b \in ToSet(ParsedFrameRing) : b.kind \in {"frame", "marker"}
    BY <1>2, <1>4, <1>5
  <1>8. /\ DecodedFrameRing \in Seq(Of(Kinds))
        /\ \A b \in ToSet(DecodedFrameRing) : b.kind \in {"frame", "marker", "reset"}
    BY <1>2, <1>4, <1>5
  <1>9. /\ ManifestedBufferRing \in Seq(Of(Kinds))
        /\ \A b \in ToSet(ManifestedBufferRing) :
             b.kind \in {"frame", "marker", "drained"}
    BY <1>2, <1>4, <1>5
  <1>10. /\ shown \in Seq(Of(Kinds))
         /\ \A b \in ToSet(shown) : b.kind \in {"frame"}
    BY <1>2, <1>4, <1>5
  <1>11. /\ codec.decoding \in Seq(Of(Kinds))
         /\ \A b \in ToSet(codec.decoding) : b.kind \in {"frame"}
    BY <1>2, <1>3, <1>4
  <1> QED BY <1>6, <1>7, <1>8, <1>9, <1>10, <1>11

\* And of the rest.
LEMMA Others ==
  ASSUME TypeOK
  PROVE  /\ codec.Prepared \in Nat /\ codec.Completed \in Nat
         /\ codec.DiscardUntil \in Nat /\ codec.PassOnAt \in Nat
         /\ codec.Marker \in MarkerOrNone
         /\ codec.input \in {"idle", "flag", "at", "hold", "test"}
         /\ codec.callback \in {"idle", "count", "test"}
         /\ busy["PtoD"] \in MarkerOrNone /\ busy["DtoM"] \in MarkerOrNone
         /\ seen["DtoM"] \in Nat /\ seen["PostM"] \in Nat
         /\ messages["DtoM"] \subseteq Of({"reset", "drained"})
         /\ messages["PostM"] \subseteq Of({"reset", "drained"})
         /\ NextBufferSequenceNumber \in Nat /\ MarkerInCodedFrameIndex \in Nat
         /\ drainer.at \in {"idle", "flush", "check", "number", "launch", "reset",
                            "event", "wait"}
         /\ frames \in Nat /\ frames < Never /\ Never \in Nat
         /\ drain \in Nat /\ drains \in Seq(Asked) /\ MaxRingSize \in Nat
         /\ drain <= MaxDrains /\ frames + drain <= MaxRingSize
         /\ \A d \in 1 .. drain : /\ drains[d].seq \in Nat
                                  /\ drains[d].behind \in Nat
                                  /\ drains[d].back \in Nat
                                  /\ drains[d].discard \in BOOLEAN
                                  /\ drains[d].parseAll \in BOOLEAN
  <1>1. drains \in Seq(Asked) /\ drain \in Nat
        /\ \A d \in 1 .. drain : drains[d] \in Asked
    BY Holding DEF TypeOK, drain
  <1>2. \A d \in 1 .. drain : /\ drains[d].seq \in Nat
                              /\ drains[d].behind \in Nat
                              /\ drains[d].back \in Nat
                              /\ drains[d].discard \in BOOLEAN
                              /\ drains[d].parseAll \in BOOLEAN
    BY <1>1 DEF Asked
  <1>3. /\ codec.Prepared \in Nat /\ codec.Completed \in Nat
        /\ codec.DiscardUntil \in Nat /\ codec.PassOnAt \in Nat
        /\ codec.Marker \in MarkerOrNone
        /\ codec.input \in {"idle", "flag", "at", "hold", "test"}
        /\ codec.callback \in {"idle", "count", "test"}
    BY DEF TypeOK, Codecs
  <1>4. drainer.at \in {"idle", "flush", "check", "number", "launch", "reset",
                        "event", "wait"}
    BY DEF TypeOK
  <1>5. /\ frames \in Nat /\ frames < Never /\ Never \in Nat /\ frames <= MaxFrames
        /\ drain <= MaxDrains
    BY <1>1, BoundsAssumption DEF TypeOK, Never
  <1>6. frames + drain <= MaxRingSize /\ MaxRingSize \in Nat
    BY <1>1, <1>5, BoundsAssumption, RingAssumption
  <1> QED BY <1>1, <1>2, <1>3, <1>4, <1>5, <1>6 DEF TypeOK

\* A field of the last drain is set.
LEMMA DrainSet ==
  ASSUME TypeOK, drain > 0, NEW e \in Asked
  PROVE  /\ [drains EXCEPT ![drain] = e] \in Seq(Asked)
         /\ Len([drains EXCEPT ![drain] = e]) = drain
         /\ [drains EXCEPT ![drain] = e][drain] = e
         /\ \A d \in 1 .. drain :
              d # drain => [drains EXCEPT ![drain] = e][d] = drains[d]
  <1>1. drains \in Seq(Asked) /\ drain \in Nat
    BY Others
  <1> QED BY <1>1, ExceptSeq DEF drain

\* A drain that waits finds no other marker in the coded ring, and the codec
\* is never between a test and its outcome.
LEMMA NeverTaken ==
  ASSUME OneAtATime, TypeOK, NEW who \in {"input", "callback"},
         TestMarkerFramePassOn(who)
  PROVE  /\ codec[who] = "test"
         /\ \/ CanPassOn /\ Take(who)
            \/ /\ ~CanPassOn
               /\ codec' = [codec EXCEPT ![who] = "idle"]
               /\ Returns(who)
               /\ UNCHANGED DecodedFrameRing
  <1>1. codec[who] # "take"
    BY Others
  <1> QED BY <1>1 DEF TestMarkerFramePassOn, OneAtATime

\* A drain that is alone finds no marker before its own.
LEMMA ChecksAndGoesOn ==
  ASSUME Status, DrainChecks
  PROVE  drainer' = [drainer EXCEPT !.at = "number"]
  BY DEF Status, DrainChecks, Goes

\* What the collator's numbering makes of h, and what becomes of that.
Renumbers(h, b) ==
  /\ b.kind = h.kind /\ b.id = h.id /\ b.seq = NextBufferSequenceNumber
  /\ \/ /\ b.kind = "frame" /\ ParsedFrameRing' = Append(ParsedFrameRing, b)
        /\ discarded' = discarded
     \/ /\ b.kind = "jump" /\ ParsedFrameRing' = ParsedFrameRing
        /\ discarded' = discarded
     \/ /\ b.kind = "frame" /\ Discarding["CtoP"]
        /\ ParsedFrameRing' = ParsedFrameRing
        /\ discarded' = discarded \cup {h.id}

\* The frame parser's process gives what it takes the next number.
LEMMA CtoPNumbers ==
  ASSUME TypeOK, CtoPFrame
  PROVE  /\ Head(CollatedFrameRing) \in Of({"frame", "jump"})
         /\ \E b \in Of({"frame", "jump"}) : Renumbers(Head(CollatedFrameRing), b)
  <1> DEFINE h == Head(CollatedFrameRing)
  <1>1. h \in Of({"frame", "jump", "marker"}) /\ h.kind # "marker"
    <2>1. h.kind # "marker" /\ CollatedFrameRing # << >>
      <3>1. [h EXCEPT !.seq = NextBufferSequenceNumber].kind # "marker"
              /\ CollatedFrameRing # << >>
        BY DEF CtoPFrame
      <3>2. h \in Of({"frame", "jump", "marker"})
        BY <3>1, Tailed DEF TypeOK
      <3> HIDE DEF h
      <3> QED BY <3>1, <3>2 DEF Of
    <2> QED BY <2>1, Tailed DEF TypeOK
  <1>2. h \in Of({"frame", "jump"})
    <2> HIDE DEF h
    <2> QED BY <1>1 DEF Of
  <1>3. PICK b : b = [h EXCEPT !.seq = NextBufferSequenceNumber]
    OBVIOUS
  <1>4. /\ b \in Of({"frame", "jump"}) /\ b.kind = h.kind /\ b.id = h.id
        /\ b.seq = NextBufferSequenceNumber /\ b.kind \in {"frame", "jump"}
    <2> HIDE DEF h
    <2>1. NextBufferSequenceNumber \in Nat
      BY Others
    <2> QED BY <1>2, <1>3, <2>1 DEF Of
  <1>5. LET drop == b.kind = "frame" /\ Discarding["CtoP"]
        IN /\ Spare(b, drop)
           /\ ParsedFrameRing' = IF drop \/ b.kind = "jump"
                                 THEN ParsedFrameRing
                                 ELSE Append(ParsedFrameRing, b)
    BY <1>3, Zenon DEF CtoPFrame
  <1> HIDE DEF h
  <1>6. Renumbers(h, b)
    <2>1. CASE b.kind = "jump"
      BY <1>4, <1>5, <2>1 DEF Spare, Renumbers
    <2>2. CASE b.kind = "frame" /\ Discarding["CtoP"]
      BY <1>4, <1>5, <2>2 DEF Spare, Renumbers
    <2>3. CASE b.kind = "frame" /\ ~Discarding["CtoP"]
      BY <1>4, <1>5, <2>3 DEF Spare, Renumbers
    <2> QED BY <1>4, <2>1, <2>2, <2>3
  <1> QED BY <1>2, <1>4, <1>6 DEF h

\* Every state that a step leads to has its types.
LEMMA TypeStep ==
  ASSUME OneAtATime, TypeOK, Status, [Next]_vars
  PROVE  TypeOK'
  <1> DEFINE C == Of({"frame", "jump", "marker"})
             P == Of({"frame", "marker"})
             D == Of({"frame", "marker", "reset"})
             M == Of({"frame", "marker", "drained"})
  <1>1. /\ \A s \in Seq(C) : s # << >> => Tail(s) \in Seq(C) /\ Head(s) \in C
        /\ \A s \in Seq(P) : s # << >> => Tail(s) \in Seq(P) /\ Head(s) \in P
        /\ \A s \in Seq(D) : s # << >> => Tail(s) \in Seq(D) /\ Head(s) \in D
        /\ \A s \in Seq(M) : s # << >> => Tail(s) \in Seq(M) /\ Head(s) \in M
        /\ \A s \in Seq(Of({"frame"})) : s # << >> =>
             Tail(s) \in Seq(Of({"frame"})) /\ Head(s) \in Of({"frame"})
    BY Tailed
  <1>2. /\ \A s \in Seq(C), e \in C : Append(s, e) \in Seq(C)
        /\ \A s \in Seq(P), e \in P : Append(s, e) \in Seq(P)
        /\ \A s \in Seq(D), e \in D : Append(s, e) \in Seq(D)
        /\ \A s \in Seq(M), e \in M : Append(s, e) \in Seq(M)
        /\ \A s \in Seq(Of({"frame"})), e \in Of({"frame"}) :
             Append(s, e) \in Seq(Of({"frame"}))
    BY Appended
  <1>3. /\ CollatedFrameRing \in Seq(C) /\ ParsedFrameRing \in Seq(P)
        /\ DecodedFrameRing \in Seq(D) /\ ManifestedBufferRing \in Seq(M)
        /\ shown \in Seq(Of({"frame"})) /\ codec.decoding \in Seq(Of({"frame"}))
        /\ codec \in Codecs
        /\ busy \in [{"PtoD", "DtoM"} -> MarkerOrNone]
        /\ seen \in [{"DtoM", "PostM"} -> Nat]
        /\ messages \in [{"DtoM", "PostM"} -> SUBSET Of({"reset", "drained"})]
        /\ NextBufferSequenceNumber \in Nat /\ MarkerInCodedFrameIndex \in Nat
        /\ Discarding \in [Stages -> BOOLEAN] /\ Drained \in BOOLEAN
        /\ discarded \subseteq Nat /\ resets \subseteq Nat
    BY DEF TypeOK, Codecs
  <1>4. /\ drainer \in [at : {"idle", "flush", "check", "number", "launch", "reset",
                              "event", "wait"}, nonBlocking : {FALSE}]
        /\ frames \in 0 .. MaxFrames
        /\ drains \in Seq(Asked) /\ drain <= MaxDrains
    BY DEF TypeOK
  <1>u. ASSUME UNCHANGED <<drainer, drains, frames>>
        PROVE  /\ drainer' \in [at : {"idle", "flush", "check", "number", "launch",
                                      "reset", "event", "wait"},
                                nonBlocking : {FALSE}]
               /\ frames' \in 0 .. MaxFrames
               /\ drains' \in Seq(Asked) /\ drain' <= MaxDrains
    BY <1>u, <1>4 DEF drain
  <1>b. \A k, i, v : i \in Nat /\ v \in Nat => Buffer(k, i, v) \in Of({k})
    BY BufferIs
  <1>5. CASE Inject
    <2>1. Buffer("frame", frames + 1, 0) \in C
      BY <1>4, BoundsAssumption DEF Buffer, Of
    <2>2. CollatedFrameRing' \in Seq(C)
      BY <2>1, <1>2, <1>3, <1>5 DEF Inject
    <2>3. frames' \in 0 .. MaxFrames
      BY <1>4, <1>5, BoundsAssumption DEF Inject
    <2> QED
      BY <2>2, <2>3, <1>3, <1>4, <1>5
      DEF Inject, TypeOK, processes, player, drain
  <1>6. CASE CtoPMarker
    <2> DEFINE b == Head(CollatedFrameRing)
    <2>1. /\ b \in C /\ Tail(CollatedFrameRing) \in Seq(C)
          /\ b.kind = "marker"
      BY <1>1, <1>3, <1>6 DEF CtoPMarker
    <2>2. b \in P /\ b.seq \in Nat
      BY <2>1 DEF Of
    <2>3. ParsedFrameRing' \in Seq(P) /\ CollatedFrameRing' \in Seq(C)
      BY <2>1, <2>2, <1>2, <1>3, <1>6 DEF CtoPMarker
    <2>4. NextBufferSequenceNumber' \in Nat /\ MarkerInCodedFrameIndex' \in Nat
      BY <2>2, <1>6 DEF CtoPMarker, INVALID
    <2>5. Discarding' \in [Stages -> BOOLEAN]
      BY <1>3, <1>6 DEF CtoPMarker, ClearedAtCtoP
    <2> QED
      BY <2>3, <2>4, <2>5, <1>u, <1>3, <1>6
      DEF CtoPMarker, TypeOK, processes, input
  <1>7. CASE CtoPFrame
    <2> DEFINE h == Head(CollatedFrameRing)
    <2>1. CollatedFrameRing' \in Seq(C) /\ NextBufferSequenceNumber' \in Nat
      BY <1>1, <1>3, <1>7 DEF CtoPFrame
    <2>2. h \in Of({"frame", "jump"}) /\ h.id \in Nat
      <3>1. h \in Of({"frame", "jump"})
        BY <1>7, CtoPNumbers
      <3> HIDE DEF h
      <3> QED BY <3>1 DEF Of
    <2>3. PICK b \in Of({"frame", "jump"}) : Renumbers(h, b)
      BY <1>7, CtoPNumbers
    <2>4. ParsedFrameRing' \in Seq(P)
      <3>1. b.kind = "frame" => b \in P
        BY DEF Of
      <3>2. b \in P => Append(ParsedFrameRing, b) \in Seq(P)
        BY <1>3, Appended
      <3> QED BY <2>3, <3>1, <3>2, <1>3 DEF Renumbers
    <2>5. discarded' \subseteq Nat
      BY <2>2, <2>3, <1>3 DEF Renumbers
    <2> QED
      BY <2>1, <2>4, <2>5, <1>u, <1>3, <1>7
      DEF CtoPFrame, TypeOK, processes
  <1>8. CASE PtoDFrame
    <2> DEFINE b == Head(ParsedFrameRing)
    <2>1. b \in P /\ b.kind = "frame" /\ Tail(ParsedFrameRing) \in Seq(P)
      BY <1>1, <1>3, <1>8 DEF PtoDFrame
    <2>2. b \in Of({"frame"}) /\ b.id \in Nat
      BY <2>1 DEF Of
    <2>3. Append(codec.decoding, b) \in Seq(Of({"frame"}))
      BY <2>2, <1>2, <1>3
    <2>4. codec' \in Codecs
      <3>1. \/ codec' = codec
            \/ codec' = [codec EXCEPT !.decoding = Append(codec.decoding, b),
                                      !.Prepared = codec.Prepared + 1]
        BY <1>8 DEF PtoDFrame
      <3>2. codec.Prepared + 1 \in Nat
        BY Others
      <3> HIDE DEF b
      <3> QED BY <2>3, <3>1, <3>2, <1>3 DEF Codecs
    <2>5. discarded' \subseteq Nat
      BY <2>2, <1>3, <1>8 DEF PtoDFrame, Spare
    <2> QED
      BY <2>1, <2>4, <2>5, <1>u, <1>3, <1>8
      DEF PtoDFrame, TypeOK, processes, player
  <1>9. CASE PtoDMarker
    <2> DEFINE b == Head(ParsedFrameRing)
    <2>1. b \in P /\ b.kind = "marker" /\ Tail(ParsedFrameRing) \in Seq(P)
      BY <1>1, <1>3, <1>9 DEF PtoDMarker
    <2>2. b \in MarkerOrNone /\ NoBuffer \in MarkerOrNone
      BY <2>1 DEF Of, MarkerOrNone
    <2>3. codec' \in Codecs
      BY <2>2, <1>3, <1>9 DEF PtoDMarker, Codecs
    <2>4. /\ busy' \in [{"PtoD", "DtoM"} -> MarkerOrNone]
          /\ Discarding' \in [Stages -> BOOLEAN]
      BY <2>2, <1>3, <1>9 DEF PtoDMarker, Holds
    <2> QED
      BY <2>1, <2>3, <2>4, <1>u, <1>3, <1>9
      DEF PtoDMarker, TypeOK, input
  <1>10. CASE PtoDMarkerTest \/ MarkerInput
    <2>1. NoBuffer \in MarkerOrNone
      BY DEF MarkerOrNone
    <2>2. codec' \in Codecs
      BY <2>1, <1>3, <1>10 DEF PtoDMarkerTest, MarkerInput, Codecs
    <2>3. busy' \in [{"PtoD", "DtoM"} -> MarkerOrNone]
      BY <2>1, <1>3, <1>10 DEF PtoDMarkerTest, MarkerInput, processes, LetsGo, Holds
    <2> QED
      BY <2>2, <2>3, <1>u, <1>3, <1>10
      DEF PtoDMarkerTest, MarkerInput, TypeOK, input, rings, processes, player
  <1>11. ASSUME NEW who \in {"input", "callback"}, TestMarkerFramePassOn(who)
         PROVE  TypeOK'
    <2>1. NoBuffer \in MarkerOrNone /\ codec.Marker \in MarkerOrNone
      BY Others DEF MarkerOrNone
    <2>2. \/ CanPassOn /\ Take(who)
          \/ /\ ~CanPassOn
             /\ codec' = [codec EXCEPT ![who] = "idle"]
             /\ Returns(who)
             /\ UNCHANGED DecodedFrameRing
      BY <1>11, NeverTaken
    <2>3. codec' \in Codecs
      BY <2>1, <2>2, <1>3 DEF Take, Codecs
    <2>4. busy' \in [{"PtoD", "DtoM"} -> MarkerOrNone]
      BY <2>1, <2>2, <1>3 DEF Take, Returns, LetsGo, Holds
    <2>5. DecodedFrameRing' \in Seq(D)
      <3>1. codec.Marker # NoBuffer => codec.Marker \in D
        BY <2>1 DEF MarkerOrNone, Of
      <3>2. \/ DecodedFrameRing' = DecodedFrameRing
            \/ /\ codec.Marker # NoBuffer
               /\ DecodedFrameRing' = Append(DecodedFrameRing, codec.Marker)
        BY <2>2 DEF Take
      <3>3. codec.Marker \in D => Append(DecodedFrameRing, codec.Marker) \in Seq(D)
        BY <1>3, Appended
      <3> QED BY <3>1, <3>2, <3>3, <1>3
    <2> QED
      BY <2>3, <2>4, <2>5, <1>u, <1>3, <1>11
      DEF TestMarkerFramePassOn, TypeOK, input, player
  <1>12. CASE DecodeCompletes
    <2> DEFINE b == Head(codec.decoding)
    <2>1. b \in Of({"frame"}) /\ Tail(codec.decoding) \in Seq(Of({"frame"}))
      BY <1>1, <1>3, <1>12 DEF DecodeCompletes
    <2>2. b \in D /\ b.id \in Nat
      BY <2>1 DEF Of
    <2>3. codec' \in Codecs
      <3>1. codec' = [codec EXCEPT !.decoding = Tail(@), !.callback = "count"]
        BY <1>12 DEF DecodeCompletes
      <3> QED BY <2>1, <3>1, <1>3 DEF Codecs
    <2>4. DecodedFrameRing' \in Seq(D)
      <3>1. \/ DecodedFrameRing' = DecodedFrameRing
            \/ DecodedFrameRing' = Append(DecodedFrameRing, b)
        BY <1>12 DEF DecodeCompletes
      <3>2. Append(DecodedFrameRing, b) \in Seq(D)
        BY <2>2, <1>3, Appended
      <3> QED BY <3>1, <3>2, <1>3
    <2>5. discarded' \subseteq Nat
      BY <2>2, <1>3, <1>12 DEF DecodeCompletes, Spare
    <2> QED
      BY <2>3, <2>4, <2>5, <1>u, <1>3, <1>12
      DEF DecodeCompletes, TypeOK, processes, player
  <1>13. CASE CallbackCounts
    <2>1. codec' \in Codecs
      <3>1. codec' = [codec EXCEPT !.Completed = codec.Completed + 1,
                                   !.callback = "test"]
        BY <1>13 DEF CallbackCounts, Counted
      <3>2. codec.Completed + 1 \in Nat
        BY Others
      <3> QED BY <3>1, <3>2, <1>3 DEF Codecs
    <2> QED
      BY <2>1, <1>u, <1>3, <1>13
      DEF CallbackCounts, TypeOK, input, rings, processes, player
  <1>14. ASSUME NEW stage \in {"DtoM", "PostM"}, NEW value \in Nat, Sees(stage, value)
         PROVE  /\ seen' \in [{"DtoM", "PostM"} -> Nat]
                /\ messages' \in [{"DtoM", "PostM"} -> SUBSET Of({"reset", "drained"})]
    BY <1>3, <1>14 DEF Sees
  <1>15. ASSUME NEW value \in Nat, ResetTimeMapping(Due("DtoM", value))
         PROVE  resets' \subseteq Nat
    <2>1. \A m \in Due("DtoM", value) : m.id \in Nat
      BY <1>3 DEF Due, Of
    <2> QED BY <2>1, <1>3, <1>15 DEF ResetTimeMapping
  <1>16. CASE DtoMFrame
    <2> DEFINE b == Head(DecodedFrameRing)
    <2>1. b \in D /\ b.kind = "frame" /\ Tail(DecodedFrameRing) \in Seq(D)
      BY <1>1, <1>3, <1>16 DEF DtoMFrame
    <2>2. b \in Of({"frame"}) /\ b.id \in Nat /\ b.seq \in Nat
      BY <2>1 DEF Of
    <2>3. shown' \in Seq(Of({"frame"}))
      <3>1. shown' = shown \/ shown' = Append(shown, b)
        BY <1>16 DEF DtoMFrame
      <3>2. Append(shown, b) \in Seq(Of({"frame"}))
        BY <2>2, <1>3, Appended
      <3> QED BY <3>1, <3>2, <1>3
    <2>4. discarded' \subseteq Nat
      BY <2>2, <1>3, <1>16 DEF DtoMFrame, Spare
    <2>5. Sees("DtoM", b.seq) /\ ResetTimeMapping(Due("DtoM", b.seq))
      BY <1>16 DEF DtoMFrame
    <2>6. /\ seen' \in [{"DtoM", "PostM"} -> Nat]
          /\ messages' \in [{"DtoM", "PostM"} -> SUBSET Of({"reset", "drained"})]
          /\ resets' \subseteq Nat
      BY <2>2, <2>5, <1>14, <1>15
    <2> QED
      BY <2>1, <2>3, <2>4, <2>6, <1>u, <1>3, <1>16
      DEF DtoMFrame, TypeOK, player
  <1>17. CASE DtoMMarker
    <2> DEFINE b == Head(DecodedFrameRing)
    <2>1. b \in D /\ b.kind = "marker" /\ Tail(DecodedFrameRing) \in Seq(D)
      BY <1>1, <1>3, <1>17 DEF DtoMMarker
    <2>2. b \in M /\ b \in MarkerOrNone /\ b.seq \in Nat
      BY <2>1 DEF Of, MarkerOrNone
    <2>3. ManifestedBufferRing' \in Seq(M)
      BY <2>2, <1>2, <1>3, <1>17 DEF DtoMMarker
    <2>4. busy' \in [{"PtoD", "DtoM"} -> MarkerOrNone]
      BY <2>2, <1>3, <1>17 DEF DtoMMarker, Holds
    <2>5. Sees("DtoM", b.seq) /\ ResetTimeMapping(Due("DtoM", b.seq))
      BY <1>17 DEF DtoMMarker
    <2>6. /\ seen' \in [{"DtoM", "PostM"} -> Nat]
          /\ messages' \in [{"DtoM", "PostM"} -> SUBSET Of({"reset", "drained"})]
          /\ resets' \subseteq Nat
      BY <2>2, <2>5, <1>14, <1>15
    <2> QED
      BY <2>1, <2>3, <2>4, <2>6, <1>u, <1>3, <1>17
      DEF DtoMMarker, TypeOK, player
  <1>18. CASE DtoMMarkerClear
    <2>1. /\ busy' \in [{"PtoD", "DtoM"} -> MarkerOrNone]
          /\ Discarding' \in [Stages -> BOOLEAN]
      BY <1>3, <1>18 DEF DtoMMarkerClear, LetsGo, Holds, MarkerOrNone
    <2> QED
      BY <2>1, <1>u, <1>3, <1>18
      DEF DtoMMarkerClear, TypeOK, input, rings
  <1>19. CASE DtoMCall
    <2> DEFINE m == Head(DecodedFrameRing)
    <2>1. m \in D /\ IsCall(m) /\ Tail(DecodedFrameRing) \in Seq(D)
      BY <1>1, <1>3, <1>19 DEF DtoMCall
    <2>2. m \in Of({"reset", "drained"}) /\ m.id \in Nat
      BY <2>1 DEF Of, IsCall
    <2>3. /\ messages' \in [{"DtoM", "PostM"} -> SUBSET Of({"reset", "drained"})]
          /\ resets' \subseteq Nat
      <3>1. CASE PerformedOnArrival("DtoM", m)
        <4>1. messages' = messages /\ resets' = resets \cup {m.id}
          BY <3>1, <1>19 DEF DtoMCall, ResetTimeMapping
        <4> QED BY <4>1, <2>2, <1>3
      <3>2. CASE ~PerformedOnArrival("DtoM", m)
        <4>1. /\ messages' = [messages EXCEPT !["DtoM"] = @ \cup {m}]
              /\ resets' = resets
          BY <3>2, <1>19 DEF DtoMCall
        <4> HIDE DEF m
        <4> QED BY <4>1, <2>2, <1>3
      <3> QED BY <3>1, <3>2
    <2> QED
      BY <2>1, <2>3, <1>u, <1>3, <1>19
      DEF DtoMCall, TypeOK, player
  <1>20. CASE Show
    <2>1. Head(shown) \in Of({"frame"}) /\ Tail(shown) \in Seq(Of({"frame"}))
      BY <1>1, <1>3, <1>20 DEF Show
    <2>2. Head(shown) \in M
      BY <2>1 DEF Of
    <2>3. ManifestedBufferRing' \in Seq(M) /\ shown' \in Seq(Of({"frame"}))
      BY <2>1, <2>2, <1>2, <1>3, <1>20 DEF Show
    <2> QED
      BY <2>3, <1>u, <1>3, <1>20
      DEF Show, TypeOK, input, processes, player
  <1>21. CASE PostMTake
    <2> DEFINE b == Head(ManifestedBufferRing)
    <2>1. b \in M /\ Tail(ManifestedBufferRing) \in Seq(M)
      BY <1>1, <1>3, <1>21 DEF PostMTake
    <2>2. b.seq \in Nat
      BY <2>1 DEF Of
    <2>3. Sees("PostM", b.seq)
      BY <1>21 DEF PostMTake
    <2>4. /\ seen' \in [{"DtoM", "PostM"} -> Nat]
          /\ messages' \in [{"DtoM", "PostM"} -> SUBSET Of({"reset", "drained"})]
      BY <2>2, <2>3, <1>14
    <2>5. Discarding' \in [Stages -> BOOLEAN]
      BY <1>3, <1>21 DEF PostMTake
    <2>6. Drained' \in BOOLEAN
      BY <1>3, <1>21 DEF PostMTake
    <2> QED
      BY <2>1, <2>4, <2>5, <2>6, <1>u, <1>3, <1>21
      DEF PostMTake, TypeOK, input
  <1>22. CASE PostMCall
    <2> DEFINE m == Head(ManifestedBufferRing)
    <2>1. m \in M /\ IsCall(m) /\ Tail(ManifestedBufferRing) \in Seq(M)
      BY <1>1, <1>3, <1>22 DEF PostMCall
    <2>2. m \in Of({"reset", "drained"})
      BY <2>1 DEF Of, IsCall
    <2>3. messages' \in [{"DtoM", "PostM"} -> SUBSET Of({"reset", "drained"})]
      BY <2>2, <1>3, <1>22 DEF PostMCall
    <2>4. Drained' \in BOOLEAN
      BY <1>3, <1>22 DEF PostMCall
    <2> QED
      BY <2>1, <2>3, <2>4, <1>u, <1>3, <1>22
      DEF PostMCall, TypeOK, input
  <1>d. ASSUME drain > 0, NEW e \in Asked, drains' = [drains EXCEPT ![drain] = e]
        PROVE  drains' \in Seq(Asked) /\ drain' <= MaxDrains
    BY <1>d, <1>4, DrainSet DEF drain
  <1>23. CASE DrainBegins
    <2>1. PICK discard \in BOOLEAN, parseAll \in ParseAllCalls,
               nonBlocking \in NonBlockingCalls :
            /\ drains' = Append(drains, [discard |-> discard,
                                         parseAll |-> parseAll, seq |-> 0,
                                         behind |-> Never, back |-> Never])
            /\ Discarding' = IF discard
                             THEN [s \in Stages |-> s # "CtoP" \/ ~parseAll]
                             ELSE Discarding
            /\ drainer' = [at |-> IF discard THEN "flush" ELSE "check",
                           nonBlocking |-> nonBlocking]
      BY <1>23 DEF DrainBegins
    <2>2. parseAll \in BOOLEAN /\ nonBlocking = FALSE
      BY CallsAssumption DEF OneAtATime
    <2>3. Never \in Nat
      BY Others
    <2>4. [discard |-> discard, parseAll |-> parseAll, seq |-> 0,
           behind |-> Never, back |-> Never] \in Asked
      BY <2>2, <2>3 DEF Asked
    <2>5. drains' \in Seq(Asked) /\ drain' = drain + 1
      BY <2>1, <2>4, <1>4, Appended DEF drain
    <2>6. drain' <= MaxDrains
      <3>1. drain < MaxDrains /\ drain \in Nat
        BY <1>23, Others DEF DrainBegins
      <3> QED BY <2>5, <3>1, BoundsAssumption
    <2>7. drainer' \in [at : {"idle", "flush", "check", "number", "launch",
                              "reset", "event", "wait"}, nonBlocking : {FALSE}]
      BY <2>1, <2>2
    <2>8. Discarding' \in [Stages -> BOOLEAN]
      BY <2>1, <2>2, <1>3
    <2> QED
      BY <2>5, <2>6, <2>7, <2>8, <1>3, <1>4, <1>23
      DEF DrainBegins, TypeOK, rings, processes
  <1>g. ASSUME NEW place \in {"idle", "flush", "check", "number", "launch",
                              "reset", "event", "wait"}, Goes(place)
        PROVE  drainer' \in [at : {"idle", "flush", "check", "number", "launch",
                                   "reset", "event", "wait"}, nonBlocking : {FALSE}]
    BY <1>g, <1>4 DEF Goes
  <1>24. CASE DrainFlushes
    <2>1. Buffer("jump", drain, 0) \in C
      BY Others DEF Buffer, Of
    <2>2. CollatedFrameRing' \in Seq(C)
      BY <2>1, <1>2, <1>3, <1>24 DEF DrainFlushes
    <2>3. codec' \in Codecs
      BY <1>3, <1>24 DEF DrainFlushes, Codecs
    <2>4. ManifestedBufferRing' \in Seq(M) /\ shown' \in Seq(Of({"frame"}))
      <3>1. shown \in Seq(M)
        BY <1>3, Widened DEF Of
      <3>2. << >> \in Seq(Of({"frame"}))
        BY EmptySeq
      <3> QED BY <3>1, <3>2, <1>3, <1>24, Joined DEF DrainFlushes
    <2>5. drainer' \in [at : {"idle", "flush", "check", "number", "launch",
                              "reset", "event", "wait"}, nonBlocking : {FALSE}]
      BY <1>g, <1>24 DEF DrainFlushes
    <2> QED
      BY <2>2, <2>3, <2>4, <2>5, <1>3, <1>4, <1>24
      DEF DrainFlushes, TypeOK, processes, player, input, drain
  <1>25. CASE DrainChecks
    <2>1. drainer' \in [at : {"idle", "flush", "check", "number", "launch",
                              "reset", "event", "wait"}, nonBlocking : {FALSE}]
      BY <1>25, <1>4, ChecksAndGoesOn
    <2> QED
      BY <2>1, <1>3, <1>4, <1>25
      DEF DrainChecks, TypeOK, rings, processes, player, input, drain
  <1>26. CASE DrainNumbers
    <2>1. drain > 0 /\ drains[drain] \in Asked /\ drain \in Nat
      BY <1>4, <1>26, Holding, Others DEF DrainNumbers, Status, drain
    <2>2. /\ drains' = [drains EXCEPT ![drain] =
                          [drains[drain] EXCEPT !.seq = MarkerNumber]]
          /\ MarkerNumber \in Nat
      BY <1>26, Others DEF DrainNumbers, MarkerNumber
    <2>3. [drains[drain] EXCEPT !.seq = MarkerNumber] \in Asked
      BY <2>1, <2>2 DEF Asked
    <2>4. drains' \in Seq(Asked) /\ drain' <= MaxDrains
      BY <2>1, <2>2, <2>3, <1>d
    <2>5. drainer' \in [at : {"idle", "flush", "check", "number", "launch",
                              "reset", "event", "wait"}, nonBlocking : {FALSE}]
      BY <1>g, <1>26 DEF DrainNumbers
    <2> QED
      BY <2>4, <2>5, <1>3, <1>4, <1>26
      DEF DrainNumbers, TypeOK, rings, processes, player
  <1>27. CASE DrainLaunches
    <2>1. drain > 0 /\ drains[drain] \in Asked /\ drain \in Nat
      BY <1>4, <1>27, Holding, Others DEF DrainLaunches, Status, drain
    <2>2. /\ drains' = [drains EXCEPT ![drain] =
                          [drains[drain] EXCEPT !.behind = frames]]
          /\ frames \in Nat
      BY <1>27, Others DEF DrainLaunches
    <2>3. [drains[drain] EXCEPT !.behind = frames] \in Asked
      BY <2>1, <2>2 DEF Asked
    <2>4. drains' \in Seq(Asked) /\ drain' <= MaxDrains
      BY <2>1, <2>2, <2>3, <1>d
    <2>5. drainer' \in [at : {"idle", "flush", "check", "number", "launch",
                              "reset", "event", "wait"}, nonBlocking : {FALSE}]
      BY <1>g, <1>27 DEF DrainLaunches
    <2>6. DrainSequenceNumber \in Nat
      BY <2>1 DEF DrainSequenceNumber, Asked
    <2>7. Buffer("marker", drain, DrainSequenceNumber) \in C
      BY <2>1, <2>6 DEF Buffer, Of
    <2>8. CollatedFrameRing' \in Seq(C)
      BY <2>7, <1>2, <1>3, <1>27 DEF DrainLaunches
    <2> QED
      BY <2>1, <2>4, <2>5, <2>8, <1>3, <1>4, <1>27
      DEF DrainLaunches, TypeOK, processes
  <1>28. CASE DrainCalls
    <2>1. drain > 0 /\ drains[drain] \in Asked /\ drain \in Nat
      BY <1>4, <1>28, Holding, Others DEF DrainCalls, Status, drain
    <2>2. DrainSequenceNumber \in Nat
      BY <2>1 DEF DrainSequenceNumber, Asked
    <2>3. /\ Buffer("reset", drain, DrainSequenceNumber) \in D
          /\ Buffer("drained", drain, DrainSequenceNumber) \in M
      BY <2>1, <2>2 DEF Buffer, Of
    <2>4. DecodedFrameRing' \in Seq(D) /\ ManifestedBufferRing' \in Seq(M)
      BY <2>3, <1>2, <1>3, <1>28 DEF DrainCalls
    <2>5. drainer' \in [at : {"idle", "flush", "check", "number", "launch",
                              "reset", "event", "wait"}, nonBlocking : {FALSE}]
      BY <1>g, <1>28 DEF DrainCalls
    <2> QED
      BY <2>4, <2>5, <1>3, <1>4, <1>28
      DEF DrainCalls, TypeOK, processes, player, input, drain
  <1>29. CASE DrainWaits
    <2>1. drainer' \in [at : {"idle", "flush", "check", "number", "launch",
                              "reset", "event", "wait"}, nonBlocking : {FALSE}]
      BY <1>g, <1>29 DEF DrainWaits
    <2>2. drains' \in Seq(Asked) /\ drain' <= MaxDrains
      <3>1. CASE UNCHANGED drains
        BY <3>1, <1>4 DEF drain
      <3>2. CASE /\ drainer.at = "wait"
                 /\ drains' = [drains EXCEPT ![drain].back = frames]
        <4>1. drain > 0 /\ drains[drain] \in Asked /\ drain \in Nat
          BY <3>2, <1>4, Holding, Others DEF Status, drain
        <4>2. /\ drains' = [drains EXCEPT ![drain] =
                              [drains[drain] EXCEPT !.back = frames]]
              /\ frames \in Nat
          BY <3>2, Others
        <4>3. [drains[drain] EXCEPT !.back = frames] \in Asked
          BY <4>1, <4>2 DEF Asked
        <4> QED BY <4>1, <4>2, <4>3, <1>d
      <3> QED BY <3>1, <3>2, <1>29 DEF DrainWaits
    <2> QED
      BY <2>1, <2>2, <1>3, <1>4, <1>29
      DEF DrainWaits, TypeOK, rings, processes, player
  <1>30. CASE UNCHANGED vars
    BY <1>30, <1>3, <1>4
    DEF vars, rings, processes, player, input, TypeOK, drain
  <1> QED
    BY <1>5, <1>6, <1>7, <1>8, <1>9, <1>10, <1>11, <1>12, <1>13, <1>16, <1>17,
       <1>18, <1>19, <1>20, <1>21, <1>22, <1>23, <1>24, <1>25, <1>26, <1>27,
       <1>28, <1>29, <1>30
    DEF Next, CtoP, PtoD, Callback, DtoM, PostM, Drain

-----------------------------------------------------------------------------
(* What the steps of a drain make of the drains.                           *)

\* DrainBegins adds a drain, and sets the flags if it discards.
LEMMA Begins ==
  ASSUME OneAtATime, TypeOK, DrainBegins
  PROVE  /\ drain' = drain + 1
         /\ \A d \in 1 .. drain : drains'[d] = drains[d]
         /\ drains'[drain + 1].behind = Never /\ drains'[drain + 1].back = Never
         /\ drainer'.at \in {"flush", "check"}
         /\ drainer'.at = "flush" => drains'[drain + 1].discard
         /\ drains'[drain + 1].discard =>
              Discarding' = [s \in Stages |->
                               s # "CtoP" \/ ~drains'[drain + 1].parseAll]
         /\ ~drains'[drain + 1].discard => Discarding' = Discarding
  <1>1. PICK discard \in BOOLEAN, parseAll \in ParseAllCalls,
             nonBlocking \in NonBlockingCalls :
          /\ drains' = Append(drains, [discard |-> discard,
                                       parseAll |-> parseAll, seq |-> 0,
                                       behind |-> Never, back |-> Never])
          /\ Discarding' = IF discard
                           THEN [s \in Stages |-> s # "CtoP" \/ ~parseAll]
                           ELSE Discarding
          /\ drainer' = [at |-> IF discard THEN "flush" ELSE "check",
                         nonBlocking |-> nonBlocking]
    BY DEF DrainBegins
  <1> DEFINE e == [discard |-> discard, parseAll |-> parseAll, seq |-> 0,
                   behind |-> Never, back |-> Never]
  <1>2. e \in Asked
    BY Others, CallsAssumption DEF Asked
  <1>3. drains \in Seq(Asked) /\ drain = Len(drains)
    BY Others DEF drain
  <1>4. /\ drain' = drain + 1 /\ drains'[drain + 1] = e
        /\ \A d \in 1 .. drain : drains'[d] = drains[d]
    BY <1>1, <1>2, <1>3, Appended DEF drain
  <1>5. /\ drains'[drain + 1].behind = Never /\ drains'[drain + 1].back = Never
        /\ drains'[drain + 1].discard = discard
        /\ drains'[drain + 1].parseAll = parseAll
    BY <1>4
  <1> HIDE DEF e
  <1> QED BY <1>1, <1>4, <1>5

\* The drain after a step that sets one of its fields.
LEMMA Numbers ==
  ASSUME TypeOK, Status, DrainNumbers
  PROVE  /\ drain \in 1 .. drain /\ drain' = drain
         /\ \A d \in 1 .. drain : d # drain => drains'[d] = drains[d]
         /\ drains'[drain].seq = MarkerNumber
         /\ drains'[drain].discard = drains[drain].discard
         /\ drains'[drain].parseAll = drains[drain].parseAll
         /\ drains'[drain].behind = drains[drain].behind
         /\ drains'[drain].back = drains[drain].back
  <1>1. drain > 0 /\ drain \in Nat /\ drains \in Seq(Asked)
    BY Others DEF DrainNumbers, Status
  <1>2. drains[drain] \in Asked
    BY <1>1, Holding DEF drain
  <1>3. drains' = [drains EXCEPT ![drain] =
                    [drains[drain] EXCEPT !.seq = MarkerNumber]]
    BY DEF DrainNumbers
  <1>4. MarkerNumber \in Nat
    BY Others DEF MarkerNumber
  <1>a. [drains[drain] EXCEPT !.seq = MarkerNumber] \in Asked
    BY <1>2, <1>4 DEF Asked
  <1>5. /\ drain' = drain
        /\ drains'[drain] = [drains[drain] EXCEPT !.seq = MarkerNumber]
        /\ \A d \in 1 .. drain : d # drain => drains'[d] = drains[d]
    BY <1>1, <1>3, <1>a, DrainSet DEF drain
  <1> QED BY <1>1, <1>2, <1>5 DEF Asked

\* DrainLaunches fixes what the drain is behind,
LEMMA Launches ==
  ASSUME TypeOK, Status, DrainLaunches
  PROVE  /\ drain \in 1 .. drain /\ drain' = drain
         /\ \A d \in 1 .. drain : d # drain => drains'[d] = drains[d]
         /\ drains'[drain].behind = frames
         /\ drains'[drain].discard = drains[drain].discard
         /\ drains'[drain].parseAll = drains[drain].parseAll
         /\ drains'[drain].seq = drains[drain].seq
         /\ drains'[drain].back = drains[drain].back
  <1>1. drain > 0 /\ drain \in Nat /\ drains \in Seq(Asked)
    BY Others DEF DrainLaunches, Status
  <1>2. drains[drain] \in Asked
    BY <1>1, Holding DEF drain
  <1>3. drains' = [drains EXCEPT ![drain] =
                    [drains[drain] EXCEPT !.behind = frames]]
    BY DEF DrainLaunches
  <1>4. [drains[drain] EXCEPT !.behind = frames] \in Asked
    BY <1>2, Others DEF Asked
  <1>5. /\ drain' = drain
        /\ drains'[drain] = [drains[drain] EXCEPT !.behind = frames]
        /\ \A d \in 1 .. drain : d # drain => drains'[d] = drains[d]
    BY <1>1, <1>3, <1>4, DrainSet DEF drain
  <1> QED BY <1>1, <1>2, <1>5 DEF Asked

\* and DrainWaits returns only for the event.
LEMMA ReturnsAtLast ==
  ASSUME OneAtATime, TypeOK, Status, DrainWaits
  PROVE  /\ drain \in 1 .. drain /\ drain' = drain
         /\ drainer.at = "wait" /\ Drained /\ drainer'.at = "idle"
         /\ \A d \in 1 .. drain : d # drain => drains'[d] = drains[d]
         /\ drains'[drain].back = frames
         /\ drains'[drain].discard = drains[drain].discard
         /\ drains'[drain].parseAll = drains[drain].parseAll
         /\ drains'[drain].seq = drains[drain].seq
         /\ drains'[drain].behind = drains[drain].behind
  <1>0. drainer.at # "await"
    BY Others
  <1>a. /\ drainer.at = "wait" /\ Drained
        /\ drains' = [drains EXCEPT ![drain] =
                       [drains[drain] EXCEPT !.back = frames]]
        /\ Goes("idle")
    BY <1>0 DEF DrainWaits, OneAtATime
  <1>b. drainer'.at = "idle"
    BY <1>a DEF Goes, TypeOK
  <1>1. drain > 0 /\ drain \in Nat /\ drains \in Seq(Asked)
    BY <1>a, Others DEF Status
  <1>2. drains[drain] \in Asked
    BY <1>1, Holding DEF drain
  <1>4. [drains[drain] EXCEPT !.back = frames] \in Asked
    BY <1>2, Others DEF Asked
  <1>5. /\ drain' = drain
        /\ drains'[drain] = [drains[drain] EXCEPT !.back = frames]
        /\ \A d \in 1 .. drain : d # drain => drains'[d] = drains[d]
    BY <1>1, <1>a, <1>4, DrainSet DEF drain
  <1> QED BY <1>1, <1>2, <1>5, <1>a, <1>b DEF Asked

\* The other steps leave the drains as they are.
LEMMA OtherSteps ==
  ASSUME [Next]_vars
  PROVE  \/ UNCHANGED drains
         \/ DrainBegins \/ DrainNumbers \/ DrainLaunches \/ DrainWaits
  BY DEF Next, CtoP, PtoD, Callback, DtoM, PostM, Drain, vars, input,
         Inject, CtoPMarker, CtoPFrame, PtoDFrame, PtoDMarker,
         PtoDMarkerTest, MarkerInput,
         TestMarkerFramePassOn, DecodeCompletes, CallbackCounts, DtoMFrame,
         DtoMMarker, DtoMMarkerClear, DtoMCall, Show, PostMTake, PostMCall,
         DrainFlushes, DrainChecks, DrainCalls

\* Once a drain's marker is launched, its number and place are fixed.
LEMMA DrainsGrow ==
  ASSUME OneAtATime, TypeOK, Status, [Next]_vars
  PROVE  /\ drain \in Nat /\ drain' \in Nat /\ drain <= drain'
         /\ \A d \in 1 .. drain :
              /\ d \in 1 .. drain'
              /\ drains'[d].discard = drains[d].discard
              /\ drains'[d].parseAll = drains[d].parseAll
              /\ Launched(d) => /\ drains'[d].seq = drains[d].seq
                                /\ drains'[d].behind = drains[d].behind
  <1>0. drain \in Nat
    BY Others
  <1>1. CASE UNCHANGED drains
    BY <1>0, <1>1 DEF drain
  <1>2. CASE DrainBegins
    BY <1>0, <1>2, Begins
  <1>3. CASE DrainNumbers
    <2>1. \A d \in 1 .. drain : drainer.at = "number"
                                  /\ (Launched(d) => d # drain)
      BY <1>3 DEF DrainNumbers, Status, Over
    <2> QED BY <1>0, <1>3, <2>1, Numbers
  <1>4. CASE DrainLaunches
    <2>1. \A d \in 1 .. drain : drainer.at = "launch"
                                  /\ (Launched(d) => d # drain)
      BY <1>4 DEF DrainLaunches, Status, Over
    <2> QED BY <1>0, <1>4, <2>1, Launches
  <1>5. CASE DrainWaits
    BY <1>0, <1>5, ReturnsAtLast
  <1> QED BY <1>1, <1>2, <1>3, <1>4, <1>5, OtherSteps

-----------------------------------------------------------------------------
(* The state of a drain, and the event it waits for.                       *)

\* A marker in the chain is the last drain's, whose end is still to come.
LEMMA LastMarker ==
  ASSUME TypeOK, Status, Event, Order, Markers,
         NEW b \in ToSet(CollatedFrameRing) \cup Numbered, b.kind = "marker"
  PROVE  /\ drain \in 1 .. drain /\ b.id = drain /\ Launched(drain) /\ ~Over(drain)
         /\ b.seq = drains[drain].seq /\ seen["DtoM"] < b.seq
         /\ b \in ToSet(CollatedFrameRing) =>
              b.id = MarkerInCodedFrameIndex /\ NextBufferSequenceNumber <= b.seq
  <1>1. /\ drain \in Nat /\ seen["DtoM"] \in Nat /\ seen["PostM"] \in Nat
        /\ NextBufferSequenceNumber \in Nat
        /\ \A d \in 1 .. drain : drains[d].seq \in Nat
    BY Others
  <1>2. /\ MarkerOf(b)
        /\ b \in ToSet(CollatedFrameRing) =>
              b.id = MarkerInCodedFrameIndex /\ NextBufferSequenceNumber <= b.seq
    <2>1. CASE b \in ToSet(CollatedFrameRing)
      <3>1. PICK i \in 1 .. Len(CollatedFrameRing) : CollatedFrameRing[i] = b
        BY <2>1, Rings, Holding
      <3>2. /\ MarkerOf(b) /\ b.id = MarkerInCodedFrameIndex
            /\ NextBufferSequenceNumber + i - 1 <= b.seq
        BY <3>1 DEF Markers
      <3>3. i \in Nat /\ i >= 1 /\ b.seq \in Nat
        BY <3>1, <3>2, <1>1, Rings, Holding DEF MarkerOf
      <3> QED BY <3>2, <3>3, <1>1
    <2>2. CASE b \notin ToSet(CollatedFrameRing)
      BY <2>2 DEF Markers
    <2> QED BY <2>1, <2>2
  <1>3. b.id \in 1 .. drain /\ Launched(b.id) /\ b.seq = drains[b.id].seq
    BY <1>2 DEF MarkerOf
  <1>4. seen["DtoM"] < b.seq
    <2>1. CASE b \in ToSet(CollatedFrameRing)
      <3>1. seen["DtoM"] < NextBufferSequenceNumber
        BY DEF Order
      <3> QED BY <1>1, <1>2, <1>3, <2>1, <3>1
    <2>2. CASE b \in Numbered
      BY <2>2 DEF Order, IsNumbered
    <2> QED BY <2>1, <2>2
  <1>5. seen["PostM"] <= seen["DtoM"]
    BY DEF Event
  <1>6. ~Over(b.id)
    <2>1. Over(b.id) => drains[b.id].seq <= seen["PostM"]
      BY <1>3 DEF Status
    <2> QED BY <2>1, <1>1, <1>3, <1>4, <1>5
  <1>7. b.id = drain
    BY <1>1, <1>3, <1>6 DEF Over
  <1> QED BY <1>1, <1>2, <1>3, <1>4, <1>6, <1>7

\* What has been seen only grows.
LEMMA SeesMore ==
  ASSUME TypeOK, [Next]_vars
  PROVE  seen["PostM"] <= seen'["PostM"] /\ seen["DtoM"] <= seen'["DtoM"]
  <1>1. seen["DtoM"] \in Nat /\ seen["PostM"] \in Nat
        /\ seen \in [{"DtoM", "PostM"} -> Nat]
    BY Others DEF TypeOK
  <1>2. ASSUME NEW stage \in {"DtoM", "PostM"}, NEW value \in Nat, Sees(stage, value)
        PROVE  seen["PostM"] <= seen'["PostM"] /\ seen["DtoM"] <= seen'["DtoM"]
    <2>1. seen' = [seen EXCEPT ![stage] = IF value > seen[stage] THEN value
                                          ELSE seen[stage]]
      BY <1>2 DEF Sees
    <2> QED BY <2>1, <1>1
  <1>3. CASE DtoMFrame \/ DtoMMarker
    <2>1. /\ DecodedFrameRing # << >>
          /\ Sees("DtoM", Head(DecodedFrameRing).seq)
      BY <1>3 DEF DtoMFrame, DtoMMarker
    <2>2. Head(DecodedFrameRing) \in Of(Kinds)
      BY <2>1, Rings, Tailed
    <2>3. Head(DecodedFrameRing).seq \in Nat
      BY <2>2 DEF Of
    <2> QED BY <2>1, <2>3, <1>2
  <1>4. CASE PostMTake
    <2>1. /\ ManifestedBufferRing # << >>
          /\ Sees("PostM", Head(ManifestedBufferRing).seq)
      BY <1>4 DEF PostMTake
    <2>2. Head(ManifestedBufferRing) \in Of(Kinds)
      BY <2>1, Rings, Tailed
    <2>3. Head(ManifestedBufferRing).seq \in Nat
      BY <2>2 DEF Of
    <2> QED BY <2>1, <2>3, <1>2
  <1>5. CASE ~(DtoMFrame \/ DtoMMarker \/ PostMTake)
    <2>1. UNCHANGED seen
      BY <1>5
      DEF Next, CtoP, PtoD, Callback, DtoM, PostM, Drain, vars, processes,
          Inject, CtoPMarker, CtoPFrame, PtoDFrame, PtoDMarker,
          PtoDMarkerTest, MarkerInput,
          TestMarkerFramePassOn, DecodeCompletes, CallbackCounts,
          DtoMMarkerClear, DtoMCall, Show, PostMCall, DrainBegins,
          DrainFlushes, DrainChecks, DrainNumbers, DrainLaunches, DrainCalls,
          DrainWaits
    <2> QED BY <2>1, <1>1
  <1> QED BY <1>3, <1>4, <1>5

\* Where the drain is after each of its steps.
LEMMA DrainGoes ==
  ASSUME OneAtATime, TypeOK, Status, [Next]_vars
  PROVE  \/ UNCHANGED drainer
         \/ DrainBegins
         \/ DrainFlushes /\ drainer.at = "flush" /\ drainer'.at = "check"
         \/ DrainChecks /\ drainer.at = "check" /\ drainer'.at = "number"
         \/ DrainNumbers /\ drainer.at = "number" /\ drainer'.at = "launch"
         \/ DrainLaunches /\ drainer.at = "launch" /\ drainer'.at = "reset"
         \/ DrainCalls /\ drainer.at = "reset" /\ drainer'.at = "event"
         \/ DrainCalls /\ drainer.at = "event" /\ drainer'.at = "wait"
         \/ DrainWaits
  <1>1. \A place : Goes(place) => drainer'.at = place
    BY DEF Goes, TypeOK
  <1>2. drainer.nonBlocking = FALSE
    BY DEF TypeOK
  <1>3. CASE DrainFlushes
    BY <1>1, <1>3 DEF DrainFlushes
  <1>4. CASE DrainChecks
    <2>1. drainer'.at = "number"
      BY <1>4, ChecksAndGoesOn DEF TypeOK
    <2> QED BY <1>4, <2>1 DEF DrainChecks
  <1>5. CASE DrainNumbers
    BY <1>1, <1>5 DEF DrainNumbers
  <1>6. CASE DrainLaunches
    BY <1>1, <1>6 DEF DrainLaunches
  <1>7. CASE DrainCalls
    BY <1>1, <1>2, <1>7 DEF DrainCalls
  <1>8. CASE ~(DrainBegins \/ Drain)
    BY <1>8
    DEF Next, CtoP, PtoD, Callback, DtoM, PostM, Drain, vars,
        Inject, CtoPMarker, CtoPFrame, PtoDFrame, PtoDMarker,
        PtoDMarkerTest, MarkerInput,
        TestMarkerFramePassOn, DecodeCompletes, CallbackCounts, DtoMFrame,
        DtoMMarker, DtoMMarkerClear, DtoMCall, Show, PostMTake, PostMCall
  <1> QED BY <1>3, <1>4, <1>5, <1>6, <1>7, <1>8 DEF Drain

\* Status is kept: a step of the calling thread takes its drain one place on.
LEMMA StatusStep ==
  ASSUME OneAtATime, TypeOK, Status, Event, Order, Markers, [Next]_vars
  PROVE  Status'
  <1>1. seen["PostM"] <= seen'["PostM"] /\ seen["PostM"] \in Nat
          /\ seen'["PostM"] \in Nat
    BY SeesMore, TypeStep, Others, OneAtATime DEF TypeOK
  <1>2. /\ drain \in Nat /\ frames \in Nat /\ frames < Never /\ Never \in Nat
        /\ \A d \in 1 .. drain : drains[d].seq \in Nat
    BY Others
  <1>3. frames <= frames' /\ frames' \in Nat
    <2>1. frames' = frames \/ frames' = frames + 1
      BY DEF Next, CtoP, PtoD, Callback, DtoM, PostM, Drain, vars, input,
          Inject, CtoPMarker, CtoPFrame, PtoDFrame, PtoDMarker,
          PtoDMarkerTest, MarkerInput,
          TestMarkerFramePassOn, DecodeCompletes, CallbackCounts, DtoMFrame,
          DtoMMarker, DtoMMarkerClear, DtoMCall, Show, PostMTake, PostMCall,
          DrainBegins, DrainFlushes, DrainChecks, DrainNumbers, DrainLaunches,
          DrainCalls, DrainWaits
    <2> QED BY <2>1, <1>2
  <1>4. \/ MarkerInCodedFrameIndex' = MarkerInCodedFrameIndex
        \/ MarkerInCodedFrameIndex' = INVALID
        \/ DrainLaunches
    BY DEF Next, CtoP, PtoD, Callback, DtoM, PostM, Drain, vars, player,
          Inject, CtoPMarker, CtoPFrame, PtoDFrame, PtoDMarker,
          PtoDMarkerTest, MarkerInput,
          TestMarkerFramePassOn, DecodeCompletes, CallbackCounts, DtoMFrame,
          DtoMMarker, DtoMMarkerClear, DtoMCall, Show, PostMTake, PostMCall,
          DrainBegins, DrainFlushes, DrainChecks, DrainNumbers,
          DrainCalls, DrainWaits
  <1>5. /\ drainer.at # "idle" => drain > 0
        /\ drainer.at = "flush" => drains[drain].discard
        /\ MarkerInCodedFrameIndex # INVALID =>
             drainer.at \in {"reset", "event", "wait"}
    BY DEF Status
  <1>6. \A d \in 1 .. drain :
          /\ Over(d) => drains[d].back # Never /\ drains[d].seq <= seen["PostM"]
          /\ ~Over(d) => drains[d].back = Never
          /\ Launched(d) <=> Over(d) \/ drainer.at \in {"reset", "event", "wait"}
          /\ Launched(d) => drains[d].behind <= frames
    BY DEF Status
  <1>7. CASE UNCHANGED drains /\ ~DrainBegins /\ ~DrainWaits /\ ~DrainLaunches
    <2>1. \/ drainer'.at = drainer.at
          \/ drainer.at = "flush" /\ drainer'.at = "check"
          \/ drainer.at = "check" /\ drainer'.at = "number"
          \/ drainer.at = "number" /\ drainer'.at = "launch"
          \/ drainer.at = "reset" /\ drainer'.at = "event"
          \/ drainer.at = "event" /\ drainer'.at = "wait"
      BY <1>7, DrainGoes
    <2>2. drain' = drain /\ drains' = drains
      BY <1>7 DEF drain
    <2>3. \A d \in 1 .. drain : (Over(d) <=> Over(d)') /\ (Launched(d) <=> Launched(d)')
      BY <2>1, <2>2 DEF Over, Launched
    <2>4. \A d \in 1 .. drain :
          /\ Over(d)' => drains'[d].back # Never /\ drains'[d].seq <= seen'["PostM"]
          /\ ~Over(d)' => drains'[d].back = Never
          /\ Launched(d)' <=> Over(d)' \/ drainer'.at \in {"reset", "event", "wait"}
          /\ Launched(d)' => drains'[d].behind <= frames'
      <3> SUFFICES ASSUME NEW d \in 1 .. drain
                   PROVE  /\ Over(d)' => drains'[d].back # Never
                                           /\ drains'[d].seq <= seen'["PostM"]
                          /\ ~Over(d)' => drains'[d].back = Never
                          /\ Launched(d)' <=> Over(d)' \/ drainer'.at \in {"reset", "event", "wait"}
                          /\ Launched(d)' => drains'[d].behind <= frames'
        OBVIOUS
      <3>1. Over(d)' => drains'[d].back # Never /\ drains'[d].seq <= seen'["PostM"]
        BY <1>1, <1>2, <1>6, <2>2, <2>3
      <3>2. ~Over(d)' => drains'[d].back = Never
        BY <1>6, <2>2, <2>3
      <3>3. Launched(d)' <=> Over(d)' \/ drainer'.at \in {"reset", "event", "wait"}
        BY <1>6, <2>1, <2>3
      <3>4. Launched(d)' => drains'[d].behind <= frames'
        <4>1. Launched(d)' => drains[d].behind <= frames /\ drains'[d] = drains[d]
          BY <1>6, <2>2, <2>3
        <4>2. drains[d].behind \in Nat
          BY Others
        <4> QED BY <1>2, <1>3, <4>1, <4>2
      <3> QED BY <3>1, <3>2, <3>3, <3>4
    <2>5. MarkerInCodedFrameIndex' # INVALID => drainer'.at \in {"reset", "event", "wait"}
      BY <1>4, <1>5, <1>7, <2>1
    <2>6. /\ drainer'.at # "idle" => drain' > 0
          /\ drainer'.at = "flush" => drains'[drain'].discard
      BY <1>5, <2>1, <2>2
    <2> QED BY <2>2, <2>4, <2>5, <2>6 DEF Status, Never
  <1>8. CASE DrainBegins
    <2>1. /\ drain' = drain + 1
          /\ \A d \in 1 .. drain : drains'[d] = drains[d]
          /\ drains'[drain + 1].behind = Never /\ drains'[drain + 1].back = Never
          /\ drainer'.at \in {"flush", "check"}
          /\ drainer'.at = "flush" => drains'[drain + 1].discard
      BY <1>8, Begins
    <2>2. drainer.at = "idle" /\ frames' = frames /\ seen' = seen
          /\ MarkerInCodedFrameIndex' = MarkerInCodedFrameIndex
      BY <1>8 DEF DrainBegins, processes
    <2>3. \A d \in 1 .. drain : Over(d) /\ Over(d)' /\ Launched(d)'
      BY <1>2, <1>6, <2>1, <2>2 DEF Over, Launched
    <2>5. ASSUME NEW d \in 1 .. drain'
          PROVE  /\ Over(d)' => drains'[d].back # Never /\ drains'[d].seq <= seen'["PostM"]
                 /\ ~Over(d)' => drains'[d].back = Never
                 /\ Launched(d)' <=> Over(d)' \/ drainer'.at \in {"reset", "event", "wait"}
                 /\ Launched(d)' => drains'[d].behind <= frames'
      <3>1. CASE d \in 1 .. drain
        BY <3>1, <1>6, <2>1, <2>2, <2>3
      <3>2. CASE d = drain + 1
        <4>1. ~Over(d)' /\ ~Launched(d)'
          BY <3>2, <1>2, <2>1 DEF Over, Launched, Never
        <4> QED BY <3>2, <4>1, <2>1
      <3> QED BY <3>1, <3>2, <1>2, <2>1
    <2>6. MarkerInCodedFrameIndex' = INVALID
      BY <1>5, <2>2
    <2>7. drain' > 0
      BY <1>2, <2>1
    <2> QED BY <2>1, <2>5, <2>6, <2>7 DEF Status, Never
  <1>9. CASE DrainNumbers
    <2>1. /\ drain \in 1 .. drain /\ drain' = drain
          /\ \A d \in 1 .. drain : d # drain => drains'[d] = drains[d]
          /\ drains'[drain].behind = drains[drain].behind
          /\ drains'[drain].back = drains[drain].back
      BY <1>9, Numbers
    <2>2. drainer.at = "number" /\ drainer'.at = "launch" /\ frames' = frames
          /\ seen' = seen /\ MarkerInCodedFrameIndex' = MarkerInCodedFrameIndex
      BY <1>9 DEF DrainNumbers, processes, player, Goes, TypeOK
    <2>3. \A d \in 1 .. drain : (Over(d) <=> Over(d)') /\ (Launched(d) <=> Launched(d)')
      BY <2>1, <2>2 DEF Over, Launched
    <2>4. ~Over(drain)
      BY <1>2, <2>2 DEF Over
    <2>5. ASSUME NEW d \in 1 .. drain'
          PROVE  /\ Over(d)' => drains'[d].back # Never /\ drains'[d].seq <= seen'["PostM"]
                 /\ ~Over(d)' => drains'[d].back = Never
                 /\ Launched(d)' <=> Over(d)' \/ drainer'.at \in {"reset", "event", "wait"}
                 /\ Launched(d)' => drains'[d].behind <= frames'
      <3>1. CASE d = drain
        BY <3>1, <1>6, <2>1, <2>2, <2>3, <2>4
      <3>2. CASE d # drain
        BY <3>2, <1>6, <2>1, <2>2, <2>3
      <3> QED BY <3>1, <3>2
    <2>6. MarkerInCodedFrameIndex' = INVALID
      BY <1>5, <2>2
    <2>7. drain' > 0
      BY <1>2, <2>1
    <2> QED BY <2>2, <2>5, <2>6, <2>7 DEF Status, Never
  <1>10. CASE DrainLaunches
    <2>1. /\ drain \in 1 .. drain /\ drain' = drain
          /\ \A d \in 1 .. drain : d # drain => drains'[d] = drains[d]
          /\ drains'[drain].behind = frames
          /\ drains'[drain].back = drains[drain].back
      BY <1>10, Launches
    <2>2. drainer.at = "launch" /\ drainer'.at = "reset" /\ frames' = frames
          /\ seen' = seen
      BY <1>10 DEF DrainLaunches, processes, player, Goes, TypeOK
    <2>3. \A d \in 1 .. drain :
            (Over(d) <=> Over(d)') /\ (d # drain => (Launched(d) <=> Launched(d)'))
      BY <2>1, <2>2 DEF Over, Launched
    <2>4. ~Over(drain) /\ Launched(drain)'
      BY <1>2, <2>1, <2>2 DEF Over, Launched, Never
    <2>5. ASSUME NEW d \in 1 .. drain'
          PROVE  /\ Over(d)' => drains'[d].back # Never /\ drains'[d].seq <= seen'["PostM"]
                 /\ ~Over(d)' => drains'[d].back = Never
                 /\ Launched(d)' <=> Over(d)' \/ drainer'.at \in {"reset", "event", "wait"}
                 /\ Launched(d)' => drains'[d].behind <= frames'
      <3>1. CASE d = drain
        BY <3>1, <1>2, <1>6, <2>1, <2>2, <2>3, <2>4
      <3>2. CASE d # drain
        <4>1. Over(d) /\ Over(d)'
          BY <3>2, <1>2, <2>1, <2>3 DEF Over
        <4> QED BY <4>1, <3>2, <1>6, <2>1, <2>2, <2>3
      <3> QED BY <3>1, <3>2
    <2>7. drain' > 0
      BY <1>2, <2>1
    <2> QED BY <2>2, <2>5, <2>7 DEF Status, Never
  <1>11. CASE DrainWaits
    <2>1. /\ drain \in 1 .. drain /\ drain' = drain
          /\ drainer.at = "wait" /\ Drained /\ drainer'.at = "idle"
          /\ \A d \in 1 .. drain : d # drain => drains'[d] = drains[d]
          /\ drains'[drain].back = frames
          /\ drains'[drain].seq = drains[drain].seq
          /\ drains'[drain].behind = drains[drain].behind
      BY <1>11, ReturnsAtLast
    <2>2. frames' = frames /\ seen' = seen
          /\ MarkerInCodedFrameIndex' = MarkerInCodedFrameIndex
      BY <1>11 DEF DrainWaits, processes, player
    <2>3. \A d \in 1 .. drain : Over(d)' /\ (Launched(d) <=> Launched(d)')
      BY <2>1 DEF Over, Launched
    <2>4. drains[drain].seq <= seen["PostM"]
      BY <2>1 DEF Event, DrainSequenceNumber
    <2>5. ASSUME NEW d \in 1 .. drain'
          PROVE  /\ Over(d)' => drains'[d].back # Never /\ drains'[d].seq <= seen'["PostM"]
                 /\ ~Over(d)' => drains'[d].back = Never
                 /\ Launched(d)' <=> Over(d)' \/ drainer'.at \in {"reset", "event", "wait"}
                 /\ Launched(d)' => drains'[d].behind <= frames'
      <3>1. CASE d = drain
        BY <3>1, <1>2, <1>6, <2>1, <2>2, <2>3, <2>4
      <3>2. CASE d # drain
        <4>1. Over(d)
          BY <3>2, <1>2, <2>1 DEF Over
        <4> QED BY <4>1, <3>2, <1>6, <2>1, <2>2, <2>3
      <3> QED BY <3>1, <3>2
    <2>6. MarkerInCodedFrameIndex' = INVALID
      <3> SUFFICES ASSUME MarkerInCodedFrameIndex # INVALID
                   PROVE  FALSE
        BY <2>2
      <3>1. PICK b \in ToSet(CollatedFrameRing) : b.kind = "marker"
        BY DEF Markers, HasMarker
      <3>2. seen["DtoM"] < drains[drain].seq
        BY <3>1, LastMarker
      <3>3. seen["PostM"] <= seen["DtoM"] /\ seen["DtoM"] \in Nat
        BY Others DEF Event
      <3> QED BY <3>2, <3>3, <2>1, <2>4, <1>1, <1>2
    <2>7. drain' > 0
      BY <1>2, <2>1
    <2> QED BY <2>1, <2>5, <2>6, <2>7 DEF Status, Never
  <1> QED
    BY <1>7, <1>8, <1>9, <1>10, <1>11, OtherSteps

\* What a buffer that comes by does to the number seen and to the table.
LEMMA SeesIs ==
  ASSUME TypeOK, NEW value \in Nat,
         NEW stage \in {"DtoM", "PostM"}, NEW other \in {"DtoM", "PostM"},
         stage # other, Sees(stage, value)
  PROVE  /\ seen'[stage] = (IF value > seen[stage] THEN value ELSE seen[stage])
         /\ value <= seen'[stage] /\ seen[stage] <= seen'[stage]
         /\ seen'[stage] \in Nat /\ seen'[other] = seen[other]
         /\ messages'[stage] = {m \in messages[stage] : ~(m.seq <= value)}
         /\ messages'[other] = messages[other]
  <1>1. /\ seen \in [{"DtoM", "PostM"} -> Nat]
        /\ messages \in [{"DtoM", "PostM"} -> SUBSET Of({"reset", "drained"})]
    BY DEF TypeOK
  <1>2. /\ seen' = [seen EXCEPT ![stage] = IF value > seen[stage] THEN value
                                           ELSE seen[stage]]
        /\ messages' = [messages EXCEPT ![stage] =
                          messages[stage] \ Due(stage, value)]
    BY DEF Sees
  <1>3. /\ seen'[stage] = (IF value > seen[stage] THEN value ELSE seen[stage])
        /\ seen'[other] = seen[other] /\ seen[stage] \in Nat
        /\ messages'[stage] = messages[stage] \ Due(stage, value)
        /\ messages'[other] = messages[other]
    BY <1>1, <1>2
  <1>4. messages[stage] \ Due(stage, value) = {m \in messages[stage] : ~(m.seq <= value)}
    BY DEF Due
  <1> QED BY <1>3, <1>4

\* Event is kept: one message at a time, and it is the last drain's.
LEMMA EventStep ==
  ASSUME OneAtATime, TypeOK, Status, Event, [Next]_vars
  PROVE  Event'
  <1> DEFINE M == ManifestedBufferRing
             last == Buffer("drained", drain, DrainSequenceNumber)
  <1>0. TypeOK'
    BY TypeStep
  <1>1. /\ drainer.at \in {"reset", "event"} => ~Drained
        /\ drainer.at = "wait" /\ Drained => DrainSequenceNumber <= seen["PostM"]
        /\ \A m \in messages["PostM"] : drainer.at = "wait" /\ ~Drained /\ m = last
        /\ seen["PostM"] <= seen["DtoM"]
        /\ \A b \in ToSet(M) \cup ToSet(shown) : b.kind # "drained" => b.seq <= seen["DtoM"]
    BY DEF Event
  <1>2. \A i \in 1 .. Len(M) : M[i].kind = "drained" =>
          /\ drainer.at = "wait" /\ ~Drained /\ messages["PostM"] = {}
          /\ M[i] = last
          /\ \A j \in 1 .. Len(M) : M[j].kind = "drained" => i = j
    BY DEF Event
  <1>3. /\ seen["DtoM"] \in Nat /\ seen["PostM"] \in Nat /\ drain \in Nat
        /\ M \in Seq(Of(Kinds)) /\ Len(M) \in Nat
        /\ shown \in Seq(Of(Kinds)) /\ \A b \in ToSet(shown) : b.kind = "frame"
        /\ \A i \in 1 .. Len(M) : M[i] \in Of(Kinds) /\ M[i] \in ToSet(M)
    BY Others, Rings, Holding
  <1>4. /\ M' \in Seq(Of(Kinds)) /\ Len(M') \in Nat
        /\ \A i \in 1 .. Len(M') : M'[i] \in Of(Kinds) /\ M'[i] \in ToSet(M')
    <2>1. /\ M' \in Seq(Of({"frame", "marker", "drained"}))
          /\ {"frame", "marker", "drained"} \in SUBSET Kinds
      BY <1>0 DEF TypeOK, Kinds
    <2>2. M' \in Seq(Of(Kinds))
      BY <2>1, RingIs
    <2> QED BY <2>2, Holding
  <1>5. \A b : b \in Of(Kinds) => b.seq \in Nat /\ b.id \in Nat
    BY DEF Of
  <1>u. CASE UNCHANGED <<drainer, Drained, drains, seen, messages["PostM"],
                         ManifestedBufferRing, shown>>
    BY <1>u, <1>1, <1>2 DEF Event, drain, DrainSequenceNumber
  <1>6. CASE \/ DrainBegins \/ DrainChecks \/ DrainNumbers
             \/ DrainLaunches \/ DrainWaits
    <2>1. UNCHANGED <<seen, messages, ManifestedBufferRing, shown>>
      BY <1>6 DEF DrainBegins, DrainChecks, DrainNumbers, DrainLaunches,
                  DrainWaits, rings, processes
    <2>2. drainer.at # "wait" \/ Drained
      BY <1>6, ReturnsAtLast
      DEF DrainBegins, DrainChecks, DrainNumbers, DrainLaunches
    <2>3. messages["PostM"] = {} /\ \A i \in 1 .. Len(M) : M[i].kind # "drained"
      BY <2>2, <1>1, <1>2
    <2>4. drainer'.at # "wait"
          /\ (drainer'.at \in {"reset", "event"} => ~Drained')
      <3>1. CASE DrainLaunches
        BY <3>1 DEF DrainLaunches, Goes, TypeOK
      <3>2. CASE DrainBegins
        BY <3>2, Begins
      <3>3. CASE DrainWaits
        BY <3>3, ReturnsAtLast
      <3>4. CASE DrainChecks
        BY <3>4, ChecksAndGoesOn DEF TypeOK
      <3>5. CASE DrainNumbers
        BY <3>5 DEF DrainNumbers, Goes, TypeOK
      <3> QED BY <1>6, <3>1, <3>2, <3>3, <3>4, <3>5
    <2>5. \A i \in 1 .. Len(M') : M'[i].kind # "drained"
      BY <2>1, <2>3
    <2>6. /\ seen'["PostM"] <= seen'["DtoM"] /\ messages'["PostM"] = {}
          /\ \A b \in ToSet(M') \cup ToSet(shown') : b.kind # "drained" => b.seq <= seen'["DtoM"]
      BY <2>1, <2>3, <1>1
    <2> HIDE DEF last
    <2> QED BY <2>4, <2>5, <2>6 DEF Event
  <1>7. CASE DrainFlushes
    <2>1. /\ drainer.at = "flush" /\ drainer'.at = "check"
          /\ M' = M \o shown /\ shown' = << >>
          /\ UNCHANGED <<seen, messages>>
      BY <1>7 DEF DrainFlushes, Goes, TypeOK, processes
    <2>2. messages["PostM"] = {} /\ \A b \in ToSet(M) : b.kind # "drained"
      BY <2>1, <1>1, <1>2, <1>3, Holding
    <2>3. ToSet(M') = ToSet(M) \cup ToSet(shown) /\ ToSet(shown') = {}
      <3>1. ToSet(M \o shown) = ToSet(M) \cup ToSet(shown)
        BY <1>3, Joined
      <3>2. shown' \in Seq(Of(Kinds)) /\ Len(shown') = 0
        BY <2>1, <1>0, Rings
      <3>3. ToSet(shown') = {}
        BY <2>1 DEF ToSet
      <3> QED BY <2>1, <3>1, <3>3
    <2>4. \A i \in 1 .. Len(M') : M'[i].kind # "drained"
      BY <2>2, <2>3, <1>3, <1>4
    <2>5. \A b \in ToSet(M') \cup ToSet(shown') : b.kind # "drained" => b.seq <= seen'["DtoM"]
      BY <2>1, <2>3, <1>1
    <2> HIDE DEF last
    <2> QED BY <2>1, <2>2, <2>4, <2>5, <1>1 DEF Event
  <1>8. CASE DrainCalls
    <2>1. /\ drainer.at # "wait"
          /\ UNCHANGED <<seen, messages, drains, Drained, shown>>
      BY <1>8 DEF DrainCalls, player, processes, input
    <2>2. messages["PostM"] = {} /\ \A i \in 1 .. Len(M) : M[i].kind # "drained"
      BY <2>1, <1>1, <1>2
    <2>3. CASE drainer.at = "reset"
      <3>1. UNCHANGED ManifestedBufferRing /\ drainer'.at = "event"
        BY <2>3, <1>8 DEF DrainCalls, Goes, TypeOK
      <3>2. ~Drained'
        BY <2>1, <2>3, <1>1
      <3>3. \A i \in 1 .. Len(M') : M'[i].kind # "drained"
        BY <3>1, <2>2
      <3>4. \A b \in ToSet(M') \cup ToSet(shown') : b.kind # "drained" => b.seq <= seen'["DtoM"]
        BY <2>1, <3>1, <1>1
      <3> HIDE DEF last
      <3> QED BY <2>1, <2>2, <3>1, <3>2, <3>3, <3>4, <1>1 DEF Event
    <2>4. CASE drainer.at = "event"
      <3>1. M' = Append(M, last) /\ drainer'.at = "wait"
        BY <2>4, <1>8 DEF DrainCalls, Goes, TypeOK
      <3>2. ~Drained'
        BY <2>1, <2>4, <1>1
      <3>3. drain > 0 /\ DrainSequenceNumber \in Nat
        BY <2>4, Others DEF Status, DrainSequenceNumber
      <3>4. last \in Of(Kinds) /\ last.kind = "drained"
        BY <3>3, <1>3, BufferIs DEF Of, Kinds
      <3>5. /\ Len(M') = Len(M) + 1 /\ M'[Len(M) + 1] = last
            /\ \A i \in 1 .. Len(M) : M'[i] = M[i]
            /\ ToSet(M') = ToSet(M) \cup {last}
        <4> HIDE DEF last
        <4> QED BY <3>1, <3>4, <1>3, Appended
      <3>6. last' = last
        BY <2>1 DEF drain, DrainSequenceNumber
      <3>7. \A i \in 1 .. Len(M') : M'[i].kind = "drained" => i = Len(M) + 1
        BY <3>5, <2>2, <1>3
      <3>8. \A b \in ToSet(M') \cup ToSet(shown') : b.kind # "drained" => b.seq <= seen'["DtoM"]
        <4> HIDE DEF last
        <4> QED BY <2>1, <3>4, <3>5, <1>1
      <3>9. \A i \in 1 .. Len(M') : M'[i].kind = "drained" =>
          /\ drainer'.at = "wait" /\ ~Drained' /\ messages'["PostM"] = {}
          /\ M'[i] = last'
          /\ \A j \in 1 .. Len(M') : M'[j].kind = "drained" => i = j
        <4> HIDE DEF last
        <4> QED BY <2>1, <2>2, <3>1, <3>2, <3>5, <3>6, <3>7
      <3> QED
        BY <2>1, <2>2, <3>1, <3>2, <3>8, <3>9, <1>1 DEF Event
    <2> QED BY <2>3, <2>4, <1>8 DEF DrainCalls
  <1>9. CASE DtoMFrame
    <2> DEFINE b == Head(DecodedFrameRing)
    <2>1. /\ b \in Of(Kinds) /\ Sees("DtoM", b.seq)
          /\ shown' = shown \/ shown' = Append(shown, b)
      BY <1>9, Rings, Tailed DEF DtoMFrame
    <2>2. b.seq \in Nat
      BY <2>1, <1>5
    <2>3. /\ b.seq <= seen'["DtoM"] /\ seen["DtoM"] <= seen'["DtoM"]
          /\ seen'["PostM"] = seen["PostM"] /\ messages'["PostM"] = messages["PostM"]
          /\ seen'["DtoM"] \in Nat
      BY <2>1, <2>2, SeesIs
    <2>4. UNCHANGED <<drainer, Drained, drains, ManifestedBufferRing>>
      BY <1>9 DEF DtoMFrame, player
    <2>5. ToSet(shown') \subseteq ToSet(shown) \cup {b}
      <3>1. shown' = Append(shown, b) => ToSet(shown') = ToSet(shown) \cup {b}
        BY <2>1, <1>3, Appended
      <3> QED BY <2>1, <3>1
    <2>6. \A x \in ToSet(M') \cup ToSet(shown') : x.kind # "drained" => x.seq <= seen'["DtoM"]
      <3> HIDE DEF b
      <3>1. \A x \in ToSet(M) \cup ToSet(shown) : x.seq \in Nat
        BY <1>3, <1>5, Holding
      <3> QED BY <2>3, <2>4, <2>5, <3>1, <1>1, <1>3
    <2>7. seen'["PostM"] <= seen'["DtoM"]
      BY <2>3, <1>1, <1>3
    <2> QED BY <2>3, <2>4, <2>6, <2>7, <1>1, <1>2 DEF Event, drain, DrainSequenceNumber
  <1>10. CASE DtoMMarker
    <2> DEFINE b == Head(DecodedFrameRing)
    <2>1. /\ b \in Of(Kinds) /\ Sees("DtoM", b.seq) /\ b.kind = "marker"
          /\ M' = Append(M, b)
      BY <1>10, Rings, Tailed DEF DtoMMarker
    <2>2. b.seq \in Nat
      BY <2>1, <1>5
    <2>3. /\ b.seq <= seen'["DtoM"] /\ seen["DtoM"] <= seen'["DtoM"]
          /\ seen'["PostM"] = seen["PostM"] /\ messages'["PostM"] = messages["PostM"]
          /\ seen'["DtoM"] \in Nat
      BY <2>1, <2>2, SeesIs
    <2>4. UNCHANGED <<drainer, Drained, drains, shown>>
      BY <1>10 DEF DtoMMarker, player
    <2>5. /\ ToSet(M') = ToSet(M) \cup {b} /\ Len(M') = Len(M) + 1
          /\ M'[Len(M) + 1] = b /\ \A i \in 1 .. Len(M) : M'[i] = M[i]
      <3> HIDE DEF b
      <3> QED BY <2>1, <1>3, Appended
    <2>6. \A x \in ToSet(M') \cup ToSet(shown') : x.kind # "drained" => x.seq <= seen'["DtoM"]
      <3> HIDE DEF b
      <3>1. \A x \in ToSet(M) \cup ToSet(shown) : x.seq \in Nat
        BY <1>3, <1>5, Holding
      <3> QED BY <2>3, <2>4, <2>5, <3>1, <1>1, <1>3
    <2>7. seen'["PostM"] <= seen'["DtoM"]
      BY <2>3, <1>1, <1>3
    <2>8. \A i \in 1 .. Len(M') : M'[i].kind = "drained" =>
            i \in 1 .. Len(M) /\ M'[i] = M[i]
      <3> HIDE DEF b
      <3> QED BY <2>1, <2>5, <1>3
    <2>9. last' = last
      BY <2>4 DEF drain, DrainSequenceNumber
    <2>10. \A i \in 1 .. Len(M') : M'[i].kind = "drained" =>
          /\ drainer'.at = "wait" /\ ~Drained' /\ messages'["PostM"] = {}
          /\ M'[i] = last'
          /\ \A j \in 1 .. Len(M') : M'[j].kind = "drained" => i = j
      <3> HIDE DEF last, b
      <3> QED BY <2>3, <2>4, <2>8, <2>9, <1>2
    <2> QED
      BY <2>3, <2>4, <2>6, <2>7, <2>10, <1>1
      DEF Event, drain, DrainSequenceNumber
  <1>11. CASE Show
    <2> DEFINE b == Head(shown)
    <2>1. /\ b \in Of(Kinds) /\ b \in ToSet(shown) /\ M' = Append(M, b)
          /\ ToSet(shown') \subseteq ToSet(shown)
      BY <1>11, <1>3, Tailed DEF Show
    <2>4. UNCHANGED <<drainer, Drained, drains, seen, messages>>
      BY <1>11 DEF Show, player, processes, input
    <2>5. /\ ToSet(M') = ToSet(M) \cup {b} /\ Len(M') = Len(M) + 1
          /\ M'[Len(M) + 1] = b /\ \A i \in 1 .. Len(M) : M'[i] = M[i]
      <3> HIDE DEF b
      <3> QED BY <2>1, <1>3, Appended
    <2>6. \A x \in ToSet(M') \cup ToSet(shown') : x.kind # "drained" => x.seq <= seen'["DtoM"]
      <3> HIDE DEF b
      <3> QED BY <2>1, <2>4, <2>5, <1>1
    <2>8. \A i \in 1 .. Len(M') : M'[i].kind = "drained" =>
            i \in 1 .. Len(M) /\ M'[i] = M[i]
      <3>1. b.kind = "frame"
        BY <2>1, <1>3
      <3> HIDE DEF b
      <3> QED BY <3>1, <2>5, <1>3
    <2>9. last' = last
      BY <2>4 DEF drain, DrainSequenceNumber
    <2>10. \A i \in 1 .. Len(M') : M'[i].kind = "drained" =>
          /\ drainer'.at = "wait" /\ ~Drained' /\ messages'["PostM"] = {}
          /\ M'[i] = last'
          /\ \A j \in 1 .. Len(M') : M'[j].kind = "drained" => i = j
      <3> HIDE DEF last, b
      <3> QED BY <2>4, <2>8, <2>9, <1>2
    <2> QED
      BY <2>4, <2>6, <2>10, <1>1
      DEF Event, drain, DrainSequenceNumber
  <1>t. ASSUME ManifestedBufferRing # << >>, M' = Tail(M)
        PROVE  /\ M[1] = Head(M) /\ Len(M) > 0 /\ Len(M') = Len(M) - 1
               /\ \A i \in 1 .. Len(M') : M'[i] = M[i + 1] /\ i + 1 \in 1 .. Len(M)
               /\ ToSet(M) = {Head(M)} \cup ToSet(M') /\ Head(M) \in Of(Kinds)
               /\ 1 \in 1 .. Len(M)
    BY <1>t, <1>3, Tailed
  <1>12. CASE PostMTake
    <2> DEFINE b == Head(ManifestedBufferRing)
    <2>1. /\ M # << >> /\ M' = Tail(M) /\ Sees("PostM", b.seq) /\ ~IsCall(b)
          /\ Drained' = (Drained \/ Due("PostM", b.seq) # {})
          /\ UNCHANGED <<drainer, drains, shown>>
      BY <1>12 DEF PostMTake, input
    <2>2. /\ b \in Of(Kinds) /\ b \in ToSet(M) /\ b.seq \in Nat
          /\ b.kind # "drained"
      BY <2>1, <1>t, <1>5 DEF IsCall
    <2>3. /\ b.seq <= seen'["PostM"] /\ seen["PostM"] <= seen'["PostM"]
          /\ seen'["DtoM"] = seen["DtoM"]
          /\ messages'["PostM"] = {m \in messages["PostM"] : ~(m.seq <= b.seq)}
          /\ seen'["PostM"] = (IF b.seq > seen["PostM"] THEN b.seq ELSE seen["PostM"])
      BY <2>1, <2>2, SeesIs
    <2>4. last' = last /\ DrainSequenceNumber' = DrainSequenceNumber
      BY <2>1 DEF drain, DrainSequenceNumber
    <2>5. seen'["PostM"] <= seen'["DtoM"]
      BY <2>2, <2>3, <1>1, <1>3
    <2>6. \A x \in ToSet(M') \cup ToSet(shown') : x.kind # "drained" => x.seq <= seen'["DtoM"]
      BY <2>1, <2>3, <1>1, <1>t
    <2>7. CASE Due("PostM", b.seq) = {}
      <3>1. Drained' <=> Drained
        BY <2>1, <2>7, Zenon
      <3>2. messages'["PostM"] = messages["PostM"]
        BY <2>3, <2>7 DEF Due
      <3>3. \A i \in 1 .. Len(M') : M'[i].kind = "drained" =>
            /\ drainer'.at = "wait" /\ ~Drained' /\ messages'["PostM"] = {}
            /\ M'[i] = last'
            /\ \A j \in 1 .. Len(M') : M'[j].kind = "drained" => i = j
        <4>0. /\ Len(M') = Len(M) - 1
              /\ \A i \in 1 .. Len(M') : M'[i] = M[i + 1] /\ i + 1 \in 1 .. Len(M)
          BY <2>1, <1>t
        <4> SUFFICES ASSUME NEW i \in 1 .. Len(M'), M'[i].kind = "drained"
                     PROVE  /\ drainer'.at = "wait" /\ ~Drained' /\ messages'["PostM"] = {}
                            /\ M'[i] = last'
                            /\ \A j \in 1 .. Len(M') : M'[j].kind = "drained" => i = j
          OBVIOUS
        <4>1. /\ drainer.at = "wait" /\ ~Drained /\ messages["PostM"] = {}
              /\ M[i + 1] = last
              /\ \A j \in 1 .. Len(M) : M[j].kind = "drained" => i + 1 = j
          BY <4>0, <1>2
        <4>2. \A j \in 1 .. Len(M') : M'[j].kind = "drained" => i = j
          <5> HIDE DEF last, b
          <5>1. \A j \in 1 .. Len(M') : M'[j].kind = "drained" => i + 1 = j + 1
            BY <4>0, <4>1
          <5> QED BY <5>1
        <4> HIDE DEF last, b
        <4> QED BY <4>0, <4>1, <4>2, <3>1, <3>2, <2>1, <2>4
      <3>4. drainer.at = "wait" /\ Drained => DrainSequenceNumber <= seen'["PostM"]
        <4>1. drainer.at = "wait" => drain \in 1 .. drain
          BY <1>3 DEF Status
        <4>2. drainer.at = "wait" => DrainSequenceNumber \in Nat
          BY <4>1, Others DEF DrainSequenceNumber
        <4>3. seen'["PostM"] \in Nat
          BY <2>2, <2>3, <1>3
        <4> QED BY <1>1, <1>3, <2>3, <4>2, <4>3
      <3>5. /\ drainer'.at \in {"reset", "event"} => ~Drained'
            /\ \A m \in messages'["PostM"] : drainer'.at = "wait" /\ ~Drained' /\ m = last'
        <4> HIDE DEF last
        <4> QED BY <3>1, <3>2, <2>1, <2>4, <1>1
      <3> QED
        BY <3>1, <3>3, <3>4, <3>5, <2>1, <2>4, <2>5, <2>6 DEF Event
    <2>8. CASE Due("PostM", b.seq) # {}
      <3>1. PICK m \in messages["PostM"] : m.seq <= b.seq
        BY <2>8 DEF Due
      <3>2. /\ drainer.at = "wait" /\ ~Drained /\ m = last
            /\ \A n \in messages["PostM"] : n = m
        BY <3>1, <1>1
      <3>3. drain \in 1 .. drain /\ DrainSequenceNumber \in Nat
        BY <3>2, <1>3, Others DEF Status, DrainSequenceNumber
      <3>4. m.seq = DrainSequenceNumber
        BY <3>2, <3>3 DEF Buffer
      <3>5. messages'["PostM"] = {}
        BY <3>1, <3>2, <2>3
      <3>6. \A i \in 1 .. Len(M') : M'[i].kind # "drained"
        BY <3>1, <2>1, <1>t, <1>2
      <3>7. DrainSequenceNumber' <= seen'["PostM"]
        <4>1. seen'["PostM"] \in Nat
          BY <2>2, <2>3, <1>3
        <4> QED BY <4>1, <3>1, <3>3, <3>4, <2>2, <2>3, <2>4
      <3>8. drainer'.at = "wait"
        BY <3>2, <2>1
      <3> HIDE DEF last
      <3> QED BY <3>5, <3>6, <3>7, <3>8, <2>5, <2>6 DEF Event
    <2> QED BY <2>7, <2>8
  <1>13. CASE PostMCall
    <2> DEFINE m == Head(ManifestedBufferRing)
    <2>1. /\ M # << >> /\ M' = Tail(M) /\ IsCall(m)
          /\ UNCHANGED <<seen, drainer, drains, shown>>
          /\ IF PerformedOnArrival("PostM", m)
             THEN Drained' = TRUE /\ UNCHANGED messages
             ELSE /\ messages' = [messages EXCEPT !["PostM"] = @ \cup {m}]
                  /\ UNCHANGED Drained
      BY <1>13 DEF PostMCall, input
    <2>2. m = M[1] /\ 1 \in 1 .. Len(M) /\ m.kind = "drained"
      <3>1. m = M[1] /\ 1 \in 1 .. Len(M) /\ m \in ToSet(M)
        BY <2>1, <1>t
      <3>2. m.kind # "reset"
        BY <3>1, Rings
      <3> QED BY <2>1, <3>1, <3>2 DEF IsCall
    <2>3. /\ drainer.at = "wait" /\ ~Drained /\ messages["PostM"] = {} /\ m = last
          /\ \A j \in 1 .. Len(M) : M[j].kind = "drained" => 1 = j
      BY <2>2, <1>2
    <2>4. \A i \in 1 .. Len(M') : M'[i].kind # "drained"
      <3>1. \A i \in 1 .. Len(M') : M'[i].kind = "drained" => 1 = i + 1
        BY <2>1, <2>3, <1>t
      <3> QED BY <3>1, <1>4
    <2>5. last' = last /\ DrainSequenceNumber' = DrainSequenceNumber
      BY <2>1 DEF drain, DrainSequenceNumber
    <2>6. \A x \in ToSet(M') \cup ToSet(shown') : x.kind # "drained" => x.seq <= seen'["DtoM"]
      BY <2>1, <1>1, <1>t
    <2>7. CASE PerformedOnArrival("PostM", m)
      <3>1. DrainSequenceNumber <= seen["PostM"]
        <4>1. drain \in 1 .. drain /\ DrainSequenceNumber \in Nat
          BY SMTT(30), <2>3, <1>3, Others DEF Status, DrainSequenceNumber
        <4>2. m.seq = DrainSequenceNumber
          BY <2>3, <4>1 DEF Buffer
        <4> QED BY <4>2, <2>7 DEF PerformedOnArrival
      <3>2. messages'["PostM"] = {}
        BY <2>1, <2>3, <2>7
      <3> HIDE DEF last
      <3> QED BY <3>1, <3>2, <2>1, <2>3, <2>4, <2>5, <2>6, <1>1 DEF Event
    <2>8. CASE ~PerformedOnArrival("PostM", m)
      <3>1. messages'["PostM"] = {last} /\ ~Drained'
        <4>1. messages \in [{"DtoM", "PostM"} -> SUBSET Of({"reset", "drained"})]
          BY DEF TypeOK
        <4>2. messages' = [messages EXCEPT !["PostM"] = messages["PostM"] \cup {m}]
          BY <2>1, <2>8
        <4>3. ~Drained'
          BY <2>1, <2>3, <2>8
        <4> HIDE DEF last, m
        <4> QED BY <4>1, <4>2, <4>3, <2>3
      <3>2. \A n \in messages'["PostM"] : drainer'.at = "wait" /\ ~Drained' /\ n = last'
        <4> HIDE DEF last
        <4> QED BY <3>1, <2>1, <2>3, <2>5
      <3>3. \A i \in 1 .. Len(M') : M'[i].kind = "drained" =>
            /\ drainer'.at = "wait" /\ ~Drained' /\ messages'["PostM"] = {}
            /\ M'[i] = last'
            /\ \A j \in 1 .. Len(M') : M'[j].kind = "drained" => i = j
        BY <2>4
      <3> QED BY <3>1, <3>2, <3>3, <2>1, <2>3, <2>6, <1>1 DEF Event
    <2> QED BY <2>7, <2>8
  <1>14. CASE DtoMCall
    <2>1. messages'["PostM"] = messages["PostM"]
      <3>1. \/ messages' = messages
            \/ \E x : messages' = [messages EXCEPT !["DtoM"] = x]
        BY <1>14 DEF DtoMCall
      <3>2. messages \in [{"DtoM", "PostM"} -> SUBSET Of({"reset", "drained"})]
        BY DEF TypeOK
      <3> QED BY <3>1, <3>2
    <2> QED BY <2>1, <1>14, <1>u DEF DtoMCall, player
  <1>15. CASE \/ Inject \/ CtoP \/ PtoDFrame
              \/ PtoDMarker \/ PtoDMarkerTest \/ MarkerInput
              \/ TestMarkerFramePassOn("input") \/ TestMarkerFramePassOn("callback")
              \/ DecodeCompletes \/ CallbackCounts \/ DtoMMarkerClear
              \/ UNCHANGED vars
    <2>1. UNCHANGED <<drainer, Drained, drains, seen, messages,
                      ManifestedBufferRing, shown>>
      BY <1>15
      DEF CtoP, vars, rings, processes, player, input, Inject, CtoPMarker,
          CtoPFrame, PtoDFrame, PtoDMarker, PtoDMarkerTest,
          MarkerInput, TestMarkerFramePassOn,
          DecodeCompletes, CallbackCounts, DtoMMarkerClear
    <2> QED BY <2>1, <1>u
  <1> QED
    BY <1>6, <1>7, <1>8, <1>9, <1>10, <1>11, <1>12, <1>13, <1>14, <1>15
    DEF Next, PtoD, Callback, DtoM, PostM, Drain

-----------------------------------------------------------------------------
(* The order of the chain.                                                 *)

\* The marker the codec may pass on is ahead of all it decodes; while the
\* callback is idle, one it holds back is behind the foremost decode.
LEMMA MarkerForemost ==
  ASSUME TypeOK, Counts, codec.Marker # NoBuffer
  PROVE  /\ CanPassOn => \A b \in ToSet(codec.decoding) : codec.Marker.seq < b.seq
         /\ codec.callback = "idle" /\ codec.decoding # << >> =>
              Head(codec.decoding).seq < codec.Marker.seq
         /\ codec.input \in {"idle", "test"}
  <1>1. /\ codec.Prepared \in Nat /\ codec.Completed \in Nat /\ codec.PassOnAt \in Nat
        /\ codec.input \in {"idle", "flag", "at", "hold", "test"}
        /\ codec.decoding \in Seq(Of(Kinds))
    BY Others, Rings
  <1>2. /\ Len(codec.decoding) \in Nat /\ Uncounted \in {0, 1}
        /\ codec.callback = "idle" => Uncounted = 0
        /\ \A b : b \in ToSet(codec.decoding) <=>
                    \E k \in 1 .. Len(codec.decoding) : codec.decoding[k] = b
    BY <1>1, Holding DEF Uncounted
  <1>3. /\ codec.Prepared = codec.Completed + Len(codec.decoding) + Uncounted
        /\ codec.input \in {"hold", "test"} => codec.PassOnAt = codec.Prepared
        /\ codec.input \in {"idle", "test"}
        /\ codec.input = "idle" /\ codec.callback = "idle" =>
             codec.Completed < codec.PassOnAt
        /\ \A k \in 1 .. Len(codec.decoding) :
             IF k <= MarkerPlace THEN codec.decoding[k].seq < codec.Marker.seq
                                 ELSE codec.Marker.seq < codec.decoding[k].seq
    BY DEF Counts
  <1>4. CanPassOn => \A b \in ToSet(codec.decoding) : codec.Marker.seq < b.seq
    <2> SUFFICES ASSUME CanPassOn, NEW k \in 1 .. Len(codec.decoding)
                 PROVE  codec.Marker.seq < codec.decoding[k].seq
      BY <1>2
    <2>1. codec.Completed >= codec.PassOnAt
      BY DEF CanPassOn
    <2>2. MarkerPlace <= 0 /\ MarkerPlace \in Int
      BY SMTT(30), <2>1, <1>1, <1>2, <1>3 DEF MarkerPlace
    <2>3. ~(k <= MarkerPlace)
      BY <2>2
    <2> QED BY <2>3, <1>3
  <1>5. ASSUME codec.callback = "idle", codec.decoding # << >>
        PROVE  Head(codec.decoding).seq < codec.Marker.seq
    <2>1. Head(codec.decoding) = codec.decoding[1] /\ Len(codec.decoding) > 0
      BY <1>1, <1>5, Tailed
    <2>2. MarkerPlace >= 1 /\ MarkerPlace \in Int
      <3>1. CASE codec.input = "idle"
        BY <3>1, <1>1, <1>2, <1>3, <1>5 DEF MarkerPlace
      <3>2. CASE codec.input = "test"
        BY <3>2, <2>1, <1>1, <1>2, <1>3, <1>5 DEF MarkerPlace
      <3> QED BY <3>1, <3>2, <1>3
    <2>3. 1 \in 1 .. Len(codec.decoding) /\ 1 <= MarkerPlace
      BY <2>1, <2>2, <1>2
    <2> QED BY <2>1, <2>3, <1>3
  <1> QED BY <1>3, <1>4, <1>5

\* The marker of the coded ring, at its head, has a number above those given.
LEMMA MarkerAtHead ==
  ASSUME TypeOK, Markers, CtoPMarker
  PROVE  LET b == Head(CollatedFrameRing)
         IN /\ b \in Of(Kinds) /\ b.kind = "marker" /\ b.id = MarkerInCodedFrameIndex
            /\ MarkerOf(b) /\ NextBufferSequenceNumber <= b.seq
            /\ b \in ToSet(CollatedFrameRing)
            /\ \A x \in ToSet(Tail(CollatedFrameRing)) : x.kind # "marker"
            /\ ParsedFrameRing' = Append(ParsedFrameRing, b)
            /\ CollatedFrameRing' = Tail(CollatedFrameRing)
            /\ NextBufferSequenceNumber' = b.seq + 1
  <1> DEFINE b == Head(CollatedFrameRing)
             t == Tail(CollatedFrameRing)
  <1>1. /\ CollatedFrameRing # << >> /\ b.kind = "marker"
        /\ b.id = MarkerInCodedFrameIndex
        /\ ParsedFrameRing' = Append(ParsedFrameRing, b)
        /\ CollatedFrameRing' = t
        /\ NextBufferSequenceNumber' = b.seq + 1
    BY DEF CtoPMarker
  <1>2. /\ b \in Of(Kinds) /\ b = CollatedFrameRing[1] /\ b \in ToSet(CollatedFrameRing)
        /\ t \in Seq(Of(Kinds)) /\ Len(t) = Len(CollatedFrameRing) - 1
        /\ Len(CollatedFrameRing) \in Nat /\ Len(CollatedFrameRing) > 0
        /\ \A i \in 1 .. Len(t) : t[i] = CollatedFrameRing[i + 1]
    BY <1>1, Rings, Tailed, Holding
  <1>3. /\ 1 \in 1 .. Len(CollatedFrameRing)
        /\ MarkerOf(CollatedFrameRing[1])
        /\ NextBufferSequenceNumber + 1 - 1 <= CollatedFrameRing[1].seq
        /\ \A j \in 1 .. Len(CollatedFrameRing) :
              CollatedFrameRing[j].kind = "marker" => 1 = j
    <2>1. 1 \in 1 .. Len(CollatedFrameRing) /\ CollatedFrameRing[1].kind = "marker"
      BY <1>1, <1>2
    <2> QED BY <2>1 DEF Markers
  <1>4. \A i \in 1 .. Len(t) : t[i].kind # "marker"
    <2> SUFFICES ASSUME NEW i \in 1 .. Len(t), t[i].kind = "marker"
                 PROVE  FALSE
      OBVIOUS
    <2>1. i + 1 \in 1 .. Len(CollatedFrameRing) /\ t[i] = CollatedFrameRing[i + 1]
      BY <1>2
    <2>2. 1 = i + 1
      BY <2>1, <1>3
    <2> QED BY <2>2
  <1>5. \A x \in ToSet(t) : x.kind # "marker"
    <2> HIDE DEF t
    <2>1. \A x : x \in ToSet(t) <=> \E i \in 1 .. Len(t) : t[i] = x
      BY <1>2, Holding
    <2> QED BY <1>4, <2>1
  <1>6. NextBufferSequenceNumber <= b.seq
    BY <1>2, <1>3, Others
  <1> QED BY <1>1, <1>2, <1>3, <1>5, <1>6

\* A marker has left the codec when the next one comes to PtoD.
LEMMA NoneHeldYet ==
  ASSUME TypeOK, Status, Event, Order, Markers, PtoDMarker
  PROVE  codec.Marker = NoBuffer
  <1> DEFINE b == Head(ParsedFrameRing)
             m == codec.Marker
  <1>1. b.kind = "marker" /\ b \in ToSet(ParsedFrameRing) /\ m \in MarkerOrNone
    <2>1. ParsedFrameRing # << >> /\ b.kind = "marker"
      BY DEF PtoDMarker
    <2>2. ParsedFrameRing \in Seq(Of(Kinds)) /\ m \in MarkerOrNone
      BY Rings, Others
    <2> QED BY <2>1, <2>2, Tailed
  <1>2. m \in Numbered /\ b \in Numbered
    BY <1>1 DEF Numbered, Behind
  <1> SUFFICES ASSUME m # NoBuffer
               PROVE  FALSE
    OBVIOUS
  <1>3. m.kind = "marker" /\ m.seq \in Nat
    BY <1>1 DEF MarkerOrNone, Of
  <1>4. m.seq = drains[drain].seq /\ b.seq = drains[drain].seq
    BY <1>1, <1>2, <1>3, LastMarker
  <1>5. m.seq < b.seq
    BY <1>1, <1>3 DEF Order, Ahead, IsNumbered
  <1> QED BY <1>3, <1>4, <1>5

\* Order is kept, through the codec and around it.
LEMMA OrderStep ==
  ASSUME OneAtATime, TypeOK, Status, Event, Order, Counts, Markers, [Next]_vars
  PROVE  Order'
  <1> DEFINE D == ToSet(DecodedFrameRing)
             C == ToSet(codec.decoding)
             P == ToSet(ParsedFrameRing)
             m == codec.Marker
             sD == seen["DtoM"]
             N == NextBufferSequenceNumber
  <1>1. /\ Ordered(DecodedFrameRing) /\ Ordered(codec.decoding)
        /\ Ordered(ParsedFrameRing)
    BY DEF Order
  <1>2. /\ Ahead(D, C \cup {m} \cup AtCodec \cup P)
        /\ Ahead(C, AtCodec \cup P) /\ Ahead({m} \cup AtCodec, P)
    BY DEF Order, Behind
  <1>3. /\ sD < N
        /\ \A b \in D \cup C \cup {m} \cup AtCodec \cup P :
             IsNumbered(b) => sD < b.seq /\ b.seq < N
    BY DEF Order, Numbered, Behind
  <1>4. /\ sD \in Nat /\ N \in Nat /\ m \in MarkerOrNone
        /\ busy["PtoD"] \in MarkerOrNone
        /\ AtCodec \subseteq {busy["PtoD"]}
        /\ DecodedFrameRing \in Seq(Of(Kinds)) /\ ParsedFrameRing \in Seq(Of(Kinds))
        /\ codec.decoding \in Seq(Of(Kinds))
    BY Others, Rings DEF AtCodec
  <1>5. /\ D \subseteq Of(Kinds) /\ C \subseteq Of(Kinds) /\ P \subseteq Of(Kinds)
        /\ m \in Of(Kinds) /\ AtCodec \subseteq Of(Kinds)
    BY <1>4, MarkerIs, Holding
  <1>6. \A b \in Of(Kinds) : b.seq \in Nat
    BY DEF Of
  <1>7. ~IsNumbered(NoBuffer)
    BY DEF IsNumbered, NoBuffer, Buffer
  <1>o. ASSUME /\ Ordered(DecodedFrameRing)' /\ Ordered(codec.decoding)'
               /\ Ordered(ParsedFrameRing)',
               /\ Ahead(D', C' \cup {m'} \cup AtCodec' \cup P')
               /\ Ahead(C', AtCodec' \cup P') /\ Ahead({m'} \cup AtCodec', P'),
               /\ sD' < N'
               /\ \A b \in D' \cup C' \cup {m'} \cup AtCodec' \cup P' :
                    IsNumbered(b) => sD' < b.seq /\ b.seq < N'
        PROVE  Order'
    BY <1>o DEF Order, Numbered, Behind
  <1>u. CASE UNCHANGED <<DecodedFrameRing, ParsedFrameRing, codec.decoding,
                         codec.Marker, codec.input, busy["PtoD"], seen["DtoM"],
                         NextBufferSequenceNumber>>
    <2>1. D' = D /\ C' = C /\ P' = P /\ m' = m /\ AtCodec' = AtCodec
      BY <1>u DEF AtCodec
    <2> HIDE DEF D, C, P, m
    <2> QED BY <2>1, <1>u, <1>o, <1>1, <1>2, <1>3
  <1>8. CASE CtoPMarker
    <2> DEFINE b == Head(CollatedFrameRing)
    <2>1. /\ b \in Of(Kinds) /\ N <= b.seq /\ N' = b.seq + 1
          /\ ParsedFrameRing' = Append(ParsedFrameRing, b)
      BY <1>8, MarkerAtHead
    <2>2. UNCHANGED <<DecodedFrameRing, codec, busy, seen>>
      BY <1>8 DEF CtoPMarker, processes
    <2>3. D' = D /\ C' = C /\ m' = m /\ AtCodec' = AtCodec /\ sD' = sD
      BY <2>2 DEF AtCodec
    <2> HIDE DEF b
    <2>4. P' = P \cup {b}
      BY <2>1, <1>4, Appended
    <2>5. \A x \in D \cup C \cup {m} \cup AtCodec \cup P :
            IsNumbered(x) => x.seq < b.seq
      BY <2>1, <1>3, <1>4, <1>5, <1>6
    <2>6. Ordered(ParsedFrameRing')
      <3>1. Ahead(P, {b})
        BY <2>5 DEF Ahead
      <3> QED BY <3>1, <2>1, <1>1, <1>4, OrderedAppend
    <2> HIDE DEF D, C, P, m
    <2>7. /\ Ahead(D', C' \cup {m'} \cup AtCodec' \cup P')
          /\ Ahead(C', AtCodec' \cup P') /\ Ahead({m'} \cup AtCodec', P')
      BY <2>3, <2>4, <2>5, <1>2 DEF Ahead
    <2>8. /\ sD' < N'
          /\ \A x \in D' \cup C' \cup {m'} \cup AtCodec' \cup P' :
               IsNumbered(x) => sD' < x.seq /\ x.seq < N'
      BY <2>1, <2>3, <2>4, <1>3, <1>4, <1>5, <1>6
    <2> QED BY <2>2, <2>6, <2>7, <2>8, <1>1, <1>o
  <1>9. CASE CtoPFrame
    <2>1. PICK b \in Of({"frame", "jump"}) : Renumbers(Head(CollatedFrameRing), b)
      BY <1>9, CtoPNumbers
    <2>2. /\ b.seq = N /\ b \in Of(Kinds)
          /\ \/ ParsedFrameRing' = ParsedFrameRing
             \/ ParsedFrameRing' = Append(ParsedFrameRing, b)
      BY <2>1 DEF Renumbers, Of, Kinds
    <2>3. UNCHANGED <<DecodedFrameRing, codec, busy, seen>> /\ N' = N + 1
      BY <1>9 DEF CtoPFrame, processes
    <2>4. D' = D /\ C' = C /\ m' = m /\ AtCodec' = AtCodec /\ sD' = sD
      BY <2>3 DEF AtCodec
    <2>5. P' = P \/ P' = P \cup {b}
      <3>1. ToSet(Append(ParsedFrameRing, b)) = P \cup {b}
        BY <2>2, <1>4, Appended
      <3> QED BY <3>1, <2>2
    <2>6. \A x \in D \cup C \cup {m} \cup AtCodec \cup P :
            IsNumbered(x) => x.seq < b.seq
      BY <2>2, <1>3
    <2>7. Ordered(ParsedFrameRing')
      <3>1. Ahead(P, {b})
        BY <2>6 DEF Ahead
      <3>2. Ordered(Append(ParsedFrameRing, b))
        BY <3>1, <2>2, <1>1, <1>4, OrderedAppend
      <3> QED BY <3>2, <2>2, <1>1
    <2> HIDE DEF D, C, P, m
    <2>8. /\ Ahead(D', C' \cup {m'} \cup AtCodec' \cup P')
          /\ Ahead(C', AtCodec' \cup P') /\ Ahead({m'} \cup AtCodec', P')
      BY <2>4, <2>5, <2>6, <1>2 DEF Ahead
    <2>9. /\ sD' < N'
          /\ \A x \in D' \cup C' \cup {m'} \cup AtCodec' \cup P' :
               IsNumbered(x) => sD' < x.seq /\ x.seq < N'
      BY <2>2, <2>3, <2>4, <2>5, <1>3, <1>4, <1>5, <1>6
    <2> QED BY <2>3, <2>7, <2>8, <2>9, <1>1, <1>o
  <1>10. CASE PtoDFrame
    <2> DEFINE b == Head(ParsedFrameRing)
    <2>1. /\ ParsedFrameRing # << >> /\ ParsedFrameRing' = Tail(ParsedFrameRing)
          /\ UNCHANGED <<DecodedFrameRing, busy, seen>> /\ N' = N
          /\ \/ codec' = codec
             \/ codec' = [codec EXCEPT !.decoding = Append(codec.decoding, b),
                                       !.Prepared = codec.Prepared + 1]
      BY <1>10 DEF PtoDFrame, processes, player
    <2>2. /\ codec'.Marker = codec.Marker /\ codec'.input = codec.input
          /\ \/ codec'.decoding = codec.decoding
             \/ codec'.decoding = Append(codec.decoding, b)
      BY <2>1 DEF TypeOK, Codecs
    <2>3. D' = D /\ m' = m /\ AtCodec' = AtCodec /\ sD' = sD
      BY <2>1, <2>2 DEF AtCodec
    <2>4. /\ b \in Of(Kinds) /\ P = {b} \cup P' /\ Ordered(ParsedFrameRing')
          /\ Ahead({b}, P')
      BY <2>1, <1>1, <1>4, Tailed, OrderedTail
    <2> HIDE DEF b
    <2>5. C' = C \/ C' = C \cup {b}
      <3>1. ToSet(Append(codec.decoding, b)) = C \cup {b}
        BY <2>4, <1>4, Appended
      <3> QED BY <3>1, <2>2
    <2>6. Ordered(codec'.decoding)
      <3>1. Ahead(C, {b})
        BY <2>4, <1>2 DEF Ahead
      <3>2. Ordered(Append(codec.decoding, b))
        BY <3>1, <2>4, <1>1, <1>4, OrderedAppend
      <3> QED BY <3>2, <2>2, <1>1
    <2>7. AtCodec = {}
      <3>1. busy["PtoD"] = NoBuffer
        BY <1>10 DEF PtoDFrame, Idle
      <3> QED BY <3>1 DEF Counts, AtCodec
    <2> HIDE DEF D, C, P, m
    <2>8. /\ Ahead(D', C' \cup {m'} \cup AtCodec' \cup P')
          /\ Ahead(C', AtCodec' \cup P') /\ Ahead({m'} \cup AtCodec', P')
      BY <2>3, <2>4, <2>5, <2>7, <1>2 DEF Ahead
    <2>9. /\ sD' < N'
          /\ \A x \in D' \cup C' \cup {m'} \cup AtCodec' \cup P' :
               IsNumbered(x) => sD' < x.seq /\ x.seq < N'
      BY <2>1, <2>3, <2>4, <2>5, <1>3
    <2> QED BY <2>1, <2>4, <2>6, <2>8, <2>9, <1>1, <1>o
  <1>11. CASE PtoDMarker
    <2> DEFINE b == Head(ParsedFrameRing)
    <2>1. /\ ParsedFrameRing # << >> /\ ParsedFrameRing' = Tail(ParsedFrameRing)
          /\ UNCHANGED <<DecodedFrameRing, seen>> /\ N' = N
          /\ codec' = [codec EXCEPT !.input = "flag"]
          /\ busy' = [busy EXCEPT !["PtoD"] = b] /\ codec.Marker = NoBuffer
      BY <1>11, NoneHeldYet DEF PtoDMarker, Holds
    <2>2. /\ codec'.Marker = NoBuffer /\ codec'.input = "flag"
          /\ codec'.decoding = codec.decoding /\ busy'["PtoD"] = b
      BY <2>1 DEF TypeOK, Codecs
    <2>3. D' = D /\ m' = NoBuffer /\ AtCodec' = {b} /\ sD' = sD /\ C' = C
      BY <2>1, <2>2 DEF AtCodec
    <2>4. /\ b \in Of(Kinds) /\ P = {b} \cup P' /\ Ordered(ParsedFrameRing')
          /\ Ahead({b}, P')
      BY <2>1, <1>1, <1>4, Tailed, OrderedTail
    <2> HIDE DEF b, D, C, P, m
    <2>8. /\ Ahead(D', C' \cup {m'} \cup AtCodec' \cup P')
          /\ Ahead(C', AtCodec' \cup P') /\ Ahead({m'} \cup AtCodec', P')
      BY <2>3, <2>4, <1>2, <1>7 DEF Ahead
    <2>9. /\ sD' < N'
          /\ \A x \in D' \cup C' \cup {m'} \cup AtCodec' \cup P' :
               IsNumbered(x) => sD' < x.seq /\ x.seq < N'
      BY <2>1, <2>3, <2>4, <1>3, <1>7
    <2> QED BY <2>1, <2>2, <2>4, <2>8, <2>9, <1>1, <1>o
  <1>a. CASE PtoDMarkerTest
    <2>1. /\ UNCHANGED <<DecodedFrameRing, ParsedFrameRing, seen,
                         NextBufferSequenceNumber>>
          /\ codec.input = "flag"
      BY <1>a DEF PtoDMarkerTest, rings, player
    <2>2. codec.Marker = NoBuffer
      BY <2>1 DEF Counts
    <2>3. /\ codec'.decoding = codec.decoding /\ codec'.Marker = codec.Marker
          /\ \/ codec'.input = "at" /\ busy' = busy
             \/ codec'.input = "idle"
      BY <2>2, <1>a DEF PtoDMarkerTest, TypeOK, Codecs
    <2>4. /\ D' = D /\ C' = C /\ m' = m /\ P' = P /\ sD' = sD /\ N' = N
          /\ AtCodec' \subseteq AtCodec
      BY <2>1, <2>3 DEF AtCodec
    <2> HIDE DEF D, C, P, m
    <2>5. /\ Ahead(D', C' \cup {m'} \cup AtCodec' \cup P')
          /\ Ahead(C', AtCodec' \cup P') /\ Ahead({m'} \cup AtCodec', P')
      BY <2>4, <1>2 DEF Ahead
    <2>6. /\ sD' < N'
          /\ \A x \in D' \cup C' \cup {m'} \cup AtCodec' \cup P' :
               IsNumbered(x) => sD' < x.seq /\ x.seq < N'
      BY <2>4, <1>3
    <2> QED BY <2>1, <2>3, <2>5, <2>6, <1>1, <1>o
  <1>12. CASE MarkerInput
    <2>1. /\ UNCHANGED <<DecodedFrameRing, ParsedFrameRing, busy, seen,
                         NextBufferSequenceNumber>>
          /\ codec'.decoding = codec.decoding
      BY <1>12 DEF MarkerInput, rings, processes, player, TypeOK, Codecs
    <2>2. CASE codec.input = "at"
      <3>1. codec'.Marker = codec.Marker /\ codec'.input = "hold"
        BY <2>2, <1>12 DEF MarkerInput, TypeOK, Codecs
      <3>2. D' = D /\ m' = m /\ AtCodec' = AtCodec /\ sD' = sD /\ C' = C /\ P' = P
        BY <2>1, <2>2, <3>1 DEF AtCodec
      <3> HIDE DEF D, C, P, m
      <3> QED BY <3>2, <2>1, <1>o, <1>1, <1>2, <1>3
    <2>3. CASE codec.input = "hold"
      <3>1. codec'.Marker = busy["PtoD"] /\ codec'.input = "test"
        BY <2>3, <1>12 DEF MarkerInput, TypeOK, Codecs
      <3>2. /\ D' = D /\ m' = busy["PtoD"] /\ AtCodec' = {} /\ sD' = sD
            /\ C' = C /\ P' = P /\ AtCodec = {busy["PtoD"]}
        BY <2>1, <2>3, <3>1 DEF AtCodec
      <3> HIDE DEF D, C, P, m
      <3>8. /\ Ahead(D', C' \cup {m'} \cup AtCodec' \cup P')
            /\ Ahead(C', AtCodec' \cup P') /\ Ahead({m'} \cup AtCodec', P')
        BY <3>2, <1>2 DEF Ahead
      <3>9. /\ sD' < N'
            /\ \A x \in D' \cup C' \cup {m'} \cup AtCodec' \cup P' :
                 IsNumbered(x) => sD' < x.seq /\ x.seq < N'
        BY <2>1, <3>2, <1>3
      <3> QED BY <2>1, <3>8, <3>9, <1>1, <1>o
    <2> QED BY <2>2, <2>3, <1>12 DEF MarkerInput
  <1>13. ASSUME NEW who \in {"input", "callback"}, TestMarkerFramePassOn(who)
         PROVE  Order'
    <2>1. /\ codec[who] = "test"
          /\ \/ CanPassOn /\ Take(who)
             \/ /\ ~CanPassOn
                /\ codec' = [codec EXCEPT ![who] = "idle"]
                /\ Returns(who)
                /\ UNCHANGED DecodedFrameRing
      BY <1>13, NeverTaken
    <2>2. UNCHANGED <<ParsedFrameRing, seen, NextBufferSequenceNumber>>
      BY <1>13 DEF TestMarkerFramePassOn, player
    <2>3. /\ codec'.decoding = codec.decoding
          /\ who = "callback" => codec'.input = codec.input /\ busy' = busy
          /\ who = "input" => codec'.input = "idle" /\ codec.input = "test"
      BY <2>1 DEF Take, Returns, TypeOK, Codecs
    <2>4. C' = C /\ P' = P /\ sD' = sD /\ N' = N /\ AtCodec' = AtCodec
      BY <2>2, <2>3 DEF AtCodec
    <2>5. CASE CanPassOn /\ Take(who)
      <3>1. /\ codec'.Marker = NoBuffer /\ m # NoBuffer
            /\ DecodedFrameRing' = Append(DecodedFrameRing, m)
        BY <2>5 DEF Take, CanPassOn, TypeOK, Codecs
      <3>2. D' = D \cup {m} /\ m' = NoBuffer
        BY <3>1, <1>4, <1>5, Appended
      <3>3. /\ codec.input \in {"idle", "test"}
            /\ \A b \in C : m.seq < b.seq
        BY <2>5, <3>1, MarkerForemost
      <3>4. AtCodec = {}
        BY <3>3 DEF AtCodec
      <3>5. Ordered(DecodedFrameRing')
        <4>1. Ahead(D, {m})
          BY <1>2 DEF Ahead
        <4> QED BY <4>1, <3>1, <1>1, <1>4, <1>5, OrderedAppend
      <3> HIDE DEF D, C, P, m
      <3>8. /\ Ahead(D', C' \cup {m'} \cup AtCodec' \cup P')
            /\ Ahead(C', AtCodec' \cup P') /\ Ahead({m'} \cup AtCodec', P')
        BY <2>4, <3>2, <3>3, <3>4, <1>2, <1>7 DEF Ahead
      <3>9. /\ sD' < N'
            /\ \A x \in D' \cup C' \cup {m'} \cup AtCodec' \cup P' :
                 IsNumbered(x) => sD' < x.seq /\ x.seq < N'
        BY <2>4, <3>2, <1>3, <1>7
      <3> QED BY <2>2, <2>3, <3>5, <3>8, <3>9, <1>1, <1>o
    <2>6. CASE ~CanPassOn
      <3>1. UNCHANGED DecodedFrameRing /\ codec'.Marker = codec.Marker
        BY <2>1, <2>6 DEF TypeOK, Codecs
      <3>2. D' = D /\ m' = m
        BY <3>1
      <3> HIDE DEF D, C, P, m
      <3> QED BY <2>2, <2>3, <2>4, <3>1, <3>2, <1>o, <1>1, <1>2, <1>3
    <2> QED BY <2>1, <2>5, <2>6
  <1>14. CASE DecodeCompletes
    <2> DEFINE b == Head(codec.decoding)
    <2>1. /\ codec.callback = "idle" /\ codec.decoding # << >>
          /\ codec' = [codec EXCEPT !.decoding = Tail(codec.decoding),
                                    !.callback = "count"]
          /\ UNCHANGED <<ParsedFrameRing, busy, seen, NextBufferSequenceNumber>>
          /\ \/ DecodedFrameRing' = DecodedFrameRing
             \/ DecodedFrameRing' = Append(DecodedFrameRing, b)
      BY <1>14 DEF DecodeCompletes, processes, player
    <2>2. /\ codec'.decoding = Tail(codec.decoding) /\ codec'.Marker = codec.Marker
          /\ codec'.input = codec.input
      BY <2>1 DEF TypeOK, Codecs
    <2>3. P' = P /\ sD' = sD /\ N' = N /\ AtCodec' = AtCodec /\ m' = m
      BY <2>1, <2>2 DEF AtCodec
    <2>4. /\ b \in Of(Kinds) /\ C = {b} \cup C' /\ Ordered(codec'.decoding)
          /\ Ahead({b}, C')
      BY <2>1, <2>2, <1>1, <1>4, Tailed, OrderedTail
    <2>5. IsNumbered(m) => b.seq < m.seq
      BY <2>1, <1>7, MarkerForemost
    <2> HIDE DEF b
    <2>6. D' = D \/ D' = D \cup {b}
      <3>1. ToSet(Append(DecodedFrameRing, b)) = D \cup {b}
        BY <2>4, <1>4, Appended
      <3> QED BY <3>1, <2>1
    <2>7. Ordered(DecodedFrameRing')
      <3>1. Ahead(D, {b})
        BY <2>4, <1>2 DEF Ahead
      <3>2. Ordered(Append(DecodedFrameRing, b))
        BY <3>1, <2>4, <1>1, <1>4, OrderedAppend
      <3> QED BY <3>2, <2>1, <1>1
    <2> HIDE DEF D, C, P, m
    <2>8. /\ Ahead(D', C' \cup {m'} \cup AtCodec' \cup P')
          /\ Ahead(C', AtCodec' \cup P') /\ Ahead({m'} \cup AtCodec', P')
      BY <2>3, <2>4, <2>5, <2>6, <1>2 DEF Ahead
    <2>9. /\ sD' < N'
          /\ \A x \in D' \cup C' \cup {m'} \cup AtCodec' \cup P' :
               IsNumbered(x) => sD' < x.seq /\ x.seq < N'
      BY <2>3, <2>4, <2>6, <1>3
    <2> QED BY <2>1, <2>4, <2>7, <2>8, <2>9, <1>1, <1>o
  <1>15. CASE DtoMFrame \/ DtoMMarker \/ DtoMCall
    <2> DEFINE b == Head(DecodedFrameRing)
    <2>1. /\ DecodedFrameRing # << >> /\ DecodedFrameRing' = Tail(DecodedFrameRing)
          /\ UNCHANGED <<ParsedFrameRing, codec, busy["PtoD"], NextBufferSequenceNumber>>
          /\ IF IsNumbered(b) THEN Sees("DtoM", b.seq) ELSE UNCHANGED seen
      <3>1. CASE DtoMFrame
        BY <3>1 DEF DtoMFrame, player, IsNumbered
      <3>2. CASE DtoMMarker
        <4>1. busy'["PtoD"] = busy["PtoD"]
          BY <3>2 DEF DtoMMarker, Holds, TypeOK
        <4> QED BY <3>2, <4>1 DEF DtoMMarker, player, IsNumbered
      <3>3. CASE DtoMCall
        <4>1. ~IsNumbered(b)
          BY <3>3 DEF DtoMCall, IsCall, IsNumbered
        <4> QED BY <3>3, <4>1 DEF DtoMCall, player
      <3> QED BY <1>15, <3>1, <3>2, <3>3
    <2>2. C' = C /\ P' = P /\ N' = N /\ AtCodec' = AtCodec /\ m' = m
      BY <2>1 DEF AtCodec
    <2>3. /\ b \in Of(Kinds) /\ D = {b} \cup D' /\ Ordered(DecodedFrameRing')
          /\ Ahead({b}, D')
      BY <2>1, <1>1, <1>4, Tailed, OrderedTail
    <2>4. /\ IsNumbered(b) => sD' = b.seq
          /\ ~IsNumbered(b) => sD' = sD
      <3>1. CASE IsNumbered(b)
        <4>1. b.seq \in Nat /\ Sees("DtoM", b.seq) /\ sD < b.seq
          BY <3>1, <2>1, <2>3, <1>3, <1>6
        <4>2. sD' = (IF b.seq > sD THEN b.seq ELSE sD)
          BY <4>1, SeesIs
        <4> QED BY <4>1, <4>2, <3>1, <1>4
      <3> QED BY <2>1, <3>1
    <2> HIDE DEF b, D, C, P, m
    <2>5. /\ Ahead(D', C' \cup {m'} \cup AtCodec' \cup P')
          /\ Ahead(C', AtCodec' \cup P') /\ Ahead({m'} \cup AtCodec', P')
      BY <2>2, <2>3, <1>2 DEF Ahead
    <2>6. /\ sD' < N'
          /\ \A x \in D' \cup C' \cup {m'} \cup AtCodec' \cup P' :
               IsNumbered(x) => sD' < x.seq /\ x.seq < N'
      <3>1. CASE IsNumbered(b)
        BY <3>1, <2>2, <2>3, <2>4, <1>2, <1>3 DEF Ahead
      <3>2. CASE ~IsNumbered(b)
        BY <3>2, <2>2, <2>3, <2>4, <1>3
      <3> QED BY <3>1, <3>2
    <2> QED BY <2>1, <2>3, <2>5, <2>6, <1>1, <1>o
  <1>16. CASE DrainCalls
    <2> DEFINE b == Buffer("reset", drain, DrainSequenceNumber)
    <2>1. /\ UNCHANGED <<ParsedFrameRing, codec, busy, seen, NextBufferSequenceNumber>>
          /\ DecodedFrameRing' = Append(DecodedFrameRing, b)
               \/ DecodedFrameRing' = DecodedFrameRing
      BY <1>16 DEF DrainCalls, processes, player
    <2>2. b \in Of(Kinds) /\ ~IsNumbered(b)
      <3>1. drain \in 1 .. drain
        BY <1>16, Others DEF DrainCalls, Status
      <3>2. DrainSequenceNumber \in Nat /\ drain \in Nat
        BY <3>1, Others DEF DrainSequenceNumber
      <3> QED BY <3>2 DEF Buffer, Of, Kinds, IsNumbered
    <2>3. C' = C /\ P' = P /\ N' = N /\ AtCodec' = AtCodec /\ m' = m /\ sD' = sD
      BY <2>1 DEF AtCodec
    <2> HIDE DEF b
    <2>4. D' = D \/ D' = D \cup {b}
      <3>1. ToSet(Append(DecodedFrameRing, b)) = D \cup {b}
        BY <2>2, <1>4, Appended
      <3> QED BY <3>1, <2>1
    <2>5. Ordered(DecodedFrameRing')
      <3>1. Ahead(D, {b})
        BY <2>2 DEF Ahead
      <3>2. Ordered(Append(DecodedFrameRing, b))
        BY <3>1, <2>2, <1>1, <1>4, OrderedAppend
      <3> QED BY <3>2, <2>1, <1>1
    <2> HIDE DEF D, C, P, m
    <2>6. /\ Ahead(D', C' \cup {m'} \cup AtCodec' \cup P')
          /\ Ahead(C', AtCodec' \cup P') /\ Ahead({m'} \cup AtCodec', P')
      BY <2>2, <2>3, <2>4, <1>2 DEF Ahead
    <2>7. /\ sD' < N'
          /\ \A x \in D' \cup C' \cup {m'} \cup AtCodec' \cup P' :
               IsNumbered(x) => sD' < x.seq /\ x.seq < N'
      BY <2>2, <2>3, <2>4, <1>3
    <2> QED BY <2>1, <2>5, <2>6, <2>7, <1>1, <1>o
  <1>17. CASE \/ Inject \/ CallbackCounts \/ DtoMMarkerClear \/ Show \/ PostM
              \/ DrainBegins \/ DrainFlushes \/ DrainChecks \/ DrainNumbers
              \/ DrainLaunches \/ DrainWaits \/ UNCHANGED vars
    <2>1. UNCHANGED <<DecodedFrameRing, ParsedFrameRing, NextBufferSequenceNumber>>
      BY <1>17
      DEF Inject, CallbackCounts, DtoMMarkerClear, Show, PostM, PostMTake,
          PostMCall, DrainBegins, DrainFlushes, DrainChecks, DrainNumbers,
          DrainLaunches, DrainWaits, vars, rings, processes, player
    <2>2. UNCHANGED <<codec.decoding, codec.Marker, codec.input>>
      BY <1>17
      DEF Inject, CallbackCounts, DtoMMarkerClear, Show, PostM, PostMTake,
          PostMCall, DrainBegins, DrainFlushes, DrainChecks, DrainNumbers,
          DrainLaunches, DrainWaits, vars, TypeOK, Codecs
    <2>3. UNCHANGED busy["PtoD"]
      <3>1. UNCHANGED busy \/ LetsGo("DtoM")
        BY <1>17
        DEF Inject, CallbackCounts, DtoMMarkerClear, Show, PostM, PostMTake,
            PostMCall, DrainBegins, DrainFlushes, DrainChecks, DrainNumbers,
            DrainLaunches, DrainWaits, vars, processes
      <3> QED BY <3>1 DEF LetsGo, Holds, TypeOK
    <2>4. UNCHANGED seen["DtoM"]
      <3>1. UNCHANGED seen \/ \E x : seen' = [seen EXCEPT !["PostM"] = x]
        BY <1>17
        DEF Inject, CallbackCounts, DtoMMarkerClear, Show, PostM, PostMTake,
            PostMCall, DrainBegins, DrainFlushes, DrainChecks, DrainNumbers,
            DrainLaunches, DrainWaits, vars, processes, Sees
      <3> QED BY <3>1 DEF TypeOK
    <2> QED BY <2>1, <2>2, <2>3, <2>4, <1>u
  <1> QED
    BY <1>8, <1>9, <1>10, <1>11, <1>a, <1>12, <1>13, <1>14, <1>15, <1>16, <1>17
    DEF Next, CtoP, PtoD, Callback, DtoM, Drain

-----------------------------------------------------------------------------
(* The counts of the codec, and the place of the marker it holds.          *)

\* A flag is cleared by the process the marker is at, and by nothing else.
LEMMA FlagStep ==
  ASSUME OneAtATime, TypeOK, [Next]_vars, ~DrainBegins,
         NEW s \in {"CtoP", "PtoD", "DtoM"}
  PROVE  \/ Discarding'[s] = Discarding[s]
         \/ /\ ~Discarding'[s]
            /\ \/ s = "CtoP" /\ CtoPMarker
               \/ s = "PtoD" /\ PtoDMarker
               \/ s = "DtoM" /\ DtoMMarkerClear
  <1>1. Discarding \in [Stages -> BOOLEAN] /\ s \in Stages
    BY DEF TypeOK, Stages
  <1>2. CASE CtoPMarker
    <2>1. Discarding' = [Discarding EXCEPT !["CtoP"] = FALSE]
      BY <1>2 DEF CtoPMarker, ClearedAtCtoP
    <2> QED BY <1>1, <1>2, <2>1
  <1>3. CASE PtoDMarker
    <2>1. Discarding' = [Discarding EXCEPT !["PtoD"] = FALSE]
      BY <1>3 DEF PtoDMarker
    <2> QED BY <1>1, <1>3, <2>1
  <1>4. CASE DtoMMarkerClear
    <2>1. Discarding' = [Discarding EXCEPT !["DtoM"] = FALSE]
      BY <1>4 DEF DtoMMarkerClear
    <2> QED BY <1>1, <1>4, <2>1
  <1>5. CASE PostMTake
    <2>1. \/ Discarding' = [Discarding EXCEPT !["PostM"] = FALSE]
          \/ Discarding' = Discarding
      BY <1>5 DEF PostMTake
    <2> QED BY <1>1, <2>1
  <1>6. CASE ~(CtoPMarker \/ PtoDMarker \/ DtoMMarkerClear \/ PostMTake)
    <2>1. UNCHANGED Discarding
      BY <1>6
      DEF Next, CtoP, PtoD, Callback, DtoM, PostM, Drain, vars, player, Inject,
        CtoPFrame, PtoDFrame, PtoDMarkerTest, MarkerInput, TestMarkerFramePassOn,
        DecodeCompletes, CallbackCounts, DtoMFrame, DtoMMarker, DtoMCall, Show,
        PostMCall, DrainFlushes, DrainChecks, DrainNumbers, DrainLaunches,
        DrainCalls, DrainWaits
    <2> QED BY <2>1
  <1> QED BY <1>2, <1>3, <1>4, <1>5, <1>6

\* No drain begins while PtoD has a marker: the flag it has cleared stays so.
LEMMA StillCleared ==
  ASSUME OneAtATime, TypeOK, Status, Event, Order, Counts, Markers,
         [Next]_vars, codec.input = "flag"
  PROVE  ~Discarding'["PtoD"]
  <1> DEFINE b == busy["PtoD"]
  <1>1. ~Discarding["PtoD"] /\ b # NoBuffer /\ b \in MarkerOrNone
    BY Others DEF Counts
  <1>2. b.kind = "marker" /\ b \in Numbered
    BY <1>1 DEF MarkerOrNone, Of, Numbered, Behind, AtCodec
  <1>3. ~Over(drain)
    BY <1>2, LastMarker
  <1>4. ~DrainBegins
    BY <1>3 DEF DrainBegins, Over
  <1> QED BY <1>1, <1>4, FlagStep

\* Counts is kept, by the callback and by the thread that gives the codec work.
LEMMA CountsStep ==
  ASSUME OneAtATime, TypeOK, Status, Event, Order, Counts, Markers, [Next]_vars
  PROVE  Counts'
  <1>1. /\ codec.Prepared = codec.Completed + Len(codec.decoding) + Uncounted
        /\ codec.PassOnAt <= codec.Prepared /\ codec.DiscardUntil <= codec.Prepared
        /\ codec.input = "idle" <=> busy["PtoD"] = NoBuffer
        /\ codec.input = "flag" => ~Discarding["PtoD"]
        /\ codec.input \in {"hold", "test"} => codec.PassOnAt = codec.Prepared
        /\ codec.Marker # NoBuffer =>
             /\ codec.input \in {"idle", "test"}
             /\ codec.input = "idle" /\ codec.callback = "idle" =>
                  codec.Completed < codec.PassOnAt
             /\ \A k \in 1 .. Len(codec.decoding) :
                  IF k <= MarkerPlace THEN codec.decoding[k].seq < codec.Marker.seq
                                      ELSE codec.Marker.seq < codec.decoding[k].seq
    BY DEF Counts
  <1>2. /\ codec.Prepared \in Nat /\ codec.Completed \in Nat
        /\ codec.PassOnAt \in Nat /\ codec.DiscardUntil \in Nat
        /\ codec.Marker \in MarkerOrNone /\ busy["PtoD"] \in MarkerOrNone
        /\ codec.decoding \in Seq(Of(Kinds)) /\ Len(codec.decoding) \in Nat
        /\ codec.input \in {"idle", "flag", "at", "hold", "test"}
        /\ codec.callback \in {"idle", "count", "test"}
        /\ \A k \in 1 .. Len(codec.decoding) :
             codec.decoding[k] \in ToSet(codec.decoding) /\ codec.decoding[k].kind = "frame"
    BY Others, Rings, Holding
  <1>3. /\ Ahead(ToSet(codec.decoding), AtCodec \cup ToSet(ParsedFrameRing))
        /\ Ahead({codec.Marker} \cup AtCodec, ToSet(ParsedFrameRing))
    BY DEF Order
  <1>4. busy \in [{"PtoD", "DtoM"} -> MarkerOrNone] /\ codec \in Codecs
    BY DEF TypeOK
  <1>5. NoBuffer.kind = "none" /\ ~IsNumbered(NoBuffer)
    BY DEF NoBuffer, Buffer, IsNumbered
  <1>f. ASSUME codec'.input = "flag", codec.input = "flag"
        PROVE  ~Discarding'["PtoD"]
    BY <1>f, StillCleared
  <1>u. CASE UNCHANGED codec /\ UNCHANGED busy["PtoD"]
    BY <1>u, <1>1, <1>f DEF Counts, MarkerPlace, Uncounted
  <1>6. CASE PtoDFrame
    <2> DEFINE b == Head(ParsedFrameRing)
    <2>1. /\ ParsedFrameRing # << >> /\ b.kind = "frame" /\ UNCHANGED busy
          /\ busy["PtoD"] = NoBuffer
          /\ \/ codec' = codec
             \/ codec' = [codec EXCEPT !.decoding = Append(codec.decoding, b),
                                       !.Prepared = codec.Prepared + 1]
      BY <1>6 DEF PtoDFrame, processes, Idle
    <2>2. b \in Of(Kinds) /\ b \in ToSet(ParsedFrameRing)
      BY <2>1, Rings, Tailed
    <2>3. CASE codec' = [codec EXCEPT !.decoding = Append(codec.decoding, b),
                                      !.Prepared = codec.Prepared + 1]
      <3>1. /\ codec'.decoding = Append(codec.decoding, b)
            /\ codec'.Prepared = codec.Prepared + 1
            /\ codec'.Completed = codec.Completed /\ codec'.DiscardUntil = codec.DiscardUntil
            /\ codec'.Marker = codec.Marker /\ codec'.PassOnAt = codec.PassOnAt
            /\ codec'.input = codec.input /\ codec'.callback = codec.callback
        BY <2>3, <1>4 DEF Codecs
      <3> HIDE DEF b
      <3>2. /\ Len(codec'.decoding) = Len(codec.decoding) + 1
            /\ \A k \in 1 .. Len(codec.decoding) : codec'.decoding[k] = codec.decoding[k]
            /\ codec'.decoding[Len(codec.decoding) + 1] = b
        BY <3>1, <2>2, <1>2, Appended
      <3>a. Uncounted' = Uncounted /\ Uncounted \in Nat
        BY <3>1 DEF Uncounted
      <3>b. codec.PassOnAt <= codec.Prepared
              /\ codec.Prepared = codec.Completed + Len(codec.decoding) + Uncounted
              /\ codec.DiscardUntil <= codec.Prepared
        BY <1>1
      <3>c. /\ codec.Prepared \in Nat /\ codec.Completed \in Nat
            /\ codec.PassOnAt \in Nat /\ codec.DiscardUntil \in Nat
            /\ Len(codec.decoding) \in Nat
        BY <1>2
      <3>3. MarkerPlace' = MarkerPlace /\ MarkerPlace \in Int
            /\ MarkerPlace <= Len(codec.decoding)
        <4>1. /\ Len(codec'.decoding) = Len(codec.decoding) + 1
              /\ codec'.PassOnAt = codec.PassOnAt /\ codec'.Prepared = codec.Prepared + 1
          BY <3>1, <3>2
        <4> QED BY <4>1, <3>b, <3>c DEF MarkerPlace
      <3>4. codec.input = "idle"
        BY <2>1, <1>1
      <3>5. codec.Marker # NoBuffer => codec.Marker.seq < b.seq
        <4>1. codec.Marker # NoBuffer => IsNumbered(codec.Marker)
          BY <1>2, MarkerIs
        <4> QED BY <4>1, <1>3, <2>1, <2>2 DEF Ahead, IsNumbered
      <3>6. codec.Marker # NoBuffer =>
              \A k \in 1 .. Len(codec'.decoding) :
                IF k <= MarkerPlace' THEN codec'.decoding[k].seq < codec'.Marker.seq
                                     ELSE codec'.Marker.seq < codec'.decoding[k].seq
        <4> SUFFICES ASSUME codec.Marker # NoBuffer,
                            NEW k \in 1 .. Len(codec'.decoding)
                     PROVE  IF k <= MarkerPlace' THEN codec'.decoding[k].seq < codec'.Marker.seq
                                     ELSE codec'.Marker.seq < codec'.decoding[k].seq
          OBVIOUS
        <4>1. CASE k = Len(codec.decoding) + 1
          BY <4>1, <3>1, <3>2, <3>3, <3>5, <1>2
        <4>2. CASE k # Len(codec.decoding) + 1
          <5>1. k \in 1 .. Len(codec.decoding)
            BY <4>2, <3>2, <1>2
          <5> QED BY <5>1, <3>1, <3>2, <3>3, <1>1
        <4> QED BY <4>1, <4>2
      <3>7. /\ codec'.Prepared = codec'.Completed + Len(codec'.decoding) + Uncounted'
            /\ codec'.PassOnAt <= codec'.Prepared
            /\ codec'.DiscardUntil <= codec'.Prepared
        BY SMTT(30), <3>1, <3>2, <3>a, <3>b, <3>c
      <3> QED BY <3>1, <3>4, <3>6, <3>7, <2>1, <1>1 DEF Counts
    <2> QED BY <2>1, <2>3, <1>u
  <1>7. CASE PtoDMarker
    <2> DEFINE b == Head(ParsedFrameRing)
    <2>1. /\ ParsedFrameRing # << >> /\ b.kind = "marker"
          /\ codec' = [codec EXCEPT !.input = "flag"]
          /\ busy' = [busy EXCEPT !["PtoD"] = b] /\ codec.Marker = NoBuffer
          /\ Discarding' = [Discarding EXCEPT !["PtoD"] = FALSE]
      BY <1>7, NoneHeldYet DEF PtoDMarker, Holds
    <2>2. /\ codec'.Marker = NoBuffer /\ codec'.input = "flag" /\ busy'["PtoD"] = b
          /\ codec'.decoding = codec.decoding /\ codec'.Prepared = codec.Prepared
          /\ codec'.Completed = codec.Completed /\ codec'.DiscardUntil = codec.DiscardUntil
          /\ codec'.PassOnAt = codec.PassOnAt /\ codec'.callback = codec.callback
      BY <2>1, <1>4 DEF Codecs
    <2>3. b # NoBuffer
      BY <2>1, <1>5
    <2>4. ~Discarding'["PtoD"]
      BY <2>1 DEF TypeOK, Stages
    <2> HIDE DEF b
    <2> QED BY <2>2, <2>3, <2>4, <1>1 DEF Counts, Uncounted
  <1>a. CASE PtoDMarkerTest
    <2>1. codec.input = "flag" /\ codec.Marker = NoBuffer
      BY <1>1, <1>a DEF PtoDMarkerTest
    <2>2. /\ codec'.Marker = NoBuffer
          /\ \/ codec'.input = "at" /\ busy' = busy
             \/ codec'.input = "idle" /\ busy'["PtoD"] = NoBuffer
          /\ codec'.decoding = codec.decoding /\ codec'.Prepared = codec.Prepared
          /\ codec'.Completed = codec.Completed /\ codec'.DiscardUntil = codec.DiscardUntil
          /\ codec'.PassOnAt = codec.PassOnAt /\ codec'.callback = codec.callback
      BY <2>1, <1>4, <1>a DEF PtoDMarkerTest, LetsGo, Holds, Codecs
    <2> QED BY <2>1, <2>2, <1>1 DEF Counts, Uncounted
  <1>8. CASE MarkerInput
    <2>1. UNCHANGED busy
      BY <1>8 DEF MarkerInput, processes
    <2>2. CASE codec.input = "at"
      <3>1. /\ codec'.Marker = codec.Marker /\ codec'.input = "hold"
            /\ codec'.decoding = codec.decoding /\ codec'.Prepared = codec.Prepared
            /\ codec'.Completed = codec.Completed /\ codec'.DiscardUntil = codec.DiscardUntil
            /\ codec'.PassOnAt = codec.Prepared /\ codec'.callback = codec.callback
        BY <2>2, <1>4, <1>8 DEF MarkerInput, Codecs
      <3>2. codec.Marker = NoBuffer
        BY <2>2, <1>1
      <3> QED BY <2>1, <2>2, <3>1, <3>2, <1>1, <1>2 DEF Counts, Uncounted
    <2>3. CASE codec.input = "hold"
      <3>1. /\ codec'.Marker = busy["PtoD"] /\ codec'.input = "test"
            /\ codec'.decoding = codec.decoding /\ codec'.Prepared = codec.Prepared
            /\ codec'.Completed = codec.Completed /\ codec'.DiscardUntil = codec.DiscardUntil
            /\ codec'.PassOnAt = codec.PassOnAt /\ codec'.callback = codec.callback
        BY <2>3, <1>4, <1>8 DEF MarkerInput, Codecs
      <3>2. codec.PassOnAt = codec.Prepared /\ AtCodec = {busy["PtoD"]}
        BY <2>3, <1>1 DEF AtCodec
      <3>3. busy["PtoD"] # NoBuffer /\ IsNumbered(busy["PtoD"])
        BY <2>3, <1>1, <1>2, MarkerIs
      <3>4. MarkerPlace' = Len(codec.decoding)
        BY <3>1, <3>2, <1>2 DEF MarkerPlace
      <3>5. \A k \in 1 .. Len(codec.decoding) :
              codec.decoding[k].seq < busy["PtoD"].seq /\ k <= Len(codec.decoding)
        BY <3>2, <3>3, <1>2, <1>3 DEF Ahead, IsNumbered
      <3> QED BY <2>1, <2>3, <3>1, <3>2, <3>3, <3>4, <3>5, <1>1 DEF Counts, Uncounted
    <2> QED BY <2>2, <2>3, <1>8 DEF MarkerInput
  <1>9. ASSUME NEW who \in {"input", "callback"}, TestMarkerFramePassOn(who)
        PROVE  Counts'
    <2>1. /\ codec[who] = "test"
          /\ \/ CanPassOn /\ Take(who)
             \/ /\ ~CanPassOn
                /\ codec' = [codec EXCEPT ![who] = "idle"]
                /\ Returns(who)
                /\ UNCHANGED DecodedFrameRing
      BY <1>9, NeverTaken
    <2>2. /\ codec'.decoding = codec.decoding /\ codec'.Prepared = codec.Prepared
          /\ codec'.Completed = codec.Completed /\ codec'.DiscardUntil = codec.DiscardUntil
          /\ codec'.PassOnAt = codec.PassOnAt
          /\ who = "callback" => /\ codec'.input = codec.input /\ codec'.callback = "idle"
                                 /\ codec.callback = "test" /\ busy' = busy
          /\ who = "input" => /\ codec'.input = "idle" /\ codec.input = "test"
                              /\ codec'.callback = codec.callback
                              /\ busy'["PtoD"] = NoBuffer
          /\ CanPassOn => codec'.Marker = NoBuffer
          /\ ~CanPassOn => codec'.Marker = codec.Marker
      BY <2>1, <1>4 DEF Take, Returns, LetsGo, Holds, Codecs
    <2>3. Uncounted' = Uncounted /\ MarkerPlace' = MarkerPlace
      BY <2>2 DEF Uncounted, MarkerPlace
    <2>4. codec'.input = "idle" <=> busy'["PtoD"] = NoBuffer
      BY <2>2, <1>1
    <2>5. codec'.Marker # NoBuffer =>
            /\ codec'.Marker = codec.Marker /\ codec.Completed < codec.PassOnAt
            /\ codec'.input \in {"idle", "test"}
      BY <2>2, <1>1, <1>2 DEF CanPassOn
    <2>6. codec'.input \in {"hold", "test"} => codec.input \in {"hold", "test"}
      BY <2>2
    <2> QED BY <2>2, <2>3, <2>4, <2>5, <2>6, <1>1, <1>f DEF Counts
  <1>10. CASE DecodeCompletes
    <2>1. /\ codec.callback = "idle" /\ codec.decoding # << >> /\ UNCHANGED busy
          /\ codec' = [codec EXCEPT !.decoding = Tail(codec.decoding),
                                    !.callback = "count"]
      BY <1>10 DEF DecodeCompletes, processes
    <2>2. /\ codec'.decoding = Tail(codec.decoding) /\ codec'.Prepared = codec.Prepared
          /\ codec'.Completed = codec.Completed /\ codec'.DiscardUntil = codec.DiscardUntil
          /\ codec'.Marker = codec.Marker /\ codec'.PassOnAt = codec.PassOnAt
          /\ codec'.input = codec.input /\ codec'.callback = "count"
      BY <2>1, <1>4 DEF Codecs
    <2>3. /\ Len(codec'.decoding) = Len(codec.decoding) - 1 /\ Len(codec.decoding) > 0
          /\ \A k \in 1 .. Len(codec'.decoding) : codec'.decoding[k] = codec.decoding[k + 1]
      BY <2>1, <2>2, <1>2, Tailed
    <2>4. /\ Uncounted = 0 /\ Uncounted' = 1 /\ MarkerPlace' = MarkerPlace - 1
          /\ MarkerPlace \in Int
      BY <2>1, <2>2, <2>3, <1>2 DEF Uncounted, MarkerPlace
    <2>5. codec.Marker # NoBuffer =>
            \A k \in 1 .. Len(codec'.decoding) :
              IF k <= MarkerPlace' THEN codec'.decoding[k].seq < codec'.Marker.seq
                                   ELSE codec'.Marker.seq < codec'.decoding[k].seq
      <3> SUFFICES ASSUME codec.Marker # NoBuffer,
                          NEW k \in 1 .. Len(codec'.decoding)
                   PROVE  IF k <= MarkerPlace' THEN codec'.decoding[k].seq < codec'.Marker.seq
                                   ELSE codec'.Marker.seq < codec'.decoding[k].seq
        OBVIOUS
      <3>1. k + 1 \in 1 .. Len(codec.decoding) /\ (k + 1 <= MarkerPlace <=> k <= MarkerPlace')
        BY <2>3, <2>4, <1>2
      <3> QED BY <3>1, <2>2, <2>3, <1>1
    <2>6. codec'.Prepared = codec'.Completed + Len(codec'.decoding) + Uncounted'
      BY <2>2, <2>3, <2>4, <1>1, <1>2
    <2> QED BY <2>1, <2>2, <2>5, <2>6, <1>1, <1>f DEF Counts
  <1>11. CASE CallbackCounts
    <2>1. /\ codec'.decoding = codec.decoding /\ codec'.Prepared = codec.Prepared
          /\ codec'.Completed = codec.Completed + 1 /\ codec'.DiscardUntil = codec.DiscardUntil
          /\ codec'.Marker = codec.Marker /\ codec'.PassOnAt = codec.PassOnAt
          /\ codec'.input = codec.input /\ codec'.callback = "test"
          /\ codec.callback = "count" /\ UNCHANGED busy
      BY <1>4, <1>11 DEF CallbackCounts, Counted, Codecs, processes
    <2>2. Uncounted = 1 /\ Uncounted' = 0 /\ MarkerPlace' = MarkerPlace
      BY <2>1 DEF Uncounted, MarkerPlace
    <2>3. codec'.Prepared = codec'.Completed + Len(codec'.decoding) + Uncounted'
      BY <2>1, <2>2, <1>1, <1>2
    <2> QED BY <2>1, <2>2, <2>3, <1>1, <1>f DEF Counts
  <1>12. CASE DrainFlushes
    <2>1. /\ codec'.decoding = codec.decoding /\ codec'.Prepared = codec.Prepared
          /\ codec'.Completed = codec.Completed /\ codec'.DiscardUntil = codec.Prepared
          /\ codec'.Marker = codec.Marker /\ codec'.PassOnAt = codec.PassOnAt
          /\ codec'.input = codec.input /\ codec'.callback = codec.callback
          /\ UNCHANGED busy
      BY <1>4, <1>12 DEF DrainFlushes, Codecs, processes
    <2>2. Uncounted' = Uncounted /\ MarkerPlace' = MarkerPlace
      BY <2>1 DEF Uncounted, MarkerPlace
    <2> QED BY <2>1, <2>2, <1>1, <1>2, <1>f DEF Counts
  <1>13. CASE \/ Inject \/ CtoP \/ DtoM \/ Show \/ PostM \/ DrainBegins \/ DrainChecks
              \/ DrainNumbers \/ DrainLaunches \/ DrainCalls \/ DrainWaits \/ UNCHANGED vars
    <2>1. UNCHANGED codec
      BY <1>13
      DEF Inject, CtoP, CtoPMarker, CtoPFrame, DtoM, DtoMFrame, DtoMMarker,
          DtoMMarkerClear, DtoMCall, Show, PostM, PostMTake, PostMCall,
          DrainBegins, DrainChecks, DrainNumbers, DrainLaunches, DrainCalls,
          DrainWaits, vars
    <2>2. UNCHANGED busy \/ \E x : busy' = [busy EXCEPT !["DtoM"] = x]
      BY <1>13
      DEF Inject, CtoP, CtoPMarker, CtoPFrame, DtoM, DtoMFrame, DtoMMarker,
          DtoMMarkerClear, DtoMCall, Show, PostM, PostMTake, PostMCall,
          DrainBegins, DrainChecks, DrainNumbers, DrainLaunches, DrainCalls,
          DrainWaits, vars, processes, LetsGo, Holds
    <2>3. UNCHANGED busy["PtoD"]
      BY <2>2, <1>4
    <2> QED BY <2>1, <2>3, <1>u
  <1> QED
    BY <1>6, <1>7, <1>a, <1>8, <1>9, <1>10, <1>11, <1>12, <1>13
    DEF Next, PtoD, Callback, Drain

-----------------------------------------------------------------------------
(* The markers.                                                            *)

\* What is in the chain was there before, or has just been numbered; and a
\* marker stays in it until DtoM takes it.
LEMMA ChainStep ==
  ASSUME OneAtATime, TypeOK, Status, Event, Order, Counts, Markers, [Next]_vars
  PROVE  /\ \A b \in Numbered' : IsNumbered(b) =>
              \/ b \in Numbered
              \/ CtoPMarker /\ b = Head(CollatedFrameRing)
              \/ CtoPFrame /\ Renumbers(Head(CollatedFrameRing), b)
         /\ \A b \in Numbered : b.kind = "marker" =>
              \/ b \in Numbered'
              \/ DtoMMarker /\ b = Head(DecodedFrameRing)
  <1> DEFINE D == ToSet(DecodedFrameRing)
             C == ToSet(codec.decoding)
             P == ToSet(ParsedFrameRing)
             m == codec.Marker
  <1>1. /\ m \in MarkerOrNone /\ busy["PtoD"] \in MarkerOrNone
        /\ DecodedFrameRing \in Seq(Of(Kinds)) /\ ParsedFrameRing \in Seq(Of(Kinds))
        /\ codec.decoding \in Seq(Of(Kinds)) /\ codec \in Codecs
        /\ busy \in [{"PtoD", "DtoM"} -> MarkerOrNone]
        /\ \A b \in C : b.kind = "frame"
    BY Others, Rings DEF TypeOK
  <1>2. m \in Of(Kinds)
    BY <1>1, MarkerIs
  <1>3. ~IsNumbered(NoBuffer) /\ NoBuffer.kind # "marker"
    BY DEF IsNumbered, NoBuffer, Buffer
  <1>4. m.kind = "marker" => codec.input \in {"idle", "test"} /\ AtCodec = {}
    BY <1>3 DEF Counts, AtCodec
  <1>o. ASSUME
               \A b \in D' \cup C' \cup {m'} \cup AtCodec' \cup P' : IsNumbered(b) =>
                 \/ b \in D \cup C \cup {m} \cup AtCodec \cup P
                 \/ CtoPMarker /\ b = Head(CollatedFrameRing)
                 \/ CtoPFrame /\ Renumbers(Head(CollatedFrameRing), b),
               \A b \in D \cup C \cup {m} \cup AtCodec \cup P : b.kind = "marker" =>
                 \/ b \in D' \cup C' \cup {m'} \cup AtCodec' \cup P'
                 \/ DtoMMarker /\ b = Head(DecodedFrameRing)
        PROVE  /\ \A b \in Numbered' : IsNumbered(b) =>
                    \/ b \in Numbered
                    \/ CtoPMarker /\ b = Head(CollatedFrameRing)
                    \/ CtoPFrame /\ Renumbers(Head(CollatedFrameRing), b)
               /\ \A b \in Numbered : b.kind = "marker" =>
                    \/ b \in Numbered'
                    \/ DtoMMarker /\ b = Head(DecodedFrameRing)
    BY <1>o DEF Numbered, Behind
  <1> HIDE DEF D, C, P, m
  <1>u. CASE D' = D /\ C' = C /\ m' = m /\ AtCodec' = AtCodec /\ P' = P
    BY <1>u, <1>o
  <1>5. CASE CtoPMarker
    <2>1. /\ Head(CollatedFrameRing) \in Of(Kinds)
          /\ ParsedFrameRing' = Append(ParsedFrameRing, Head(CollatedFrameRing))
      BY <1>5, MarkerAtHead
    <2>2. P' = P \cup {Head(CollatedFrameRing)}
      BY <2>1, <1>1, Appended DEF P
    <2>3. D' = D /\ C' = C /\ m' = m /\ AtCodec' = AtCodec
      BY <1>5 DEF CtoPMarker, processes, AtCodec, D, C, m
    <2> QED BY <2>2, <2>3, <1>5, <1>o
  <1>6. CASE CtoPFrame
    <2>1. PICK b \in Of({"frame", "jump"}) : Renumbers(Head(CollatedFrameRing), b)
      BY <1>6, CtoPNumbers
    <2>2. b \in Of(Kinds)
      BY DEF Of, Kinds
    <2>3. P' = P \/ P' = P \cup {b}
      <3>1. ToSet(Append(ParsedFrameRing, b)) = P \cup {b}
        BY <2>2, <1>1, Appended DEF P
      <3> QED BY <2>1, <3>1 DEF Renumbers, P
    <2>4. D' = D /\ C' = C /\ m' = m /\ AtCodec' = AtCodec
      BY <1>6 DEF CtoPFrame, processes, AtCodec, D, C, m
    <2> QED BY <2>1, <2>3, <2>4, <1>6, <1>o
  <1>7. CASE PtoDFrame
    <2> DEFINE b == Head(ParsedFrameRing)
    <2>1. /\ ParsedFrameRing # << >> /\ ParsedFrameRing' = Tail(ParsedFrameRing)
          /\ UNCHANGED <<DecodedFrameRing, busy>> /\ b.kind = "frame"
          /\ \/ codec' = codec
             \/ codec' = [codec EXCEPT !.decoding = Append(codec.decoding, b),
                                       !.Prepared = codec.Prepared + 1]
      BY <1>7 DEF PtoDFrame, processes, player
    <2>2. /\ codec'.Marker = codec.Marker /\ codec'.input = codec.input
          /\ \/ codec'.decoding = codec.decoding
             \/ codec'.decoding = Append(codec.decoding, b)
      BY <2>1, <1>1 DEF Codecs
    <2>3. D' = D /\ m' = m /\ AtCodec' = AtCodec
      BY <2>1, <2>2 DEF AtCodec, D, m
    <2>4. b \in Of(Kinds) /\ P = {b} \cup P'
      BY <2>1, <1>1, Tailed DEF P
    <2> HIDE DEF b
    <2>5. C' = C \/ C' = C \cup {b}
      <3>1. ToSet(Append(codec.decoding, b)) = C \cup {b}
        BY <2>4, <1>1, Appended DEF C
      <3> QED BY <2>2, <3>1 DEF C
    <2> QED BY <2>1, <2>3, <2>4, <2>5, <1>o
  <1>8. CASE PtoDMarker
    <2> DEFINE b == Head(ParsedFrameRing)
    <2>1. /\ ParsedFrameRing # << >> /\ ParsedFrameRing' = Tail(ParsedFrameRing)
          /\ UNCHANGED DecodedFrameRing /\ b.kind = "marker"
          /\ codec' = [codec EXCEPT !.input = "flag"] /\ codec.Marker = NoBuffer
          /\ busy' = [busy EXCEPT !["PtoD"] = b] /\ busy["PtoD"] = NoBuffer
      BY <1>8, NoneHeldYet DEF PtoDMarker, Holds, Idle
    <2>2. /\ codec'.Marker = NoBuffer /\ codec'.input = "flag"
          /\ codec'.decoding = codec.decoding /\ busy'["PtoD"] = b
      BY <2>1, <1>1 DEF Codecs
    <2>3. D' = D /\ m' = NoBuffer /\ AtCodec' = {b} /\ C' = C
      BY <2>1, <2>2 DEF AtCodec, D, C, m
    <2>4. b \in Of(Kinds) /\ P = {b} \cup P' /\ b \in P
      BY <2>1, <1>1, Tailed DEF P
    <2>5. AtCodec \subseteq {NoBuffer}
      BY <2>1 DEF AtCodec
    <2>6. m = NoBuffer
      BY <2>1 DEF m
    <2> HIDE DEF b
    <2> QED BY <2>3, <2>4, <2>5, <2>6, <1>3, <1>o
  <1>a. CASE PtoDMarkerTest
    <2>1. codec.input = "flag" /\ codec.Marker = NoBuffer /\ ~Discarding["PtoD"]
      BY <1>a DEF PtoDMarkerTest, Counts
    <2>2. /\ codec'.decoding = codec.decoding /\ codec'.Marker = NoBuffer
          /\ codec'.input = "at" /\ busy' = busy
          /\ UNCHANGED <<DecodedFrameRing, ParsedFrameRing>>
      BY <2>1, <1>1, <1>a DEF PtoDMarkerTest, Codecs, rings
    <2>3. D' = D /\ P' = P /\ C' = C /\ m' = m /\ AtCodec' = AtCodec
      BY <2>1, <2>2 DEF AtCodec, D, P, C, m
    <2> QED BY <2>3, <1>u
  <1>9. CASE MarkerInput
    <2>1. D' = D /\ P' = P /\ C' = C /\ UNCHANGED busy
      BY <1>1, <1>9 DEF MarkerInput, rings, processes, Codecs, D, P, C
    <2>2. CASE codec.input = "at"
      <3>1. codec'.Marker = codec.Marker /\ codec'.input = "hold"
        BY <2>2, <1>1, <1>9 DEF MarkerInput, Codecs
      <3>2. m' = m /\ AtCodec' = AtCodec
        BY <2>1, <2>2, <3>1 DEF AtCodec, m
      <3> QED BY <3>2, <2>1, <1>u
    <2>3. CASE codec.input = "hold"
      <3>1. codec'.Marker = busy["PtoD"] /\ codec'.input = "test"
        BY <2>3, <1>1, <1>9 DEF MarkerInput, Codecs
      <3>2. m' = busy["PtoD"] /\ AtCodec' = {} /\ AtCodec = {busy["PtoD"]}
        BY <2>1, <2>3, <3>1 DEF AtCodec, m
      <3>3. m.kind # "marker"
        BY <2>3, <1>4
      <3> QED BY <2>1, <3>2, <3>3, <1>o
    <2> QED BY <2>2, <2>3, <1>9 DEF MarkerInput
  <1>10. ASSUME NEW who \in {"input", "callback"}, TestMarkerFramePassOn(who)
         PROVE  /\ D' \subseteq D \cup {m} /\ D \subseteq D'
                /\ C' = C /\ P' = P /\ AtCodec' = AtCodec
                /\ \/ m' = m
                   \/ m' = NoBuffer /\ (m.kind = "marker" => m \in D')
    <2>1. /\ codec[who] = "test"
          /\ \/ CanPassOn /\ Take(who)
             \/ /\ ~CanPassOn
                /\ codec' = [codec EXCEPT ![who] = "idle"]
                /\ Returns(who)
                /\ UNCHANGED DecodedFrameRing
      BY <1>10, NeverTaken
    <2>2. UNCHANGED ParsedFrameRing
      BY <1>10 DEF TestMarkerFramePassOn
    <2>3. /\ codec'.decoding = codec.decoding
          /\ who = "callback" => codec'.input = codec.input /\ busy' = busy
          /\ who = "input" => codec'.input = "idle" /\ codec.input = "test"
      BY <2>1, <1>1 DEF Take, Returns, Codecs
    <2>4. C' = C /\ P' = P /\ AtCodec' = AtCodec
      BY <2>2, <2>3 DEF AtCodec, C, P
    <2>5. CASE CanPassOn /\ Take(who)
      <3>1. /\ m' = NoBuffer /\ m # NoBuffer
            /\ DecodedFrameRing' = Append(DecodedFrameRing, m)
        BY <2>5, <1>1 DEF Take, CanPassOn, Codecs, m
      <3>2. D' = D \cup {m}
        BY <3>1, <1>1, <1>2, Appended DEF D
      <3> QED BY <2>4, <3>1, <3>2
    <2>6. CASE ~CanPassOn
      <3>1. D' = D /\ m' = m
        BY <2>1, <2>6, <1>1 DEF Codecs, D, m
      <3> QED BY <2>4, <3>1
    <2> QED BY <2>1, <2>5, <2>6
  <1>11. CASE TestMarkerFramePassOn("input") \/ TestMarkerFramePassOn("callback")
    <2>1. /\ D' \subseteq D \cup {m} /\ D \subseteq D'
          /\ C' = C /\ P' = P /\ AtCodec' = AtCodec
          /\ \/ m' = m
             \/ m' = NoBuffer /\ (m.kind = "marker" => m \in D')
      BY <1>10, <1>11
    <2> QED BY <2>1, <1>3, <1>o
  <1>12. CASE DecodeCompletes
    <2> DEFINE b == Head(codec.decoding)
    <2>1. /\ codec.decoding # << >>
          /\ codec' = [codec EXCEPT !.decoding = Tail(codec.decoding),
                                    !.callback = "count"]
          /\ UNCHANGED <<ParsedFrameRing, busy>>
          /\ \/ DecodedFrameRing' = DecodedFrameRing
             \/ DecodedFrameRing' = Append(DecodedFrameRing, b)
      BY <1>12 DEF DecodeCompletes, processes, player
    <2>2. /\ codec'.decoding = Tail(codec.decoding) /\ codec'.Marker = codec.Marker
          /\ codec'.input = codec.input
      BY <2>1, <1>1 DEF Codecs
    <2>3. P' = P /\ AtCodec' = AtCodec /\ m' = m
      BY <2>1, <2>2 DEF AtCodec, P, m
    <2>4. b \in Of(Kinds) /\ C = {b} \cup C' /\ b.kind = "frame"
      BY <2>1, <2>2, <1>1, Tailed DEF C
    <2> HIDE DEF b
    <2>5. D' = D \/ D' = D \cup {b}
      <3>1. ToSet(Append(DecodedFrameRing, b)) = D \cup {b}
        BY <2>4, <1>1, Appended DEF D
      <3> QED BY <2>1, <3>1 DEF D
    <2> QED BY <2>3, <2>4, <2>5, <1>o
  <1>13. CASE DtoMFrame \/ DtoMMarker \/ DtoMCall
    <2> DEFINE b == Head(DecodedFrameRing)
    <2>1. /\ DecodedFrameRing # << >> /\ DecodedFrameRing' = Tail(DecodedFrameRing)
          /\ UNCHANGED <<ParsedFrameRing, codec, busy["PtoD"]>>
          /\ b.kind = "marker" => DtoMMarker
      <3>1. CASE DtoMFrame
        BY <3>1 DEF DtoMFrame
      <3>2. CASE DtoMMarker
        <4>1. busy'["PtoD"] = busy["PtoD"]
          BY <3>2, <1>1 DEF DtoMMarker, Holds
        <4> QED BY <3>2, <4>1 DEF DtoMMarker
      <3>3. CASE DtoMCall
        BY <3>3 DEF DtoMCall, IsCall
      <3> QED BY <1>13, <3>1, <3>2, <3>3
    <2>2. C' = C /\ P' = P /\ AtCodec' = AtCodec /\ m' = m
      BY <2>1 DEF AtCodec, C, P, m
    <2>3. D = {b} \cup D'
      BY <2>1, <1>1, Tailed DEF D
    <2> QED BY <2>1, <2>2, <2>3, <1>o
  <1>14. CASE DrainCalls
    <2> DEFINE b == Buffer("reset", drain, DrainSequenceNumber)
    <2>1. /\ UNCHANGED <<ParsedFrameRing, codec, busy>>
          /\ DecodedFrameRing' = Append(DecodedFrameRing, b)
               \/ DecodedFrameRing' = DecodedFrameRing
      BY <1>14 DEF DrainCalls, processes
    <2>2. b \in Of(Kinds) /\ ~IsNumbered(b)
      <3>1. drain \in 1 .. drain
        BY <1>14, Others DEF DrainCalls, Status
      <3>2. DrainSequenceNumber \in Nat /\ drain \in Nat
        BY <3>1, Others DEF DrainSequenceNumber
      <3> QED BY <3>2 DEF Buffer, Of, Kinds, IsNumbered
    <2>3. C' = C /\ P' = P /\ AtCodec' = AtCodec /\ m' = m
      BY <2>1 DEF AtCodec, C, P, m
    <2> HIDE DEF b
    <2>4. D' = D \/ D' = D \cup {b}
      <3>1. ToSet(Append(DecodedFrameRing, b)) = D \cup {b}
        BY <2>2, <1>1, Appended DEF D
      <3> QED BY <2>1, <3>1 DEF D
    <2> QED BY <2>2, <2>3, <2>4, <1>o
  <1>15. CASE \/ Inject \/ CallbackCounts \/ DtoMMarkerClear \/ Show \/ PostM
              \/ DrainBegins \/ DrainFlushes \/ DrainChecks \/ DrainNumbers
              \/ DrainLaunches \/ DrainWaits \/ UNCHANGED vars
    <2>1. D' = D /\ P' = P
      BY <1>15
      DEF Inject, CallbackCounts, DtoMMarkerClear, Show, PostM, PostMTake,
          PostMCall, DrainBegins, DrainFlushes, DrainChecks, DrainNumbers,
          DrainLaunches, DrainWaits, vars, rings, D, P
    <2>2. UNCHANGED <<codec.decoding, codec.Marker, codec.input>>
      BY <1>1, <1>15
      DEF Inject, CallbackCounts, DtoMMarkerClear, Show, PostM, PostMTake,
          PostMCall, DrainBegins, DrainFlushes, DrainChecks, DrainNumbers,
          DrainLaunches, DrainWaits, vars, Codecs
    <2>3. UNCHANGED busy["PtoD"]
      <3>1. UNCHANGED busy \/ LetsGo("DtoM")
        BY <1>15
        DEF Inject, CallbackCounts, DtoMMarkerClear, Show, PostM, PostMTake,
            PostMCall, DrainBegins, DrainFlushes, DrainChecks, DrainNumbers,
            DrainLaunches, DrainWaits, vars, processes
      <3> QED BY <3>1, <1>1 DEF LetsGo, Holds
    <2>4. C' = C /\ m' = m /\ AtCodec' = AtCodec
      BY <2>2, <2>3 DEF AtCodec, C, m
    <2> QED BY <2>1, <2>4, <1>u
  <1> QED
    BY <1>5, <1>6, <1>7, <1>8, <1>a, <1>9, <1>11, <1>12, <1>13, <1>14, <1>15
    DEF Next, CtoP, PtoD, Callback, DtoM, Drain

\* A marker of a drain goes on being that.
LEMMA MarkerStays ==
  ASSUME OneAtATime, TypeOK, Status, [Next]_vars, NEW b, MarkerOf(b)
  PROVE  MarkerOf(b)'
  <1>1. b.id \in 1 .. drain /\ Launched(b.id) /\ b.seq = drains[b.id].seq
    BY DEF MarkerOf
  <1>2. /\ b.id \in 1 .. drain' /\ drains'[b.id].seq = drains[b.id].seq
        /\ drains'[b.id].behind = drains[b.id].behind
    BY <1>1, DrainsGrow
  <1> QED BY <1>1, <1>2 DEF MarkerOf, Launched, Never

\* What a step makes of the coded ring.
LEMMA CollatedStep ==
  ASSUME OneAtATime, TypeOK, Status, [Next]_vars
  PROVE  \/ CollatedFrameRing' = CollatedFrameRing /\ ~CtoP /\ ~DrainLaunches
         \/ \E e \in Of({"frame", "jump"}) :
              /\ CollatedFrameRing' = Append(CollatedFrameRing, e)
              /\ Inject \/ DrainFlushes
              /\ Inject => e.kind = "frame" /\ e.id = frames + 1
              /\ DrainFlushes => e.kind = "jump"
         \/ /\ CtoP /\ CollatedFrameRing # << >>
            /\ CollatedFrameRing' = Tail(CollatedFrameRing)
         \/ \E e \in Of({"marker"}) :
              /\ DrainLaunches /\ e.id = drain /\ e.seq = drains[drain].seq
              /\ CollatedFrameRing' = Append(CollatedFrameRing, e)
  <1>1. CASE CtoP
    BY <1>1 DEF CtoP, CtoPMarker, CtoPFrame
  <1>2. CASE Inject
    <2>1. frames + 1 \in Nat
      BY Others
    <2>2. /\ Buffer("frame", frames + 1, 0) \in Of({"frame", "jump"})
          /\ Buffer("frame", frames + 1, 0).kind = "frame"
          /\ Buffer("frame", frames + 1, 0).id = frames + 1
      BY <2>1 DEF Buffer, Of
    <2>3. ~DrainFlushes
      BY <1>2, <2>1, Others DEF Inject, DrainFlushes, input
    <2> QED BY <2>2, <2>3, <1>2 DEF Inject
  <1>3. CASE DrainFlushes
    <2>1. frames + 1 \in Nat /\ drain \in Nat
      BY Others
    <2>2. /\ Buffer("jump", drain, 0) \in Of({"frame", "jump"})
          /\ Buffer("jump", drain, 0).kind = "jump"
      BY <2>1 DEF Buffer, Of
    <2>3. ~Inject
      BY <1>3, <2>1, Others DEF Inject, DrainFlushes, input
    <2> QED BY <2>2, <2>3, <1>3 DEF DrainFlushes
  <1>4. CASE DrainLaunches
    <2>1. drain \in 1 .. drain
      BY <1>4, Launches
    <2>2. drains[drain].seq \in Nat /\ drain \in Nat
      BY <2>1, Others
    <2>3. /\ Buffer("marker", drain, DrainSequenceNumber) \in Of({"marker"})
          /\ Buffer("marker", drain, DrainSequenceNumber).id = drain
          /\ Buffer("marker", drain, DrainSequenceNumber).seq = drains[drain].seq
      BY <2>2 DEF Buffer, Of, DrainSequenceNumber
    <2> QED BY <2>3, <1>4 DEF DrainLaunches
  <1>5. CASE ~(CtoP \/ Inject \/ DrainFlushes \/ DrainLaunches)
    BY <1>5
    DEF Next, PtoD, Callback, DtoM, PostM, Drain, vars, rings, PtoDFrame,
        PtoDMarker, PtoDMarkerTest,
        MarkerInput, TestMarkerFramePassOn, DecodeCompletes,
        CallbackCounts, DtoMFrame, DtoMMarker, DtoMMarkerClear, DtoMCall, Show,
        PostMTake, PostMCall, DrainBegins, DrainChecks, DrainNumbers,
        DrainCalls, DrainWaits
  <1> QED BY <1>1, <1>2, <1>3, <1>4, <1>5

\* A drain is launched by DrainLaunches only, and then it is the last.
LEMMA LaunchedBefore ==
  ASSUME OneAtATime, TypeOK, Status, [Next]_vars,
         NEW d \in 1 .. drain', Launched(d)'
  PROVE  d \in 1 .. drain /\ (Launched(d) \/ (DrainLaunches /\ d = drain))
  <1>0. drain \in Nat
    BY Others
  <1>1. CASE UNCHANGED drains
    BY <1>0, <1>1 DEF drain, Launched, Never
  <1>2. CASE DrainBegins
    <2>1. /\ drain' = drain + 1
          /\ \A c \in 1 .. drain : drains'[c] = drains[c]
          /\ drains'[drain + 1].behind = Never
      BY <1>2, Begins
    <2>2. drains'[d].behind # Never
      BY DEF Launched, Never
    <2>3. d \in 1 .. drain
      BY <1>0, <2>1, <2>2
    <2> QED BY <2>1, <2>2, <2>3 DEF Launched
  <1>3. CASE DrainNumbers
    <2>1. /\ drain \in 1 .. drain /\ drain' = drain
          /\ \A c \in 1 .. drain : c # drain => drains'[c] = drains[c]
          /\ drains'[drain].behind = drains[drain].behind
      BY <1>3, Numbers
    <2>2. drains'[d].behind = drains[d].behind
      BY <2>1
    <2> QED BY <2>1, <2>2 DEF Launched, Never
  <1>4. CASE DrainLaunches
    <2>1. /\ drain \in 1 .. drain /\ drain' = drain
          /\ \A c \in 1 .. drain : c # drain => drains'[c] = drains[c]
      BY <1>4, Launches
    <2>2. d # drain => drains'[d].behind = drains[d].behind
      BY <2>1
    <2> QED BY <1>4, <2>1, <2>2 DEF Launched, Never
  <1>5. CASE DrainWaits
    <2>1. /\ drain \in 1 .. drain /\ drain' = drain
          /\ \A c \in 1 .. drain : c # drain => drains'[c] = drains[c]
          /\ drains'[drain].behind = drains[drain].behind
      BY <1>5, ReturnsAtLast
    <2>2. drains'[d].behind = drains[d].behind
      BY <2>1
    <2> QED BY <2>1, <2>2 DEF Launched, Never
  <1> QED BY <1>1, <1>2, <1>3, <1>4, <1>5, OtherSteps

\* The collator's numbering is what counts on, and the index of the marker
\* is that of the last one launched until it has been numbered.
LEMMA NumberingStep ==
  ASSUME TypeOK, [Next]_vars
  PROVE  /\ ~CtoP => NextBufferSequenceNumber' = NextBufferSequenceNumber
         /\ ~CtoP /\ ~DrainLaunches =>
              MarkerInCodedFrameIndex' = MarkerInCodedFrameIndex
         /\ CtoPFrame => /\ NextBufferSequenceNumber' = NextBufferSequenceNumber + 1
                         /\ MarkerInCodedFrameIndex' = MarkerInCodedFrameIndex
         /\ DrainLaunches => MarkerInCodedFrameIndex' = drain
         /\ CtoPMarker => MarkerInCodedFrameIndex' = INVALID
         /\ CtoP => UNCHANGED <<drainer, drains, frames>>
         /\ DrainLaunches => ~CtoP
  <1>1. CASE CtoP
    <2>1. DrainLaunches => drainer'.at = "reset" /\ drainer.at = "launch"
      BY DEF DrainLaunches, Goes, TypeOK
    <2>2. UNCHANGED <<drainer, drains, frames>>
      BY <1>1 DEF CtoP, CtoPMarker, CtoPFrame, input
    <2>3. ~DrainLaunches
      BY <2>1, <2>2
    <2> QED BY <1>1, <2>2, <2>3 DEF CtoP, CtoPMarker, CtoPFrame
  <1>2. CASE ~CtoP
    <2>1. ~CtoPFrame /\ ~CtoPMarker
      BY <1>2 DEF CtoP
    <2> QED
      BY <1>2, <2>1
      DEF Next, PtoD, Callback, DtoM, PostM, Drain, vars, player, Inject,
        PtoDFrame, PtoDMarker, PtoDMarkerTest,
        MarkerInput, TestMarkerFramePassOn,
        DecodeCompletes, CallbackCounts, DtoMFrame, DtoMMarker,
        DtoMMarkerClear, DtoMCall, Show, PostMTake, PostMCall, DrainBegins,
        DrainFlushes, DrainChecks, DrainNumbers, DrainLaunches, DrainCalls,
        DrainWaits
  <1> QED BY <1>1, <1>2

\* The last drain is not launched when its step to launch it comes, and then
\* there is no marker in the coded ring.
LEMMA NoneBeforeLaunch ==
  ASSUME TypeOK, Status, Event, Order, Markers,
         drainer.at \in {"number", "launch"}
  PROVE  /\ drain \in 1 .. drain /\ ~Launched(drain)
         /\ MarkerInCodedFrameIndex = INVALID
         /\ \A b \in ToSet(CollatedFrameRing) \cup Numbered : b.kind # "marker"
  <1>1. drain \in 1 .. drain /\ MarkerInCodedFrameIndex = INVALID
    BY Others DEF Status
  <1>2. ~Over(drain)
    BY <1>1 DEF Over
  <1>3. ~Launched(drain)
    BY <1>1, <1>2 DEF Status
  <1>4. \A b \in ToSet(CollatedFrameRing) \cup Numbered : b.kind # "marker"
    <2> SUFFICES ASSUME NEW b \in ToSet(CollatedFrameRing) \cup Numbered,
                        b.kind = "marker"
                 PROVE  FALSE
      OBVIOUS
    <2> QED BY <1>3, LastMarker
  <1> QED BY <1>1, <1>3, <1>4

\* Markers is kept: no number reaches the one that the marker has.
LEMMA MarkersStep ==
  ASSUME OneAtATime, TypeOK, Status, Event, Order, Counts, Markers, Room,
         [Next]_vars
  PROVE  Markers'
  <1> DEFINE R == CollatedFrameRing
             N == NextBufferSequenceNumber
             Is(b) == /\ b.id \in 1 .. drain' /\ drains'[b.id].behind # Never
                      /\ b.seq = drains'[b.id].seq
  <1>0. TypeOK'
    BY TypeStep
  <1>1. /\ \A b \in Numbered : b.kind = "marker" => MarkerOf(b)
        /\ \A i \in 1 .. Len(R) : R[i].kind = "marker" =>
              /\ MarkerOf(R[i]) /\ R[i].id = MarkerInCodedFrameIndex
              /\ N + i - 1 <= R[i].seq
              /\ \A j \in 1 .. Len(R) : R[j].kind = "marker" => i = j
        /\ MarkerInCodedFrameIndex # INVALID => HasMarker(MarkerInCodedFrameIndex)
        /\ \A d \in 1 .. drain : Launched(d) /\ ~HasMarker(d) => drains[d].seq < N
    BY DEF Markers
  <1>2. /\ R \in Seq(Of(Kinds)) /\ Len(R) \in Nat /\ N \in Nat /\ drain \in Nat
        /\ \A i \in 1 .. Len(R) : R[i] \in Of(Kinds)
        /\ \A b : b \in ToSet(R) <=> \E i \in 1 .. Len(R) : R[i] = b
        /\ \A d \in 1 .. drain : drains[d].seq \in Nat
    BY Others, Rings, Holding
  <1>3. /\ R' \in Seq(Of(Kinds)) /\ Len(R') \in Nat
        /\ \A b : b \in ToSet(R') <=> \E i \in 1 .. Len(R') : R'[i] = b
    <2>1. /\ R' \in Seq(Of({"frame", "jump", "marker"}))
          /\ {"frame", "jump", "marker"} \in SUBSET Kinds
      BY <1>0 DEF TypeOK, Kinds
    <2>2. R' \in Seq(Of(Kinds))
      BY <2>1, RingIs
    <2> QED BY <2>2, Holding
  <1>4. \A b : MarkerOf(b) => Is(b)
    <2> SUFFICES ASSUME NEW b, MarkerOf(b)
                 PROVE  Is(b)
      OBVIOUS
    <2>1. MarkerOf(b)'
      BY MarkerStays
    <2> QED BY <2>1 DEF MarkerOf, Launched, Never
  <1>5. \A d \in 1 .. drain : Launched(d) =>
          d \in 1 .. drain' /\ drains'[d].seq = drains[d].seq
    BY DrainsGrow
  <1>6. \A d \in 1 .. drain' : Launched(d)' =>
          d \in 1 .. drain /\ (Launched(d) \/ (DrainLaunches /\ d = drain))
    BY LaunchedBefore
  <1>7. \A b \in Of(Kinds) : b.seq \in Nat /\ b.id \in Nat
    BY DEF Of
  <1>8. \A b \in Numbered' : b.kind = "marker" => Is(b)
    <2> SUFFICES ASSUME NEW b \in Numbered', b.kind = "marker"
                 PROVE  Is(b)
      OBVIOUS
    <2>1. CASE b \in Numbered
      BY <2>1, <1>1, <1>4
    <2>2. CASE CtoPMarker /\ b = Head(R)
      BY <2>2, <1>4, MarkerAtHead
    <2>3. CASE CtoPFrame /\ Renumbers(Head(R), b)
      <3>1. Head(R) \in Of({"frame", "jump"}) /\ b.kind = Head(R).kind
        BY <2>3, CtoPNumbers DEF Renumbers
      <3>2. \A x \in Of({"frame", "jump"}) : x.kind # "marker"
        BY DEF Of
      <3> QED BY <3>1, <3>2
    <2> QED BY <2>1, <2>2, <2>3, ChainStep DEF IsNumbered
  <1>9. CASE R' = R /\ ~CtoP /\ ~DrainLaunches
    <2>1. N' = N /\ MarkerInCodedFrameIndex' = MarkerInCodedFrameIndex
      BY <1>9, NumberingStep
    <2>2. \A d : HasMarker(d)' <=> HasMarker(d)
      BY <1>9 DEF HasMarker
    <2>3. MarkerInCodedFrameIndex' # INVALID => HasMarker(MarkerInCodedFrameIndex)'
      BY <1>9, <2>1, <1>1 DEF HasMarker
    <2>4. \A d \in 1 .. drain' : Launched(d)' /\ ~HasMarker(d)' => drains'[d].seq < N'
      BY <2>1, <2>2, <1>1, <1>5, <1>6, <1>9
    <2>5. \A i \in 1 .. Len(R') : R'[i].kind = "marker" =>
            /\ Is(R'[i]) /\ R'[i].id = MarkerInCodedFrameIndex'
            /\ N' + i - 1 <= R'[i].seq
            /\ \A j \in 1 .. Len(R') : R'[j].kind = "marker" => i = j
      BY <2>1, <1>1, <1>4, <1>9
    <2> QED BY <2>3, <2>4, <2>5, <1>8 DEF Markers, MarkerOf, Launched, Never
  <1>10. ASSUME NEW e \in Of({"frame", "jump"}), R' = Append(R, e),
                Inject \/ DrainFlushes
         PROVE  Markers'
    <2>0. /\ e \in Of(Kinds) /\ e.kind # "marker"
          /\ ~CtoP /\ ~DrainLaunches
      <3>1. e \in Of(Kinds) /\ e.kind # "marker"
        BY DEF Of, Kinds
      <3>2. N' = N /\ UNCHANGED drains
        BY <1>10 DEF Inject, DrainFlushes, player, input
      <3>3. ~CtoP
        <4>1. Len(R') = Len(R) + 1
          BY <1>10, <1>2, <3>1, Appended
        <4>2. CtoP => R # << >> /\ R' = Tail(R)
          BY DEF CtoP, CtoPMarker, CtoPFrame
        <4>3. CtoP => Len(R') = Len(R) - 1
          BY <4>2, <1>2, Tailed
        <4> QED BY <4>1, <4>3, <1>2
      <3>4. ~DrainLaunches
        <4>1. drainer'.at # "reset" \/ drainer.at # "launch"
          BY <1>10 DEF Inject, DrainFlushes, Goes, TypeOK
        <4> QED BY <4>1 DEF DrainLaunches, Goes, TypeOK
      <3> QED BY <3>1, <3>3, <3>4
    <2>1. N' = N /\ MarkerInCodedFrameIndex' = MarkerInCodedFrameIndex
      BY <2>0, NumberingStep
    <2>a. /\ Len(R') = Len(R) + 1 /\ R'[Len(R) + 1] = e
          /\ \A i \in 1 .. Len(R) : R'[i] = R[i]
          /\ ToSet(R') = ToSet(R) \cup {e}
      BY <2>0, <1>2, <1>10, Appended
    <2>b. \A i \in 1 .. Len(R') : R'[i].kind = "marker" =>
            i \in 1 .. Len(R) /\ R'[i] = R[i]
      BY <2>0, <2>a, <1>2
    <2>2. \A d : HasMarker(d)' <=> HasMarker(d)
      BY <2>0, <2>a DEF HasMarker
    <2>3. MarkerInCodedFrameIndex' # INVALID => HasMarker(MarkerInCodedFrameIndex)'
      <3>1. HasMarker(MarkerInCodedFrameIndex) =>
              \E b \in ToSet(R') : b.kind = "marker" /\ b.id = MarkerInCodedFrameIndex
        BY <2>a DEF HasMarker
      <3> QED BY <3>1, <2>1, <1>1 DEF HasMarker
    <2>4. \A d \in 1 .. drain' : Launched(d)' /\ ~HasMarker(d)' => drains'[d].seq < N'
      BY <2>0, <2>1, <2>2, <1>1, <1>5, <1>6
    <2>5. \A i \in 1 .. Len(R') : R'[i].kind = "marker" =>
            /\ Is(R'[i]) /\ R'[i].id = MarkerInCodedFrameIndex'
            /\ N' + i - 1 <= R'[i].seq
            /\ \A j \in 1 .. Len(R') : R'[j].kind = "marker" => i = j
      BY <2>1, <2>b, <1>1, <1>4
    <2> QED BY <2>3, <2>4, <2>5, <1>8 DEF Markers, MarkerOf, Launched, Never
  <1>11. CASE CtoPMarker
    <2> DEFINE b == Head(R)
    <2>1. /\ b \in Of(Kinds) /\ b.kind = "marker" /\ b.id = MarkerInCodedFrameIndex
          /\ MarkerOf(b) /\ N <= b.seq /\ N' = b.seq + 1
          /\ \A x \in ToSet(R') : x.kind # "marker"
      BY <1>11, MarkerAtHead
    <2>2. MarkerInCodedFrameIndex' = INVALID /\ ~DrainLaunches /\ R # << >>
          /\ R' = Tail(R)
      BY <1>11, NumberingStep DEF CtoPMarker, CtoP
    <2>3. \A i \in 1 .. Len(R') : R'[i].kind # "marker"
      BY <2>1, <1>3
    <2>4. ToSet(R) = {b} \cup ToSet(R')
      BY <2>2, <1>2, Tailed
    <2> HIDE DEF b
    <2>5. \A d \in 1 .. drain : Launched(d) => drains[d].seq < N'
      <3> SUFFICES ASSUME NEW d \in 1 .. drain, Launched(d)
                   PROVE  drains[d].seq < N'
        OBVIOUS
      <3>1. CASE HasMarker(d)
        <4>1. b.id = d
          BY <2>1, <2>4, <3>1 DEF HasMarker
        <4> QED BY <4>1, <2>1, <1>2, <1>7 DEF MarkerOf
      <3>2. CASE ~HasMarker(d)
        BY <3>2, <2>1, <1>1, <1>2, <1>7
      <3> QED BY <3>1, <3>2
    <2>6. \A d \in 1 .. drain' : Launched(d)' => drains'[d].seq < N'
      BY <2>2, <2>5, <1>5, <1>6
    <2> QED BY <2>2, <2>3, <2>6, <1>8 DEF Markers, MarkerOf, Launched, Never
  <1>12. CASE CtoPFrame
    <2> DEFINE b == Head(R)
    <2>1. b \in Of({"frame", "jump"})
      BY <1>12, CtoPNumbers
    <2>2. b.kind # "marker"
      <3> HIDE DEF b
      <3> QED BY <2>1 DEF Of
    <2>3. /\ MarkerInCodedFrameIndex' = MarkerInCodedFrameIndex /\ N' = N + 1
          /\ R # << >> /\ R' = Tail(R) /\ ~DrainLaunches
      BY <1>12, NumberingStep DEF CtoPFrame, CtoP
    <2>4. /\ ToSet(R) = {b} \cup ToSet(R') /\ Len(R') = Len(R) - 1
          /\ \A i \in 1 .. Len(R') : R'[i] = R[i + 1]
      BY <2>3, <1>2, Tailed
    <2> HIDE DEF b
    <2>5. \A d : HasMarker(d)' <=> HasMarker(d)
      BY <2>2, <2>4 DEF HasMarker
    <2>6. MarkerInCodedFrameIndex' # INVALID => HasMarker(MarkerInCodedFrameIndex)'
      <3>1. HasMarker(MarkerInCodedFrameIndex) =>
              \E x \in ToSet(R') : x.kind = "marker" /\ x.id = MarkerInCodedFrameIndex
        BY <2>2, <2>4 DEF HasMarker
      <3> QED BY <3>1, <2>3, <1>1 DEF HasMarker
    <2>7. \A d \in 1 .. drain' : Launched(d)' /\ ~HasMarker(d)' => drains'[d].seq < N'
      <3>1. \A d \in 1 .. drain : Launched(d) /\ ~HasMarker(d) => drains[d].seq < N'
        BY <2>3, <1>1, <1>2
      <3> QED BY <3>1, <2>3, <2>5, <1>5, <1>6
    <2>8. \A i \in 1 .. Len(R') : R'[i].kind = "marker" =>
            /\ Is(R'[i]) /\ R'[i].id = MarkerInCodedFrameIndex'
            /\ N' + i - 1 <= R'[i].seq
            /\ \A j \in 1 .. Len(R') : R'[j].kind = "marker" => i = j
      <3> SUFFICES ASSUME NEW i \in 1 .. Len(R'), R'[i].kind = "marker"
                   PROVE  /\ Is(R'[i]) /\ R'[i].id = MarkerInCodedFrameIndex'
                          /\ N' + i - 1 <= R'[i].seq
                          /\ \A j \in 1 .. Len(R') : R'[j].kind = "marker" => i = j
        OBVIOUS
      <3>1. i + 1 \in 1 .. Len(R) /\ R'[i] = R[i + 1]
        BY <2>4, <1>2
      <3>2. /\ MarkerOf(R[i + 1]) /\ R[i + 1].id = MarkerInCodedFrameIndex
            /\ N + (i + 1) - 1 <= R[i + 1].seq
            /\ \A j \in 1 .. Len(R) : R[j].kind = "marker" => i + 1 = j
        BY <3>1, <1>1
      <3>3. Is(R[i + 1])
        BY <3>2, <1>4
      <3>4. N' + i - 1 <= R[i + 1].seq
        BY <3>2, <2>3, <1>2
      <3>5. \A j \in 1 .. Len(R') : R'[j].kind = "marker" => i = j
        <4>1. \A j \in 1 .. Len(R') : j + 1 \in 1 .. Len(R) /\ R'[j] = R[j + 1]
          BY <2>4, <1>2
        <4>2. \A j \in 1 .. Len(R') : R'[j].kind = "marker" => i + 1 = j + 1
          BY <3>2, <4>1
        <4> QED BY <4>2
      <3> QED BY <3>1, <3>2, <3>3, <3>4, <3>5, <2>3
    <2> QED BY <2>6, <2>7, <2>8, <1>8 DEF Markers, MarkerOf, Launched, Never
  <1>13. ASSUME NEW e \in Of({"marker"}), DrainLaunches,
                e.id = drain, e.seq = drains[drain].seq, R' = Append(R, e)
         PROVE  Markers'
    <2>1. /\ e \in Of(Kinds) /\ e.kind = "marker" /\ drainer.at = "launch"
      BY <1>13 DEF Of, Kinds, DrainLaunches
    <2>2. /\ drain \in 1 .. drain
          /\ \A b \in ToSet(R) : b.kind # "marker"
      BY <2>1, NoneBeforeLaunch
    <2>3. N' = N /\ MarkerInCodedFrameIndex' = drain
      BY <1>13, NumberingStep
    <2>4. /\ Len(R') = Len(R) + 1 /\ R'[Len(R) + 1] = e
          /\ \A i \in 1 .. Len(R) : R'[i] = R[i]
          /\ ToSet(R') = ToSet(R) \cup {e}
      BY <2>1, <1>2, <1>13, Appended
    <2>5. /\ drain' = drain /\ drains'[drain].seq = drains[drain].seq
          /\ drains'[drain].behind = frames /\ frames < Never /\ frames \in Nat
          /\ Never \in Nat
      BY <1>13, Launches, Others
    <2>6. Is(e)
      BY <2>2, <2>5, <1>13
    <2>7. N + Len(R) <= e.seq
      <3>1. N + Len(R) + MaxRingSize <= drains[drain].seq + frames + drain
        BY <2>1 DEF Room, DrainSequenceNumber
      <3>2. frames + drain <= MaxRingSize /\ MaxRingSize \in Nat
        BY Others
      <3> QED BY <3>1, <3>2, <2>2, <2>5, <1>2, <1>13
    <2>8. \A i \in 1 .. Len(R') : R'[i].kind = "marker" => i = Len(R) + 1 /\ R'[i] = e
      <3>1. \A i \in 1 .. Len(R) : R[i].kind # "marker"
        BY <2>2, <1>2
      <3> QED BY <3>1, <2>4, <1>2
    <2>9. \A i \in 1 .. Len(R') : R'[i].kind = "marker" =>
            /\ Is(R'[i]) /\ R'[i].id = MarkerInCodedFrameIndex'
            /\ N' + i - 1 <= R'[i].seq
            /\ \A j \in 1 .. Len(R') : R'[j].kind = "marker" => i = j
      <3> HIDE DEF Is
      <3>1. N + (Len(R) + 1) - 1 <= e.seq
        BY <2>7, <1>2
      <3> QED BY <2>3, <2>6, <2>8, <3>1, <1>13
    <2>10. \E b \in ToSet(R') : b.kind = "marker" /\ b.id = MarkerInCodedFrameIndex'
      BY <2>1, <2>3, <2>4, <1>13
    <2>11. \A d \in 1 .. drain' : Launched(d)' /\ ~HasMarker(d)' => drains'[d].seq < N'
      <3> SUFFICES ASSUME NEW d \in 1 .. drain', Launched(d)', ~HasMarker(d)'
                   PROVE  drains'[d].seq < N'
        OBVIOUS
      <3>1. d # drain
        BY <2>1, <2>4, <1>13 DEF HasMarker
      <3>2. d \in 1 .. drain /\ Launched(d)
        BY <3>1, <1>6
      <3>3. ~HasMarker(d)
        BY <2>4 DEF HasMarker
      <3> QED BY <3>2, <3>3, <2>3, <1>1, <1>5
    <2>12. HasMarker(MarkerInCodedFrameIndex)'
      BY <2>10 DEF HasMarker
    <2> QED BY <2>9, <2>11, <2>12, <1>8 DEF Markers, MarkerOf, Launched, Never
  <1> QED
    BY <1>9, <1>10, <1>11, <1>12, <1>13, CollatedStep DEF CtoP

-----------------------------------------------------------------------------
(* There is room for the numbers below the marker's.                       *)

\* Frames are counted by Inject alone.
LEMMA FramesGrow ==
  ASSUME [Next]_vars
  PROVE  frames' = frames \/ (Inject /\ frames' = frames + 1)
  BY DEF Next, CtoP, PtoD, Callback, DtoM, PostM, Drain, vars, input,
         Inject, CtoPMarker, CtoPFrame, PtoDFrame, PtoDMarker,
         PtoDMarkerTest, MarkerInput,
         TestMarkerFramePassOn, DecodeCompletes, CallbackCounts, DtoMFrame,
         DtoMMarker, DtoMMarkerClear, DtoMCall, Show, PostMTake, PostMCall,
         DrainBegins, DrainFlushes, DrainChecks, DrainNumbers, DrainLaunches,
         DrainCalls, DrainWaits

\* Room is kept: each number used takes an entry out of the ring.
LEMMA RoomStep ==
  ASSUME OneAtATime, TypeOK, Status, Event, Order, Markers, Room, [Next]_vars
  PROVE  Room'
  <1> DEFINE R == CollatedFrameRing
             N == NextBufferSequenceNumber
             flush == IF drainer.at = "flush" THEN 1 ELSE 0
             marker == IF MarkerInCodedFrameIndex = INVALID THEN 0 ELSE 1
             seq == DrainSequenceNumber
  <1>1. /\ Len(R) + flush <= frames + drain + marker
        /\ drainer.at = "launch" => N + Len(R) + MaxRingSize <= seq + frames + drain
    BY DEF Room
  <1>2. /\ R \in Seq(Of(Kinds)) /\ Len(R) \in Nat /\ N \in Nat /\ drain \in Nat
        /\ frames \in Nat /\ MaxRingSize \in Nat
    BY Others, Rings, Holding
  <1>3. flush \in {0, 1} /\ marker \in {0, 1} /\ flush' \in {0, 1} /\ marker' \in {0, 1}
    OBVIOUS
  <1>4. drainer.at = "launch" => seq \in Nat
    <2>1. drainer.at = "launch" => drain \in 1 .. drain
      BY <1>2 DEF Status
    <2> QED BY <2>1, Others DEF DrainSequenceNumber
  <1>5. drainer.at # "idle" => drain \in 1 .. drain
    BY <1>2 DEF Status
  <1>o. ASSUME Len(R') + flush' <= frames' + drain' + marker',
               drainer'.at = "launch" =>
                 N' + Len(R') + MaxRingSize <= seq' + frames' + drain'
        PROVE  Room'
    BY <1>o DEF Room
  <1>6. CASE R' = R /\ ~CtoP /\ ~DrainLaunches /\ ~Inject /\ ~DrainFlushes
    <2>1. N' = N /\ marker' = marker /\ frames' = frames
      <3>1. N' = N /\ MarkerInCodedFrameIndex' = MarkerInCodedFrameIndex /\ frames' = frames
        BY <1>6, NumberingStep, FramesGrow
      <3> QED BY <3>1 DEF INVALID
    <2>2. CASE UNCHANGED <<drainer, drains>>
      <3>1. drain' = drain /\ flush' = flush /\ seq' = seq
        BY <2>2 DEF drain, DrainSequenceNumber
      <3> QED BY <3>1, <2>1, <2>2, <1>1, <1>6, <1>o
    <2>3. CASE DrainBegins
      <3>1. drain' = drain + 1 /\ drainer'.at # "launch" /\ flush = 0
        <4>1. drainer.at = "idle"
          BY <2>3 DEF DrainBegins
        <4> QED BY <4>1, <2>3, Begins
      <3>2. Len(R') + flush' <= frames' + drain' + marker'
        <4> HIDE DEF flush, marker
        <4> QED BY <3>1, <2>1, <1>1, <1>2, <1>3, <1>6
      <3> QED BY <3>1, <3>2, <1>o
    <2>4. CASE DrainNumbers
      <3>1. /\ drainer.at = "number" /\ drainer'.at = "launch"
            /\ drain' = drain /\ drains'[drain].seq = N + MaxRingSize
        <4>1. drain' = drain /\ drains'[drain].seq = N + MaxRingSize
          BY <2>4, Numbers DEF MarkerNumber
        <4> QED BY <4>1, <2>4 DEF DrainNumbers, Goes, TypeOK
      <3>2. marker = 0 /\ flush = 0 /\ flush' = 0
        BY <3>1, NoneBeforeLaunch
      <3>3. seq' = N + MaxRingSize
        BY <3>1 DEF DrainSequenceNumber
      <3>4. Len(R) <= frames + drain
        <4> HIDE DEF flush, marker
        <4> QED BY <3>2, <1>1, <1>2
      <3>5. N' + Len(R') + MaxRingSize <= seq' + frames' + drain'
        BY <3>1, <3>3, <3>4, <2>1, <1>2, <1>6
      <3>6. Len(R') + flush' <= frames' + drain' + marker'
        <4> HIDE DEF flush, marker
        <4> QED BY <3>1, <3>2, <3>4, <2>1, <1>2, <1>6
      <3> QED BY <3>5, <3>6, <1>o
    <2>5. CASE DrainWaits
      <3>1. drain' = drain /\ drainer'.at = "idle"
        BY <2>5, ReturnsAtLast
      <3>2. flush' = 0
        BY <3>1
      <3>3. Len(R') + flush' <= frames' + drain' + marker'
        <4> HIDE DEF flush, marker
        <4> QED BY <3>1, <3>2, <2>1, <1>1, <1>2, <1>3, <1>6
      <3> QED BY <3>1, <3>3, <1>o
    <2>6. CASE DrainChecks \/ DrainCalls
      <3>1. drain' = drain /\ drainer'.at \notin {"flush", "launch"}
        <4>1. CASE DrainChecks
          BY <4>1, ChecksAndGoesOn DEF DrainChecks, input, drain, TypeOK
        <4>2. CASE DrainCalls
          <5>1. drainer.nonBlocking = FALSE
            BY DEF TypeOK
          <5> QED BY <4>2, <5>1 DEF DrainCalls, input, drain, Goes, TypeOK
        <4> QED BY <2>6, <4>1, <4>2
      <3>2. flush' = 0
        BY <3>1
      <3>3. Len(R') + flush' <= frames' + drain' + marker'
        <4> HIDE DEF flush, marker
        <4> QED BY <3>1, <3>2, <2>1, <1>1, <1>2, <1>3, <1>6
      <3> QED BY <3>1, <3>3, <1>o
    <2>7. \/ UNCHANGED <<drainer, drains>> \/ DrainBegins \/ DrainNumbers
          \/ DrainWaits \/ DrainChecks \/ DrainCalls
      <3>1. (UNCHANGED drainer /\ UNCHANGED drains)
              \/ DrainBegins \/ DrainNumbers \/ DrainWaits \/ DrainChecks \/ DrainCalls
        BY <1>6, DrainGoes, OtherSteps
      <3> QED BY <3>1
    <2> QED BY <2>2, <2>3, <2>4, <2>5, <2>6, <2>7
  <1>7. CASE Inject
    <2>1. /\ UNCHANGED <<drainer, drains>> /\ N' = N /\ frames' = frames + 1
          /\ MarkerInCodedFrameIndex' = MarkerInCodedFrameIndex
          /\ R' = Append(R, Buffer("frame", frames + 1, 0))
      BY <1>7 DEF Inject, player
    <2>2. drain' = drain /\ seq' = seq /\ flush' = flush /\ marker' = marker
      BY <2>1 DEF drain, DrainSequenceNumber, INVALID
    <2>3. Len(R') = Len(R) + 1
      <3>1. Buffer("frame", frames + 1, 0) \in Of(Kinds)
        BY <1>2 DEF Buffer, Of, Kinds
      <3> QED BY <2>1, <3>1, <1>2, Appended
    <2> HIDE DEF flush, marker, seq
    <2>4. Len(R') + flush' <= frames' + drain' + marker'
      BY <2>1, <2>2, <2>3, <1>1, <1>2, <1>3
    <2>5. drainer.at = "launch" => N' + Len(R') + MaxRingSize <= seq' + frames' + drain'
      BY <2>1, <2>2, <2>3, <1>1, <1>2, <1>4
    <2> QED BY <2>1, <2>4, <2>5, <1>o
  <1>8. CASE DrainFlushes
    <2>1. /\ UNCHANGED <<drains, frames>> /\ N' = N /\ drainer.at = "flush"
          /\ drainer'.at = "check"
          /\ MarkerInCodedFrameIndex' = MarkerInCodedFrameIndex
          /\ R' = Append(R, Buffer("jump", drain, 0))
      BY <1>8 DEF DrainFlushes, player, input, Goes, TypeOK
    <2>2. drain' = drain /\ flush = 1 /\ flush' = 0 /\ marker' = marker
      BY <2>1 DEF drain, INVALID
    <2>3. Len(R') = Len(R) + 1
      <3>1. Buffer("jump", drain, 0) \in Of(Kinds)
        BY <1>2 DEF Buffer, Of, Kinds
      <3> QED BY <2>1, <3>1, <1>2, Appended
    <2> HIDE DEF flush, marker, seq
    <2>4. Len(R') + flush' <= frames' + drain' + marker'
      BY <2>1, <2>2, <2>3, <1>1, <1>2, <1>3
    <2> QED BY <2>1, <2>4, <1>o
  <1>9. CASE CtoP
    <2>1. UNCHANGED <<drainer, drains, frames>> /\ R # << >> /\ R' = Tail(R)
      BY <1>9, NumberingStep DEF CtoP, CtoPMarker, CtoPFrame
    <2>2. drain' = drain /\ seq' = seq /\ flush' = flush
      BY <2>1 DEF drain, DrainSequenceNumber
    <2>3. Len(R') = Len(R) - 1 /\ Len(R) > 0
      BY <2>1, <1>2, Tailed
    <2>4. CASE CtoPMarker
      <3>1. /\ MarkerOf(Head(R)) /\ Head(R).id = MarkerInCodedFrameIndex
        BY <2>4, MarkerAtHead
      <3>2. MarkerInCodedFrameIndex # INVALID
        BY <3>1 DEF MarkerOf, INVALID
      <3>3. marker = 1 /\ drainer.at # "launch"
        BY <3>2 DEF Status
      <3> HIDE DEF flush, marker, seq
      <3>4. Len(R') + flush' <= frames' + drain' + marker'
        BY <2>1, <2>2, <2>3, <3>3, <1>1, <1>2, <1>3
      <3> QED BY <3>3, <3>4, <2>1, <1>o
    <2>5. CASE CtoPFrame
      <3>1. N' = N + 1 /\ MarkerInCodedFrameIndex' = MarkerInCodedFrameIndex
        BY <2>5, NumberingStep
      <3>2. marker' = marker
        BY <3>1 DEF INVALID
      <3> HIDE DEF flush, marker, seq
      <3>4. Len(R') + flush' <= frames' + drain' + marker'
        BY <2>1, <2>2, <2>3, <3>2, <1>1, <1>2, <1>3
      <3>5. drainer.at = "launch" => N' + Len(R') + MaxRingSize <= seq' + frames' + drain'
        BY <2>1, <2>2, <2>3, <3>1, <1>1, <1>2, <1>4
      <3> QED BY <3>4, <3>5, <2>1, <1>o
    <2> QED BY <2>4, <2>5, <1>9 DEF CtoP
  <1>10. CASE DrainLaunches
    <2>1. /\ drainer.at = "launch" /\ drainer'.at = "reset" /\ frames' = frames
          /\ R' = Append(R, Buffer("marker", drain, DrainSequenceNumber))
      BY <1>10 DEF DrainLaunches, Goes, TypeOK
    <2>2. /\ drain' = drain /\ drain \in 1 .. drain /\ MarkerInCodedFrameIndex' = drain
          /\ MarkerInCodedFrameIndex = INVALID
      BY <1>10, <2>1, Launches, NumberingStep, NoneBeforeLaunch
    <2>3. marker = 0 /\ marker' = 1 /\ flush' = 0
      BY <2>1, <2>2, <1>2 DEF INVALID
    <2>4. Len(R') = Len(R) + 1
      <3>1. Buffer("marker", drain, DrainSequenceNumber) \in Of(Kinds)
        BY <2>1, <1>2, <1>4 DEF Buffer, Of, Kinds
      <3> QED BY <2>1, <3>1, <1>2, Appended
    <2> HIDE DEF flush, marker, seq
    <2>5. Len(R') + flush' <= frames' + drain' + marker'
      BY <2>1, <2>2, <2>3, <2>4, <1>1, <1>2, <1>3
    <2> QED BY <2>1, <2>5, <1>o
  <1> QED
    BY <1>6, <1>7, <1>8, <1>9, <1>10, CollatedStep

-----------------------------------------------------------------------------
(* The frames ahead of a marker.                                           *)

\* What the manifestor is given comes from the decoded ring.
LEMMA ShownStep ==
  ASSUME TypeOK, [Next]_vars, NEW b \in ToSet(shown')
  PROVE  b \in ToSet(shown) \/ (DtoMFrame /\ b = Head(DecodedFrameRing)
                                /\ b \in ToSet(DecodedFrameRing) /\ b.kind = "frame")
  <1>1. shown \in Seq(Of(Kinds)) /\ DecodedFrameRing \in Seq(Of(Kinds))
    BY Rings
  <1>2. CASE DtoMFrame
    <2>1. /\ DecodedFrameRing # << >> /\ Head(DecodedFrameRing).kind = "frame"
          /\ shown' = shown \/ shown' = Append(shown, Head(DecodedFrameRing))
      BY <1>2 DEF DtoMFrame
    <2>2. /\ Head(DecodedFrameRing) \in Of(Kinds)
          /\ Head(DecodedFrameRing) \in ToSet(DecodedFrameRing)
      BY <1>1, <2>1, Tailed
    <2>3. ToSet(Append(shown, Head(DecodedFrameRing))) = ToSet(shown) \cup {Head(DecodedFrameRing)}
      BY <1>1, <2>2, Appended
    <2> QED BY <1>2, <2>1, <2>2, <2>3
  <1>3. CASE Show
    <2>1. shown # << >> /\ shown' = Tail(shown)
      BY <1>3 DEF Show
    <2> QED BY <1>1, <2>1, Tailed
  <1>4. CASE DrainFlushes
    <2>1. shown' = << >>
      BY <1>4 DEF DrainFlushes
    <2>2. << >> \in Seq(Of(Kinds)) /\ Len(<< >>) = 0
      BY EmptySeq
    <2>3. \E i \in 1 .. Len(<< >>) : << >>[i] = b
      BY <2>1, <2>2, Holding, Zenon
    <2> QED BY <2>2, <2>3
  <1>5. CASE ~(DtoMFrame \/ Show \/ DrainFlushes)
    <2>1. UNCHANGED shown
      BY <1>5
      DEF Next, CtoP, PtoD, Callback, DtoM, PostM, Drain, vars, Inject,
        CtoPMarker, CtoPFrame, PtoDFrame, PtoDMarker,
        PtoDMarkerTest, MarkerInput,
        TestMarkerFramePassOn, DecodeCompletes, CallbackCounts, DtoMMarker,
        DtoMMarkerClear, DtoMCall, PostMTake, PostMCall, DrainBegins,
        DrainChecks, DrainNumbers, DrainLaunches, DrainCalls, DrainWaits
    <2> QED BY <2>1
  <1> QED BY <1>2, <1>3, <1>4, <1>5

\* Injected is kept: numbers along the chain agree with the order of injection.
LEMMA InjectedStep ==
  ASSUME OneAtATime, TypeOK, Status, Event, Order, Counts, Markers, Room,
         Injected, [Next]_vars
  PROVE  Injected'
  <1> DEFINE R == CollatedFrameRing
             N == NextBufferSequenceNumber
             Marked(ring, i, d) == \E j \in i .. Len(ring) :
                                     ring[j].kind = "marker" /\ ring[j].id = d
  <1>1. /\ \A b \in ToSet(R) \cup Numbered \cup ToSet(shown) :
             b.kind = "frame" => b.id <= frames
        /\ \A b \in Numbered, d \in 1 .. drain : b.kind = "frame" /\ Launched(d) =>
             (b.seq < drains[d].seq <=> b.id <= drains[d].behind)
        /\ \A i \in 1 .. Len(R), d \in 1 .. drain : R[i].kind = "frame" /\ Launched(d) =>
             (R[i].id <= drains[d].behind <=> Marked(R, i, d))
    BY DEF Injected
  <1>2. /\ R \in Seq(Of(Kinds)) /\ Len(R) \in Nat /\ N \in Nat /\ drain \in Nat
        /\ frames \in Nat
        /\ \A i \in 1 .. Len(R) : R[i] \in Of(Kinds) /\ R[i] \in ToSet(R)
        /\ \A b : b \in ToSet(R) <=> \E i \in 1 .. Len(R) : R[i] = b
        /\ \A d \in 1 .. drain : drains[d].seq \in Nat /\ drains[d].behind \in Nat
    BY Others, Rings, Holding
  <1>3. frames <= frames' /\ frames' \in Nat
    BY <1>2, FramesGrow
  <1>4. ASSUME NEW b \in Numbered', b.kind = "frame"
        PROVE  \/ b \in Numbered
               \/ /\ CtoPFrame /\ R # << >> /\ b.seq = N /\ b.id = Head(R).id
                  /\ Head(R).kind = "frame"
    <2>1. \/ b \in Numbered
          \/ CtoPMarker /\ b = Head(R)
          \/ CtoPFrame /\ Renumbers(Head(R), b)
      BY <1>4, ChainStep DEF IsNumbered
    <2>2. ~(CtoPMarker /\ b = Head(R))
      BY <1>4, MarkerAtHead
    <2>3. CtoPFrame => R # << >>
      BY DEF CtoPFrame
    <2> QED BY <1>4, <2>1, <2>2, <2>3 DEF Renumbers
  <1>5. ASSUME NEW d \in 1 .. drain', Launched(d)'
        PROVE  /\ d \in 1 .. drain
               /\ \/ /\ Launched(d) /\ drains'[d].seq = drains[d].seq
                     /\ drains'[d].behind = drains[d].behind
                  \/ /\ DrainLaunches /\ d = drain /\ ~Launched(drain)
                     /\ drains'[d].seq = drains[d].seq /\ drains'[d].behind = frames
    <2>1. d \in 1 .. drain /\ (Launched(d) \/ (DrainLaunches /\ d = drain))
      BY <1>5, LaunchedBefore
    <2>2. DrainLaunches => /\ drains'[drain].behind = frames
                           /\ drains'[drain].seq = drains[drain].seq
      BY Launches
    <2> QED BY <2>1, <2>2, DrainsGrow
  <1>6. ASSUME NEW b \in ToSet(R'), b.kind = "frame"
        PROVE  b \in ToSet(R) \/ (b.id = frames + 1 /\ frames' = frames + 1)
    <2>1. CASE R' = R
      BY <1>6, <2>1
    <2>2. CASE R # << >> /\ R' = Tail(R)
      BY <1>2, <1>6, <2>2, Tailed
    <2>3. ASSUME NEW e \in Of({"frame", "jump"}), R' = Append(R, e),
                 Inject \/ DrainFlushes,
                 Inject => e.kind = "frame" /\ e.id = frames + 1,
                 DrainFlushes => e.kind = "jump"
          PROVE  b \in ToSet(R) \/ (b.id = frames + 1 /\ frames' = frames + 1)
      <3>1. e \in Of(Kinds)
        BY DEF Of, Kinds
      <3>2. ToSet(Append(R, e)) = ToSet(R) \cup {e}
        BY <1>2, <3>1, Appended
      <3>3. Inject => frames' = frames + 1
        BY DEF Inject
      <3> QED BY <1>6, <2>3, <3>2, <3>3
    <2>4. ASSUME NEW e \in Of({"marker"}), R' = Append(R, e)
          PROVE  b \in ToSet(R)
      <3>1. e \in Of(Kinds) /\ e.kind = "marker"
        BY DEF Of, Kinds
      <3>2. ToSet(Append(R, e)) = ToSet(R) \cup {e}
        BY <1>2, <3>1, Appended
      <3> QED BY <1>6, <2>4, <3>1, <3>2
    <2> QED BY <2>1, <2>2, <2>3, <2>4, CollatedStep
  <1>7. \A b \in ToSet(R') \cup Numbered' \cup ToSet(shown') :
          b.kind = "frame" => b.id <= frames'
    <2> SUFFICES ASSUME NEW b \in ToSet(R') \cup Numbered' \cup ToSet(shown'),
                        b.kind = "frame"
                 PROVE  b.id <= frames'
      OBVIOUS
    <2>1. \A x \in ToSet(R) \cup Numbered \cup ToSet(shown) :
             x.kind = "frame" => x.id <= frames /\ x.id \in Nat
      <3>1. \A x \in ToSet(R) \cup ToSet(shown) \cup ToSet(DecodedFrameRing)
                \cup ToSet(codec.decoding) \cup ToSet(ParsedFrameRing) : x \in Of(Kinds)
        BY Rings, Holding
      <3>2. codec.Marker \in Of(Kinds) /\ busy["PtoD"] \in Of(Kinds)
        BY Others, MarkerIs
      <3>3. \A x \in ToSet(R) \cup Numbered \cup ToSet(shown) : x \in Of(Kinds)
        BY <3>1, <3>2 DEF Numbered, Behind, AtCodec
      <3> QED BY <3>3, <1>1 DEF Of
    <2>2. CASE b \in ToSet(R')
      <3>1. b \in ToSet(R) \/ (b.id = frames + 1 /\ frames' = frames + 1)
        BY <1>6, <2>2
      <3> QED BY <3>1, <2>1, <1>2, <1>3
    <2>3. CASE b \in Numbered'
      <3>1. \/ b \in Numbered
            \/ R # << >> /\ b.id = Head(R).id /\ Head(R).kind = "frame"
        BY <1>4, <2>3
      <3>2. R # << >> => Head(R) \in ToSet(R)
        BY <1>2, Tailed
      <3> QED BY <3>1, <3>2, <2>1, <1>2, <1>3
    <2>4. CASE b \in ToSet(shown')
      <3>1. b \in ToSet(shown) \/ b \in ToSet(DecodedFrameRing)
        BY <2>4, ShownStep
      <3>2. b \in ToSet(shown) \cup Numbered
        BY <3>1 DEF Numbered
      <3> QED BY <3>2, <2>1, <1>2, <1>3
    <2> QED BY <2>2, <2>3, <2>4
  <1>8. \A b \in Numbered', d \in 1 .. drain' : b.kind = "frame" /\ Launched(d)' =>
          (b.seq < drains'[d].seq <=> b.id <= drains'[d].behind)
    <2> SUFFICES ASSUME NEW b \in Numbered', NEW d \in 1 .. drain',
                        b.kind = "frame", Launched(d)'
                 PROVE  b.seq < drains'[d].seq <=> b.id <= drains'[d].behind
      OBVIOUS
    <2>1. CASE /\ d \in 1 .. drain /\ Launched(d) /\ drains'[d].seq = drains[d].seq
               /\ drains'[d].behind = drains[d].behind
      <3>1. CASE b \in Numbered
        BY <2>1, <3>1, <1>1
      <3>2. CASE /\ R # << >> /\ b.seq = N /\ b.id = Head(R).id
                 /\ Head(R).kind = "frame"
        <4>1. 1 \in 1 .. Len(R) /\ R[1] = Head(R)
          BY <1>2, <3>2, Tailed
        <4>2. b.id <= drains[d].behind <=> Marked(R, 1, d)
          BY <1>1, <2>1, <3>2, <4>1
        <4>3. ASSUME Marked(R, 1, d)
              PROVE  N < drains[d].seq
          <5>1. PICK j \in 1 .. Len(R) : R[j].kind = "marker" /\ R[j].id = d
            BY <4>3
          <5>2. N + j - 1 <= R[j].seq /\ R[j].seq = drains[d].seq
            BY <5>1 DEF Markers, MarkerOf
          <5>3. j # 1
            BY <5>1, <4>1, <3>2
          <5> QED BY <5>2, <5>3, <1>2, <2>1
        <4>4. ASSUME ~Marked(R, 1, d)
              PROVE  drains[d].seq < N
          <5>1. ~HasMarker(d)
            BY <4>4, <1>2 DEF HasMarker
          <5> QED BY <5>1, <2>1 DEF Markers
        <4> QED BY <4>2, <4>3, <4>4, <3>2, <2>1, <1>2
      <3> QED BY <3>1, <3>2, <1>4
    <2>2. CASE /\ DrainLaunches /\ d = drain /\ drain \in 1 .. drain
               /\ drains'[d].seq = drains[d].seq /\ drains'[d].behind = frames
      <3>1. b \in Numbered
        <4>1. ~CtoPFrame
          BY <2>2, NumberingStep DEF CtoP
        <4> QED BY <4>1, <1>4
      <3>2. b.id <= frames /\ b.seq < N
        BY <3>1, <1>1 DEF Order, IsNumbered
      <3>3. N + Len(R) + MaxRingSize <= drains[drain].seq + frames + drain
        BY <2>2 DEF Room, DrainLaunches, DrainSequenceNumber
      <3>4. N <= drains[drain].seq
        <4>1. frames + drain <= MaxRingSize /\ MaxRingSize \in Nat
          BY Others
        <4> QED BY <3>3, <4>1, <1>2, <2>2
      <3>5. b.seq \in Nat
        <4>1. \A x \in ToSet(DecodedFrameRing) \cup ToSet(codec.decoding)
                         \cup ToSet(ParsedFrameRing) : x \in Of(Kinds)
          BY Rings, Holding
        <4>2. codec.Marker \in Of(Kinds) /\ busy["PtoD"] \in Of(Kinds)
          BY Others, MarkerIs
        <4>3. b \in Of(Kinds)
          BY <3>1, <4>1, <4>2 DEF Numbered, Behind, AtCodec
        <4> QED BY <4>3 DEF Of
      <3>6. drains[drain].seq \in Nat
        BY <2>2, <1>2
      <3> QED BY <3>2, <3>4, <3>5, <3>6, <2>2, <1>2
    <2> QED BY <2>1, <2>2, <1>2, <1>5
  <1>9. \A i \in 1 .. Len(R'), d \in 1 .. drain' : R'[i].kind = "frame" /\ Launched(d)' =>
          (R'[i].id <= drains'[d].behind <=> Marked(R', i, d))
    <2> SUFFICES ASSUME NEW i \in 1 .. Len(R'), NEW d \in 1 .. drain',
                        R'[i].kind = "frame", Launched(d)'
                 PROVE  R'[i].id <= drains'[d].behind <=> Marked(R', i, d)
      OBVIOUS
    <2>0. ~DrainLaunches => /\ d \in 1 .. drain /\ Launched(d)
                            /\ drains'[d].behind = drains[d].behind
      BY <1>5
    <2>1. CASE R' = R /\ ~DrainLaunches
      <3> HIDE DEF Marked
      <3> QED BY <2>0, <2>1, <1>1
    <2>2. CASE CtoP /\ R # << >> /\ R' = Tail(R)
      <3>1. ~DrainLaunches
        BY <2>2, NumberingStep
      <3>2. /\ Len(R') = Len(R) - 1
            /\ \A j \in 1 .. Len(R') : R'[j] = R[j + 1]
        BY <2>2, <1>2, Tailed
      <3>3. i + 1 \in 1 .. Len(R) /\ R'[i] = R[i + 1]
        BY <3>2, <1>2
      <3>4. R[i + 1].id <= drains[d].behind <=> Marked(R, i + 1, d)
        <4> HIDE DEF Marked
        <4> QED BY <3>1, <3>3, <2>0, <1>1
      <3>5. ASSUME Marked(R, i + 1, d)
            PROVE  Marked(R', i, d)
        <4>1. PICK j \in i + 1 .. Len(R) : R[j].kind = "marker" /\ R[j].id = d
          BY <3>5
        <4>2. j - 1 \in i .. Len(R') /\ j - 1 \in 1 .. Len(R') /\ (j - 1) + 1 = j
          BY <3>2, <3>3, <1>2
        <4>3. R'[j - 1] = R[j]
          BY <4>2, <3>2
        <4> QED BY <4>1, <4>2, <4>3
      <3>6. ASSUME Marked(R', i, d)
            PROVE  Marked(R, i + 1, d)
        <4>1. PICK j \in i .. Len(R') : R'[j].kind = "marker" /\ R'[j].id = d
          BY <3>6
        <4>2. j + 1 \in i + 1 .. Len(R) /\ j \in 1 .. Len(R')
          BY <3>2, <3>3, <1>2
        <4> QED BY <4>1, <4>2, <3>2
      <3> HIDE DEF Marked
      <3> QED BY <2>0, <3>1, <3>3, <3>4, <3>5, <3>6
    <2>3. ASSUME NEW e \in Of({"frame", "jump"}), R' = Append(R, e),
                 Inject \/ DrainFlushes,
                 Inject => e.kind = "frame" /\ e.id = frames + 1,
                 DrainFlushes => e.kind = "jump"
          PROVE  R'[i].id <= drains'[d].behind <=> Marked(R', i, d)
      <3>1. ~DrainLaunches
        <4>1. DrainLaunches => drainer.at = "launch" /\ drainer' # drainer
          BY DEF DrainLaunches, Goes, TypeOK
        <4>2. Inject => drainer' = drainer
          BY DEF Inject
        <4>3. DrainFlushes => drainer.at = "flush"
          BY DEF DrainFlushes
        <4> QED BY <2>3, <4>1, <4>2, <4>3
      <3>2. e \in Of(Kinds) /\ e.kind # "marker"
        BY DEF Of, Kinds
      <3>3. /\ Len(R') = Len(R) + 1 /\ R'[Len(R) + 1] = e
            /\ \A j \in 1 .. Len(R) : R'[j] = R[j]
        BY <2>3, <3>2, <1>2, Appended
      <3>4. CASE i = Len(R) + 1
        <4>1. ~Marked(R', i, d)
          <5>1. \A j \in i .. Len(R') : j = Len(R) + 1
            BY <3>3, <3>4, <1>2
          <5> QED BY <5>1, <3>2, <3>3
        <4>2. e.id = frames + 1
          BY <3>3, <3>4, <2>3
        <4>3. drains[d].behind <= frames
          BY <2>0, <3>1 DEF Status
        <4>4. ~(R'[i].id <= drains[d].behind)
          BY <4>2, <4>3, <3>3, <3>4, <2>0, <3>1, <1>2
        <4> HIDE DEF Marked
        <4> QED BY <4>1, <4>4, <2>0, <3>1
      <3>5. CASE i # Len(R) + 1
        <4>1. i \in 1 .. Len(R)
          BY <3>3, <3>5, <1>2
        <4>2. \A j \in i .. Len(R') : j = Len(R) + 1 \/ j \in i .. Len(R)
          BY <3>3, <1>2
        <4>3. \A j \in i .. Len(R) : j \in i .. Len(R') /\ R'[j] = R[j]
          BY <3>3, <4>1, <1>2
        <4>4. Marked(R', i, d) <=> Marked(R, i, d)
          BY <4>2, <4>3, <3>2, <3>3
        <4> HIDE DEF Marked
        <4> QED BY <4>1, <4>4, <3>3, <2>0, <3>1, <1>1
      <3> QED BY <3>4, <3>5
    <2>4. ASSUME NEW e \in Of({"marker"}), DrainLaunches, e.id = drain,
                 R' = Append(R, e)
          PROVE  R'[i].id <= drains'[d].behind <=> Marked(R', i, d)
      <3>1. e \in Of(Kinds) /\ e.kind = "marker"
        BY DEF Of, Kinds
      <3>2. /\ Len(R') = Len(R) + 1 /\ R'[Len(R) + 1] = e
            /\ \A j \in 1 .. Len(R) : R'[j] = R[j]
        BY <2>4, <3>1, <1>2, Appended
      <3>3. i \in 1 .. Len(R) /\ R'[i] = R[i]
        <4>1. i # Len(R) + 1
          BY <3>1, <3>2
        <4> QED BY <4>1, <3>2, <1>2
      <3>4. CASE d = drain
        <4>1. drains'[d].behind = frames
          BY <3>4, <2>4, Launches
        <4>2. R[i].id <= frames
          BY <3>3, <1>1, <1>2
        <4>3. Len(R) + 1 \in i .. Len(R')
          BY <3>2, <3>3, <1>2
        <4>4. Marked(R', i, d)
          BY <4>3, <3>1, <3>2, <3>4, <2>4
        <4> HIDE DEF Marked
        <4> QED BY <4>1, <4>2, <4>4, <3>3
      <3>5. CASE d # drain
        <4>1. d \in 1 .. drain /\ Launched(d) /\ drains'[d].behind = drains[d].behind
          BY <3>5, <1>5
        <4>2. \A j \in i .. Len(R') : j = Len(R) + 1 \/ j \in i .. Len(R)
          BY <3>2, <1>2
        <4>3. \A j \in i .. Len(R) : j \in i .. Len(R') /\ R'[j] = R[j]
          BY <3>2, <3>3, <1>2
        <4>4. Marked(R', i, d) <=> Marked(R, i, d)
          BY <4>2, <4>3, <3>2, <3>5, <2>4
        <4> HIDE DEF Marked
        <4> QED BY <4>1, <4>4, <3>3, <1>1
      <3> QED BY <3>4, <3>5
    <2> QED BY <2>1, <2>2, <2>3, <2>4, CollatedStep
  <1> QED BY <1>7, <1>8, <1>9 DEF Injected, Launched, Never

-----------------------------------------------------------------------------
(* The flags.                                                              *)

\* How the markers go from ring to ring.
LEMMA MarkersGo ==
  ASSUME OneAtATime, TypeOK, Status, Event, Order, Counts, Markers, Room,
         [Next]_vars, NEW b, b.kind = "marker"
  PROVE  /\ b \in ToSet(CollatedFrameRing') =>
              b \in ToSet(CollatedFrameRing) \/ (DrainLaunches /\ b.id = drain)
         /\ b \in ToSet(CollatedFrameRing) =>
              \/ b \in ToSet(CollatedFrameRing')
              \/ CtoPMarker /\ b \in ToSet(ParsedFrameRing')
         /\ b \in ToSet(ParsedFrameRing') =>
              b \in ToSet(ParsedFrameRing) \/ b \in ToSet(CollatedFrameRing)
         /\ b \in ToSet(ParsedFrameRing) =>
              b \in ToSet(ParsedFrameRing') \/ PtoDMarker
  <1> DEFINE R == CollatedFrameRing
             P == ParsedFrameRing
  <1>1. R \in Seq(Of(Kinds)) /\ P \in Seq(Of(Kinds))
    BY Rings
  <1>2. CASE CtoPMarker
    <2>1. /\ R # << >> /\ R' = Tail(R) /\ P' = Append(P, Head(R))
          /\ Head(R) \in Of(Kinds)
      BY <1>2, MarkerAtHead DEF CtoPMarker
    <2>2. ToSet(R) = {Head(R)} \cup ToSet(R')
      BY <1>1, <2>1, Tailed
    <2>3. ToSet(P') = ToSet(P) \cup {Head(R)}
      BY <1>1, <2>1, Appended
    <2> QED BY <1>2, <2>2, <2>3
  <1>3. CASE CtoPFrame
    <2>1. /\ R # << >> /\ R' = Tail(R)
      BY <1>3 DEF CtoPFrame
    <2>2. PICK x \in Of({"frame", "jump"}) : Renumbers(Head(R), x)
      BY <1>3, CtoPNumbers
    <2>3. ToSet(R) = {Head(R)} \cup ToSet(R')
      BY <1>1, <2>1, Tailed
    <2>4. x.kind # "marker" /\ x \in Of(Kinds)
      BY DEF Of, Kinds
    <2>5. ToSet(Append(P, x)) = ToSet(P) \cup {x}
      BY <1>1, <2>4, Appended
    <2>6. ToSet(P') = ToSet(P) \/ ToSet(P') = ToSet(P) \cup {x}
      BY <2>2, <2>5 DEF Renumbers
    <2>7. Head(R).kind # "marker"
      BY <2>2, <2>4 DEF Renumbers
    <2>8. b # x /\ b # Head(R)
      BY <2>4, <2>7
    <2> QED BY <2>3, <2>6, <2>8
  <1>4. CASE PtoDFrame \/ PtoDMarker
    <2>1. /\ P # << >> /\ P' = Tail(P) /\ R' = R
          /\ PtoDMarker \/ Head(P).kind = "frame"
      BY <1>4 DEF PtoDFrame, PtoDMarker
    <2>2. ToSet(P) = {Head(P)} \cup ToSet(P')
      BY <1>1, <2>1, Tailed
    <2> QED BY <2>1, <2>2
  <1>5. CASE ~(CtoP \/ PtoDFrame \/ PtoDMarker)
    <2>1. P' = P
      BY <1>5
      DEF Next, CtoP, PtoD, Callback, DtoM, PostM, Drain, vars, rings, Inject,
        PtoDMarkerTest, MarkerInput, TestMarkerFramePassOn,
        DecodeCompletes, CallbackCounts,
        DtoMFrame, DtoMMarker, DtoMMarkerClear, DtoMCall, Show, PostMTake,
        PostMCall, DrainBegins, DrainFlushes, DrainChecks, DrainNumbers,
        DrainLaunches, DrainCalls, DrainWaits
    <2>2. ASSUME NEW e \in Of({"frame", "jump", "marker"}), R' = Append(R, e)
          PROVE  ToSet(R') = ToSet(R) \cup {e}
      <3>1. e \in Of(Kinds)
        BY DEF Of, Kinds
      <3> QED BY <1>1, <2>2, <3>1, Appended
    <2>3. CASE R' = R
      BY <2>1, <2>3
    <2>4. ASSUME NEW e \in Of({"frame", "jump"}), R' = Append(R, e)
          PROVE  ToSet(R') = ToSet(R) \cup {e} /\ e.kind # "marker"
      <3>1. e \in Of({"frame", "jump", "marker"}) /\ e.kind # "marker"
        BY DEF Of
      <3> QED BY <3>1, <2>2, <2>4
    <2>5. ASSUME NEW e \in Of({"marker"}), R' = Append(R, e)
          PROVE  ToSet(R') = ToSet(R) \cup {e}
      <3>1. e \in Of({"frame", "jump", "marker"})
        BY DEF Of
      <3> QED BY <3>1, <2>2, <2>5
    <2>6. \/ R' = R
          \/ \E e : ToSet(R') = ToSet(R) \cup {e} /\ e.kind # "marker"
          \/ \E e : ToSet(R') = ToSet(R) \cup {e} /\ e.id = drain /\ DrainLaunches
      BY <1>5, <2>4, <2>5, CollatedStep
    <2> QED BY <2>1, <2>6
  <1> QED BY <1>2, <1>3, <1>4, <1>5 DEF CtoP

\* A marker that has yet to come does so until the process takes it, and it
\* had yet to come before.
LEMMA ToComeStep ==
  ASSUME OneAtATime, TypeOK, Status, Event, Order, Counts, Markers, Room,
         [Next]_vars, NEW s \in {"CtoP", "PtoD", "DtoM"}, NEW d \in 1 .. drain
  PROVE  /\ ToCome(s, d)' => ToCome(s, d)
         /\ ToCome(s, d) => \/ ToCome(s, d)'
                            \/ s = "CtoP" /\ CtoPMarker
                            \/ s = "PtoD" /\ PtoDMarker
                            \/ s = "DtoM" /\ DtoMMarker
  <1> DEFINE R == ToSet(CollatedFrameRing)
             P == ToSet(ParsedFrameRing)
  <1>0. d \in 1 .. drain' /\ (Launched(d) => Launched(d)')
    <2>1. d \in 1 .. drain' /\ (Launched(d) => drains'[d].behind = drains[d].behind)
      BY DrainsGrow
    <2> QED BY <2>1 DEF Launched, Never
  <1>1. ASSUME NEW b, b.kind = "marker"
        PROVE  /\ b \in R' => b \in R \/ (DrainLaunches /\ b.id = drain)
               /\ b \in R => b \in R' \/ (CtoPMarker /\ b \in P')
               /\ b \in P' => b \in P \/ b \in R
               /\ b \in P => b \in P' \/ PtoDMarker
    BY <1>1, MarkersGo
  <1>2. ASSUME NEW b, b.kind = "marker"
        PROVE  /\ b \in Numbered' => b \in Numbered \/ b \in R
               /\ b \in Numbered => b \in Numbered' \/ DtoMMarker
    <2>1. b \in Numbered' => \/ b \in Numbered
                             \/ CtoPMarker /\ b = Head(CollatedFrameRing)
                             \/ CtoPFrame /\ Renumbers(Head(CollatedFrameRing), b)
      BY <1>2, ChainStep DEF IsNumbered
    <2>2. ~Renumbers(Head(CollatedFrameRing), b)
      BY <1>2 DEF Renumbers
    <2>3. CtoPMarker => Head(CollatedFrameRing) \in R
      BY MarkerAtHead
    <2>4. b \in Numbered => b \in Numbered' \/ DtoMMarker
      BY <1>2, ChainStep
    <2> QED BY <2>1, <2>2, <2>3, <2>4
  <1>3. P \subseteq Numbered /\ P' \subseteq Numbered'
    BY DEF Numbered, Behind
  <1>4. /\ Upto("CtoP") = R /\ Upto("PtoD") = R \cup P /\ Upto("DtoM") = R \cup Numbered
        /\ Upto("CtoP")' = R' /\ Upto("PtoD")' = R' \cup P'
        /\ Upto("DtoM")' = R' \cup Numbered'
    BY DEF Upto
  <1> HIDE DEF R, P
  <1>5. ASSUME NEW b, b.kind = "marker"
        PROVE  /\ b \in Upto(s)' => b \in Upto(s) \/ (DrainLaunches /\ b.id = drain)
               /\ b \in Upto(s) => \/ b \in Upto(s)'
                                   \/ s = "CtoP" /\ CtoPMarker
                                   \/ s = "PtoD" /\ PtoDMarker
                                   \/ s = "DtoM" /\ DtoMMarker
    <2>1. CASE s = "CtoP"
      BY <2>1, <1>1, <1>4, <1>5
    <2>2. CASE s = "PtoD"
      BY <2>2, <1>1, <1>4, <1>5
    <2>3. CASE s = "DtoM"
      BY <2>3, <1>1, <1>2, <1>3, <1>4, <1>5
    <2> QED BY <2>1, <2>2, <2>3
  <1>6. DrainLaunches => ~Launched(drain)
    BY NoneBeforeLaunch DEF DrainLaunches
  <1>7. ToCome(s, d)' => ToCome(s, d)
    <2> SUFFICES ASSUME ToCome(s, d)', Launched(d)
                 PROVE  ToCome(s, d)
      BY DEF ToCome
    <2>1. PICK b \in Upto(s)' : b.kind = "marker" /\ b.id = d
      BY <1>0 DEF ToCome
    <2>2. b \in Upto(s)
      BY <2>1, <1>5, <1>6
    <2> QED BY <2>1, <2>2 DEF ToCome
  <1>8. ASSUME ToCome(s, d)
        PROVE  \/ ToCome(s, d)'
               \/ s = "CtoP" /\ CtoPMarker
               \/ s = "PtoD" /\ PtoDMarker
               \/ s = "DtoM" /\ DtoMMarker
    <2>1. CASE ~Launched(d)
      <3>1. CASE ~Launched(d)'
        BY <3>1 DEF ToCome
      <3>2. CASE Launched(d)'
        <4>1. DrainLaunches /\ d = drain
          BY <2>1, <3>2, <1>0, LaunchedBefore
        <4>2. PICK e \in Of({"marker"}) :
                e.id = drain /\ CollatedFrameRing' = Append(CollatedFrameRing, e)
          <5>1. ~CtoP /\ ~Inject /\ ~DrainFlushes
            <6>1. DrainLaunches => drainer.at = "launch" /\ drainer' # drainer
              BY DEF DrainLaunches, Goes, TypeOK
            <6>2. Inject => drainer' = drainer
              BY DEF Inject
            <6>3. DrainFlushes => drainer.at = "flush"
              BY DEF DrainFlushes
            <6> QED BY <4>1, <6>1, <6>2, <6>3, NumberingStep
          <5> QED BY <4>1, <5>1, CollatedStep
        <4>3. e \in Of(Kinds) /\ e.kind = "marker"
          BY DEF Of, Kinds
        <4>4. e \in R'
          BY <4>2, <4>3, Rings, Appended DEF R
        <4>5. e \in Upto(s)'
          BY <4>4, <1>4
        <4> QED BY <4>1, <4>2, <4>3, <4>5 DEF ToCome
      <3> QED BY <3>1, <3>2
    <2>2. CASE Launched(d)
      <3>1. PICK b \in Upto(s) : b.kind = "marker" /\ b.id = d
        BY <2>2, <1>8 DEF ToCome
      <3>2. CASE b \in Upto(s)'
        BY <3>1, <3>2 DEF ToCome
      <3> QED BY <3>1, <3>2, <1>5
    <2> QED BY <2>1, <2>2
  <1> QED BY <1>7, <1>8

\* The marker that a process takes is that of the last drain, and no other.
LEMMA TakenMarker ==
  ASSUME OneAtATime, TypeOK, Status, Event, Order, Counts, Markers, Room,
         [Next]_vars
  PROVE  /\ CtoPMarker => drain \in 1 .. drain /\ ~ToCome("CtoP", drain)'
         /\ PtoDMarker => drain \in 1 .. drain /\ ~ToCome("PtoD", drain)'
  <1> DEFINE R == CollatedFrameRing
             P == ParsedFrameRing
  <1>0. /\ R \in Seq(Of(Kinds)) /\ P \in Seq(Of(Kinds))
        /\ NextBufferSequenceNumber \in Nat
        /\ \A d \in 1 .. drain : drains[d].seq \in Nat
    BY Rings, Others
  <1>1. ASSUME drain \in 1 .. drain, Launched(drain), drain' = drain
        PROVE  Launched(drain)'
    <2>1. drains'[drain].behind = drains[drain].behind
      BY <1>1, DrainsGrow
    <2> QED BY <1>1, <2>1 DEF Launched, Never
  <1>2. CASE CtoPMarker
    <2>1. /\ Head(R) \in ToSet(R) /\ Head(R).kind = "marker"
          /\ R' = Tail(R) /\ \A x \in ToSet(R') : x.kind # "marker"
      BY <1>2, MarkerAtHead
    <2>2. drain \in 1 .. drain /\ Launched(drain)
      BY <2>1, LastMarker
    <2>3. drain' = drain
      BY <1>2 DEF CtoPMarker, input, drain
    <2>4. Upto("CtoP")' = ToSet(R')
      BY DEF Upto
    <2>5. ~ToCome("CtoP", drain)'
      BY <1>1, <2>1, <2>2, <2>3, <2>4 DEF ToCome
    <2>6. ~PtoDMarker
      <3>1. PtoDMarker => R' = R
        BY DEF PtoDMarker
      <3>2. Len(R') = Len(R) - 1 /\ Len(R) \in Nat
        BY <1>0, <1>2, Tailed, Holding DEF CtoPMarker
      <3> QED BY <3>1, <3>2
    <2> QED BY <2>2, <2>3, <2>5, <2>6
  <1>3. CASE PtoDMarker
    <2> DEFINE b == Head(P)
    <2>1. P # << >> /\ b.kind = "marker" /\ P' = Tail(P) /\ R' = R
      BY <1>3 DEF PtoDMarker
    <2>2. b \in ToSet(P) /\ b \in Of(Kinds) /\ ToSet(P') \subseteq ToSet(P)
      BY <1>0, <2>1, Tailed
    <2>3. b \in Numbered
      BY <2>2 DEF Numbered, Behind
    <2>4. /\ drain \in 1 .. drain /\ Launched(drain) /\ b.id = drain
          /\ b.seq = drains[drain].seq
      BY <2>1, <2>3, LastMarker
    <2>5. b.seq < NextBufferSequenceNumber
      BY <2>1, <2>3 DEF Order, IsNumbered
    <2>6. \A x \in ToSet(R') : x.kind # "marker"
      <3> SUFFICES ASSUME NEW x \in ToSet(R), x.kind = "marker"
                   PROVE  FALSE
        BY <2>1
      <3>1. x.seq = drains[drain].seq /\ NextBufferSequenceNumber <= x.seq
        BY LastMarker
      <3> QED BY <3>1, <2>4, <2>5, <1>0
    <2>7. \A x \in ToSet(P') : x.kind # "marker"
      <3> SUFFICES ASSUME NEW x \in ToSet(P'), x.kind = "marker"
                   PROVE  FALSE
        OBVIOUS
      <3>1. Ahead({b}, ToSet(P'))
        BY <1>0, <2>1, OrderedTail DEF Order
      <3>2. b.seq < x.seq
        BY <2>1, <3>1 DEF Ahead, IsNumbered
      <3>3. x \in Numbered
        BY <2>2 DEF Numbered, Behind
      <3>4. x.seq = drains[drain].seq
        BY <3>3, LastMarker
      <3> QED BY <3>2, <3>4, <2>4, <1>0
    <2>8. drain' = drain
      BY <1>3 DEF PtoDMarker, input, drain
    <2>9. Upto("PtoD")' = ToSet(R') \cup ToSet(P')
      BY DEF Upto
    <2> HIDE DEF b
    <2>10. ~ToCome("PtoD", drain)'
      BY <1>1, <2>4, <2>6, <2>7, <2>8, <2>9 DEF ToCome
    <2>11. ~CtoPMarker
      <3>1. CtoPMarker => R # << >> /\ R' = Tail(R)
        BY DEF CtoPMarker
      <3>2. R # << >> => Len(Tail(R)) = Len(R) - 1 /\ Len(R) \in Nat
        BY <1>0, Tailed, Holding
      <3> QED BY <3>1, <3>2, <2>1
    <2> QED BY <2>4, <2>8, <2>10, <2>11
  <1> QED BY <1>2, <1>3

\* Flags is kept.
LEMMA FlagsStep ==
  ASSUME OneAtATime, TypeOK, Status, Event, Order, Counts, Markers, Room, Flags,
         [Next]_vars
  PROVE  Flags'
  <1>0. drain \in Nat
    BY Others
  <1>1. /\ \A s \in {"CtoP", "PtoD", "DtoM"} : Discarding[s] =>
             \/ s = "DtoM" /\ ~Idle("DtoM")
             \/ \E d \in 1 .. drain : drains[d].discard /\ ToCome(s, d)
        /\ drain > 0 /\ drains[drain].discard =>
             /\ ~drains[drain].parseAll /\ ToCome("CtoP", drain) => Discarding["CtoP"]
             /\ ToCome("PtoD", drain) => Discarding["PtoD"]
    BY DEF Flags
  <1>2. ASSUME ~DrainBegins, NEW s \in {"CtoP", "PtoD", "DtoM"}, Discarding'[s]
        PROVE  \/ s = "DtoM" /\ ~Idle("DtoM")'
               \/ \E d \in 1 .. drain' : drains'[d].discard /\ ToCome(s, d)'
    <2>1. /\ Discarding[s] /\ ~(s = "CtoP" /\ CtoPMarker) /\ ~(s = "PtoD" /\ PtoDMarker)
          /\ ~(s = "DtoM" /\ DtoMMarkerClear)
      <3>1. /\ CtoPMarker => ~Discarding'["CtoP"]
            /\ PtoDMarker => ~Discarding'["PtoD"]
            /\ DtoMMarkerClear => ~Discarding'["DtoM"]
        BY DEF CtoPMarker, ClearedAtCtoP, PtoDMarker, DtoMMarkerClear, TypeOK, Stages
      <3> QED BY <1>2, <3>1, FlagStep
    <2>2. CASE s = "DtoM" /\ ~Idle("DtoM")
      <3>1. busy'["DtoM"] = busy["DtoM"]
        <4>1. busy \in [{"PtoD", "DtoM"} -> MarkerOrNone]
          BY DEF TypeOK
        <4>2. ~DtoMMarker /\ ~DtoMMarkerClear
          BY <2>1, <2>2 DEF DtoMMarker
        <4>3. UNCHANGED busy \/ \E x : busy' = [busy EXCEPT !["PtoD"] = x]
          BY <4>2
          DEF Next, CtoP, PtoD, Callback, DtoM, PostM, Drain, vars, processes,
            Inject, CtoPMarker, CtoPFrame, PtoDFrame, PtoDMarker,
            PtoDMarkerTest, MarkerInput,
            TestMarkerFramePassOn, Take, Returns, LetsGo, Holds,
            DecodeCompletes, CallbackCounts, DtoMFrame, DtoMCall, Show,
            PostMTake, PostMCall, DrainBegins, DrainFlushes, DrainChecks,
            DrainNumbers, DrainLaunches, DrainCalls, DrainWaits
        <4> QED BY <4>1, <4>3
      <3> QED BY <2>2, <3>1 DEF Idle
    <2>3. ASSUME NEW d \in 1 .. drain, drains[d].discard, ToCome(s, d)
          PROVE  \/ s = "DtoM" /\ ~Idle("DtoM")'
                 \/ drains'[d].discard /\ d \in 1 .. drain' /\ ToCome(s, d)'
      <3>1. ToCome(s, d)' \/ (s = "DtoM" /\ DtoMMarker)
        BY <2>1, <2>3, ToComeStep
      <3>2. drains'[d].discard /\ d \in 1 .. drain'
        BY <2>3, DrainsGrow
      <3>3. DtoMMarker => ~Idle("DtoM")'
        <4>1. DtoMMarker => /\ busy' = [busy EXCEPT !["DtoM"] = Head(DecodedFrameRing)]
                            /\ Head(DecodedFrameRing).kind = "marker"
          BY DEF DtoMMarker, Holds
        <4>2. DtoMMarker => busy'["DtoM"] = Head(DecodedFrameRing)
          BY <4>1 DEF TypeOK
        <4>3. NoBuffer.kind = "none"
          BY DEF NoBuffer, Buffer
        <4> QED BY <4>1, <4>2, <4>3 DEF Idle, NoBuffer, Buffer
      <3> QED BY <3>1, <3>2, <3>3
    <2> QED BY <2>1, <2>2, <2>3, <1>1
  <1>3. ASSUME ~DrainBegins, drain' > 0, drains'[drain'].discard
        PROVE  /\ ~drains'[drain'].parseAll /\ ToCome("CtoP", drain)' => Discarding'["CtoP"]
               /\ ToCome("PtoD", drain)' => Discarding'["PtoD"]
    <2>1. drain' = drain
      BY <1>3, OtherSteps, Numbers, Launches, ReturnsAtLast DEF drain
    <2>2. drain \in 1 .. drain
      BY <1>0, <1>3, <2>1
    <2>3. /\ drains[drain].discard = drains'[drain].discard
          /\ drains[drain].parseAll = drains'[drain].parseAll
      BY <2>2, DrainsGrow
    <2>4. ASSUME NEW d \in 1 .. drain
          PROVE  /\ ToCome("CtoP", d)' => ToCome("CtoP", d)
                 /\ ToCome("PtoD", d)' => ToCome("PtoD", d)
      BY ToComeStep
    <2>5. /\ ToCome("CtoP", drain)' => ToCome("CtoP", drain)
          /\ ToCome("PtoD", drain)' => ToCome("PtoD", drain)
      <3>1. PICK d \in 1 .. drain : d = drain
        BY <2>2
      <3> QED BY <3>1, <2>1, <2>4 DEF ToCome, Upto, Launched
    <2>6. /\ ToCome("CtoP", drain)' => Discarding'["CtoP"] = Discarding["CtoP"]
          /\ ToCome("PtoD", drain)' => Discarding'["PtoD"] = Discarding["PtoD"]
      BY <1>3, FlagStep, TakenMarker
    <2> QED BY <1>1, <1>3, <2>1, <2>2, <2>3, <2>5, <2>6
  <1>4. CASE ~DrainBegins
    BY <1>2, <1>3, <1>4 DEF Flags
  <1>5. CASE DrainBegins
    <2>1. /\ drain' = drain + 1 /\ drains'[drain + 1].behind = Never
          /\ \A d \in 1 .. drain : drains'[d] = drains[d]
          /\ drains'[drain + 1].discard =>
               Discarding' = [s \in Stages |->
                                s # "CtoP" \/ ~drains'[drain + 1].parseAll]
          /\ ~drains'[drain + 1].discard => Discarding' = Discarding
      BY <1>5, Begins
    <2>2. drain + 1 \in 1 .. drain' /\ drain' > 0
      BY <1>0, <2>1
    <2>3. CASE drains'[drain + 1].discard
      <3>1. PICK d \in 1 .. drain' : d = drain + 1
        BY <2>2
      <3>2. ~Launched(d)'
        BY <2>1, <3>1 DEF Launched, Never
      <3>3. \A s \in {"CtoP", "PtoD", "DtoM"} : drains'[d].discard /\ ToCome(s, d)'
        BY <2>3, <3>1, <3>2 DEF ToCome
      <3>4. /\ Discarding'["PtoD"]
            /\ ~drains'[drain'].parseAll => Discarding'["CtoP"]
        <4>1. Discarding' = [s \in Stages |->
                               s # "CtoP" \/ ~drains'[drain + 1].parseAll]
          BY <2>1, <2>3
        <4>2. "CtoP" \in Stages /\ "PtoD" \in Stages
          BY DEF Stages
        <4>3. drain' = drain + 1
          BY <2>1
        <4> QED BY <4>1, <4>2, <4>3, Zenon
      <3> QED BY <3>3, <3>4 DEF Flags
    <2>4. CASE ~drains'[drain + 1].discard
      <3>1. busy' = busy
        BY <1>5 DEF DrainBegins, processes
      <3>2. ASSUME NEW s \in {"CtoP", "PtoD", "DtoM"}, Discarding'[s]
            PROVE  \/ s = "DtoM" /\ ~Idle("DtoM")'
                   \/ \E d \in 1 .. drain' : drains'[d].discard /\ ToCome(s, d)'
        <4>1. CASE s = "DtoM" /\ ~Idle("DtoM")
          BY <3>1, <4>1 DEF Idle, NoBuffer
        <4>2. ASSUME NEW d \in 1 .. drain, drains[d].discard, ToCome(s, d)
              PROVE  drains'[d].discard /\ d \in 1 .. drain' /\ ToCome(s, d)'
          <5>1. ~CtoPMarker /\ ~PtoDMarker /\ ~DtoMMarker
            BY <1>0, <1>5, <2>1 DEF CtoPMarker, PtoDMarker, DtoMMarker, input, drain
          <5>2. drains'[d].discard /\ d \in 1 .. drain'
            BY <4>2, DrainsGrow
          <5> QED BY <4>2, <5>1, <5>2, ToComeStep
        <4>3. Discarding[s]
          BY <2>1, <2>4, <3>2
        <4> QED BY <4>1, <4>2, <4>3, <1>1
      <3>3. ~drains'[drain'].discard
        BY <2>1, <2>4
      <3> QED BY <3>2, <3>3 DEF Flags
    <2> QED BY <2>3, <2>4
  <1> QED BY <1>4, <1>5

-----------------------------------------------------------------------------
(* What is discarded.                                                      *)

\* A buffer that is somewhere in the chain has a number and an id.
LEMMA InChain ==
  ASSUME TypeOK, NEW b \in ToSet(CollatedFrameRing) \cup Numbered \cup ToSet(shown)
  PROVE  b \in Of(Kinds) /\ b.id \in Nat /\ b.seq \in Nat
  <1>1. \A x \in ToSet(CollatedFrameRing) \cup ToSet(shown) \cup ToSet(DecodedFrameRing)
            \cup ToSet(codec.decoding) \cup ToSet(ParsedFrameRing) : x \in Of(Kinds)
    BY Rings, Holding
  <1>2. codec.Marker \in Of(Kinds) /\ busy["PtoD"] \in Of(Kinds)
    BY Others, MarkerIs
  <1>3. b \in Of(Kinds)
    BY <1>1, <1>2 DEF Numbered, Behind, AtCodec
  <1> QED BY <1>3 DEF Of

\* A frame ahead of the marker of a drain that discards may go.
LEMMA AheadOfMarker ==
  ASSUME TypeOK, Status, Event, Order, Markers, Injected,
         NEW b \in Numbered, b.kind = "frame",
         NEW d \in 1 .. drain, drains[d].discard,
         ~Launched(d) \/ \E x \in ToSet(CollatedFrameRing) \cup Numbered :
                           /\ x.kind = "marker" /\ x.id = d
                           /\ x \in ToSet(CollatedFrameRing) \/ b.seq < x.seq
  PROVE  MayGo(b.id)
  <1>1. b.id <= frames /\ b.seq < NextBufferSequenceNumber
    BY DEF Injected, Order, IsNumbered
  <1>2. /\ b.id \in Nat /\ b.seq \in Nat /\ frames \in Nat /\ frames < Never
        /\ Never \in Nat /\ NextBufferSequenceNumber \in Nat
        /\ drains[d].seq \in Nat /\ drain \in Nat
    BY InChain, Others
  <1>3. CASE ~Launched(d)
    <2>1. b.id <= drains[d].behind
      BY <1>1, <1>2, <1>3 DEF Launched
    <2> QED BY <2>1 DEF MayGo
  <1>4. CASE Launched(d)
    <2>1. PICK x \in ToSet(CollatedFrameRing) \cup Numbered :
            /\ x.kind = "marker" /\ x.id = d
            /\ x \in ToSet(CollatedFrameRing) \/ b.seq < x.seq
      BY <1>4
    <2>2. /\ x.seq = drains[drain].seq /\ x.id = drain
          /\ x \in ToSet(CollatedFrameRing) => NextBufferSequenceNumber <= x.seq
      BY <2>1, LastMarker
    <2>3. b.seq < drains[d].seq
      BY <2>1, <2>2, <1>1, <1>2
    <2>4. b.id <= drains[d].behind
      BY <2>3, <1>4 DEF Injected
    <2> QED BY <2>4 DEF MayGo
  <1> QED BY <1>3, <1>4

\* And so may one at the head of the coded ring.
LEMMA AheadInCoded ==
  ASSUME TypeOK, Status, Injected, CollatedFrameRing # << >>,
         Head(CollatedFrameRing).kind = "frame",
         NEW d \in 1 .. drain, drains[d].discard, ToCome("CtoP", d)
  PROVE  MayGo(Head(CollatedFrameRing).id)
  <1> DEFINE R == CollatedFrameRing
  <1>1. /\ R \in Seq(Of(Kinds)) /\ Len(R) \in Nat /\ 1 \in 1 .. Len(R) /\ R[1] = Head(R)
        /\ Head(R) \in ToSet(R)
        /\ \A b : b \in ToSet(R) <=> \E i \in 1 .. Len(R) : R[i] = b
    BY Rings, Tailed, Holding
  <1>2. Head(R).id <= frames /\ Head(R).id \in Nat
    BY <1>1, InChain DEF Injected
  <1>3. CASE ~Launched(d)
    <2>1. frames < Never /\ frames \in Nat /\ Never \in Nat
      BY Others
    <2>2. Head(R).id <= drains[d].behind
      BY <1>2, <1>3, <2>1 DEF Launched
    <2> QED BY <2>2 DEF MayGo
  <1>4. CASE Launched(d)
    <2>1. PICK b \in ToSet(R) : b.kind = "marker" /\ b.id = d
      BY <1>4 DEF ToCome, Upto
    <2>2. \E j \in 1 .. Len(R) : R[j].kind = "marker" /\ R[j].id = d
      BY <2>1, <1>1
    <2>3. Head(R).id <= drains[d].behind
      BY <2>2, <1>1, <1>4 DEF Injected
    <2> QED BY <2>3 DEF MayGo
  <1> QED BY <1>3, <1>4

\* What may go still may when more drains have begun.
LEMMA MayGoStays ==
  ASSUME OneAtATime, TypeOK, Status, [Next]_vars,
         NEW f \in Nat, f <= frames, MayGo(f)
  PROVE  f <= frames' /\ MayGo(f)'
  <1>1. PICK d \in 1 .. drain : drains[d].discard /\ f <= drains[d].behind
    BY DEF MayGo
  <1>2. /\ frames \in Nat /\ frames < Never /\ Never \in Nat /\ drain \in Nat
    BY Others
  <1>3. d \in 1 .. drain' /\ drains'[d].discard
    BY <1>1, DrainsGrow
  <1>4. f <= drains'[d].behind
    <2>1. CASE Launched(d)
      BY <1>1, <2>1, DrainsGrow
    <2>2. CASE ~Launched(d) /\ Launched(d)'
      <3>1. DrainLaunches /\ d = drain
        BY <2>2, <1>3, LaunchedBefore
      <3> QED BY <3>1, Launches
    <2>3. CASE ~Launched(d)'
      BY <1>2, <2>3 DEF Launched, Never
    <2> QED BY <2>1, <2>2, <2>3
  <1>5. f <= frames'
    BY <1>2, FramesGrow
  <1> QED BY <1>3, <1>4, <1>5 DEF MayGo

\* A decode that is to be discarded was to be so before, or has just been
\* flushed.
LEMMA DoomedStep ==
  ASSUME OneAtATime, TypeOK, Counts, [Next]_vars,
         NEW k \in 1 .. Len(codec.decoding'),
         (codec.Completed + Uncounted + k <= codec.DiscardUntil)'
  PROVE  \/ DrainFlushes /\ codec.decoding'[k] \in ToSet(codec.decoding)
         \/ \E j \in 1 .. Len(codec.decoding) :
              /\ codec.decoding[j] = codec.decoding'[k]
              /\ codec.Completed + Uncounted + j <= codec.DiscardUntil
  <1>1. /\ codec.Prepared \in Nat /\ codec.Completed \in Nat /\ codec.DiscardUntil \in Nat
        /\ codec.decoding \in Seq(Of(Kinds)) /\ Len(codec.decoding) \in Nat
        /\ \A i \in 1 .. Len(codec.decoding) : codec.decoding[i] \in ToSet(codec.decoding)
        /\ codec \in Codecs
    BY Others, Rings, Holding DEF TypeOK
  <1>2. /\ codec.Prepared = codec.Completed + Len(codec.decoding) + Uncounted
        /\ codec.DiscardUntil <= codec.Prepared /\ Uncounted \in {0, 1}
    BY DEF Counts, Uncounted
  <1>3. codec'.Completed + Uncounted' + k <= codec'.DiscardUntil
    OBVIOUS
  <1>u. ASSUME codec'.decoding = codec.decoding, codec'.DiscardUntil = codec.DiscardUntil,
               codec'.Completed + Uncounted' = codec.Completed + Uncounted
        PROVE  \E j \in 1 .. Len(codec.decoding) :
                 /\ codec.decoding[j] = codec.decoding'[k]
                 /\ codec.Completed + Uncounted + j <= codec.DiscardUntil
    <2>1. k \in 1 .. Len(codec.decoding) /\ codec.decoding[k] = codec'.decoding[k]
      BY <1>u
    <2>2. codec.Completed + Uncounted + k <= codec.DiscardUntil
      BY <1>u, <1>3
    <2> QED BY <2>1, <2>2
  <1>4. CASE PtoDFrame
    <2> DEFINE b == Head(ParsedFrameRing)
    <2>1. /\ ParsedFrameRing # << >>
          /\ \/ codec' = codec
             \/ codec' = [codec EXCEPT !.decoding = Append(codec.decoding, b),
                                       !.Prepared = codec.Prepared + 1]
      BY <1>4 DEF PtoDFrame
    <2>2. b \in Of(Kinds)
      BY <2>1, Rings, Tailed
    <2>3. CASE codec' = codec
      BY <2>3, <1>u DEF Uncounted
    <2>4. CASE codec' = [codec EXCEPT !.decoding = Append(codec.decoding, b),
                                      !.Prepared = codec.Prepared + 1]
      <3>1. /\ codec'.decoding = Append(codec.decoding, b)
            /\ codec'.Completed = codec.Completed
            /\ codec'.DiscardUntil = codec.DiscardUntil
            /\ codec'.callback = codec.callback
        BY <2>4, <1>1 DEF Codecs
      <3> HIDE DEF b
      <3>2. /\ Len(codec'.decoding) = Len(codec.decoding) + 1
            /\ \A i \in 1 .. Len(codec.decoding) : codec'.decoding[i] = codec.decoding[i]
        BY <3>1, <2>2, <1>1, Appended
      <3>3. Uncounted' = Uncounted
        BY <3>1 DEF Uncounted
      <3>4. codec.Completed + Uncounted + k <= codec.DiscardUntil
        BY <3>1, <3>3, <1>3
      <3>5. k \in 1 .. Len(codec.decoding)
        BY <3>2, <3>4, <1>1, <1>2
      <3> QED BY <3>2, <3>4, <3>5
    <2> QED BY <2>1, <2>3, <2>4
  <1>5. CASE DecodeCompletes
    <2>1. /\ codec.callback = "idle" /\ codec.decoding # << >>
          /\ codec' = [codec EXCEPT !.decoding = Tail(codec.decoding),
                                    !.callback = "count"]
      BY <1>5 DEF DecodeCompletes
    <2>2. /\ codec'.decoding = Tail(codec.decoding) /\ codec'.callback = "count"
          /\ codec'.Completed = codec.Completed
          /\ codec'.DiscardUntil = codec.DiscardUntil
      BY <2>1, <1>1 DEF Codecs
    <2>3. Uncounted = 0 /\ Uncounted' = 1
      BY <2>1, <2>2 DEF Uncounted
    <2>4. /\ Len(codec'.decoding) = Len(codec.decoding) - 1
          /\ codec'.decoding[k] = codec.decoding[k + 1]
      BY <2>1, <2>2, <1>1, Tailed
    <2>5. k + 1 \in 1 .. Len(codec.decoding)
      BY <2>4, <1>1
    <2>6. codec.Completed + Uncounted + (k + 1) <= codec.DiscardUntil
      BY <2>2, <2>3, <1>1, <1>3
    <2> QED BY <2>4, <2>5, <2>6
  <1>6. CASE CallbackCounts
    <2>1. /\ codec'.decoding = codec.decoding /\ codec'.callback = "test"
          /\ codec'.Completed = codec.Completed + 1 /\ codec.callback = "count"
          /\ codec'.DiscardUntil = codec.DiscardUntil
      BY <1>1, <1>6 DEF CallbackCounts, Counted, Codecs
    <2>2. Uncounted = 1 /\ Uncounted' = 0
      BY <2>1 DEF Uncounted
    <2>3. codec'.Completed + Uncounted' = codec.Completed + Uncounted
      BY <2>1, <2>2, <1>1
    <2> QED BY <2>1, <2>3, <1>u
  <1>7. CASE DrainFlushes
    <2>1. codec'.decoding = codec.decoding
      BY <1>1, <1>7 DEF DrainFlushes, Codecs
    <2> QED BY <2>1, <1>1, <1>7
  <1>8. CASE ~(PtoDFrame \/ DecodeCompletes \/ CallbackCounts \/ DrainFlushes)
    <2>1. /\ codec'.decoding = codec.decoding /\ codec'.Completed = codec.Completed
          /\ codec'.DiscardUntil = codec.DiscardUntil
          /\ codec'.callback = "count" <=> codec.callback = "count"
      <3>1. CASE PtoDMarker \/ PtoDMarkerTest \/ MarkerInput
        BY <3>1, <1>1 DEF PtoDMarker, PtoDMarkerTest, MarkerInput, Codecs
      <3>2. ASSUME NEW who \in {"input", "callback"}, TestMarkerFramePassOn(who)
            PROVE  /\ codec'.decoding = codec.decoding /\ codec'.Completed = codec.Completed
                   /\ codec'.DiscardUntil = codec.DiscardUntil
                   /\ codec'.callback = "count" <=> codec.callback = "count"
        <4>1. /\ codec[who] = "test"
              /\ \/ CanPassOn /\ Take(who)
                 \/ /\ ~CanPassOn
                    /\ codec' = [codec EXCEPT ![who] = "idle"]
                    /\ Returns(who)
                    /\ UNCHANGED DecodedFrameRing
          BY <3>2, NeverTaken
        <4> QED BY <4>1, <1>1 DEF Take, Codecs
      <3>3. CASE ~(\/ PtoDMarker \/ PtoDMarkerTest \/ MarkerInput
                   \/ TestMarkerFramePassOn("input")
                   \/ TestMarkerFramePassOn("callback"))
        <4>1. UNCHANGED codec
          BY <1>8, <3>3
          DEF Next, CtoP, PtoD, Callback, DtoM, PostM, Drain, vars, Inject,
            CtoPMarker, CtoPFrame, DtoMFrame, DtoMMarker, DtoMMarkerClear,
            DtoMCall, Show, PostMTake, PostMCall, DrainBegins, DrainChecks,
            DrainNumbers, DrainLaunches, DrainCalls, DrainWaits
        <4> QED BY <4>1
      <3> QED BY <3>1, <3>2, <3>3
    <2>2. Uncounted' = Uncounted
      BY <2>1 DEF Uncounted
    <2> QED BY <2>1, <2>2, <1>u
  <1> QED BY <1>4, <1>5, <1>6, <1>7, <1>8

\* A frame that is given up may go.
LEMMA SparedStep ==
  ASSUME OneAtATime, TypeOK, Status, Event, Order, Counts, Markers, Injected,
         Flags, Discards, [Next]_vars, NEW f \in discarded'
  PROVE  f \in Nat /\ f <= frames /\ MayGo(f)
  <1>1. CASE f \in discarded
    BY <1>1 DEF Discards, TypeOK
  <1>o. ASSUME NEW b \in ToSet(CollatedFrameRing) \cup Numbered, b.kind = "frame",
               b.id = f, MayGo(f)
        PROVE  f \in Nat /\ f <= frames /\ MayGo(f)
    BY <1>o, InChain DEF Injected
  <1>2. CASE CtoPFrame /\ f \notin discarded
    <2>1. PICK b \in Of({"frame", "jump"}) : Renumbers(Head(CollatedFrameRing), b)
      BY <1>2, CtoPNumbers
    <2>2. /\ Head(CollatedFrameRing).kind = "frame" /\ Discarding["CtoP"]
          /\ f = Head(CollatedFrameRing).id
      BY <1>2, <2>1 DEF Renumbers
    <2>3. CollatedFrameRing # << >>
      BY <1>2 DEF CtoPFrame
    <2>4. Head(CollatedFrameRing) \in ToSet(CollatedFrameRing)
      BY <2>3, Rings, Tailed
    <2>5. PICK d \in 1 .. drain : drains[d].discard /\ ToCome("CtoP", d)
      BY <2>2 DEF Flags
    <2>6. MayGo(f)
      BY <2>2, <2>3, <2>5, AheadInCoded
    <2> QED BY <2>2, <2>4, <2>6, <1>o
  <1>3. CASE PtoDFrame /\ f \notin discarded
    <2> DEFINE b == Head(ParsedFrameRing)
    <2>1. /\ ParsedFrameRing # << >> /\ b.kind = "frame" /\ Discarding["PtoD"] /\ f = b.id
      BY <1>3 DEF PtoDFrame, Spare
    <2>2. b \in Numbered /\ ToSet(ParsedFrameRing) = {b} \cup ToSet(Tail(ParsedFrameRing))
      BY <2>1, Rings, Tailed DEF Numbered, Behind
    <2>3. PICK d \in 1 .. drain : drains[d].discard /\ ToCome("PtoD", d)
      BY <2>1 DEF Flags
    <2>4. Ahead({b}, ToSet(Tail(ParsedFrameRing)))
      BY <2>1, Rings, OrderedTail DEF Order
    <2>5. ASSUME NEW x \in ToSet(ParsedFrameRing), x.kind = "marker"
          PROVE  b.seq < x.seq /\ x \in Numbered
      BY <2>1, <2>2, <2>4, <2>5 DEF Ahead, IsNumbered, Numbered, Behind
    <2>6. ~Launched(d) \/ \E x \in ToSet(CollatedFrameRing) \cup Numbered :
                            /\ x.kind = "marker" /\ x.id = d
                            /\ x \in ToSet(CollatedFrameRing) \/ b.seq < x.seq
      BY <2>3, <2>5 DEF ToCome, Upto
    <2> HIDE DEF b
    <2>7. MayGo(f)
      BY <2>1, <2>2, <2>3, <2>6, AheadOfMarker
    <2> QED BY <2>1, <2>2, <2>7, <1>o
  <1>4. CASE DtoMFrame /\ f \notin discarded
    <2> DEFINE b == Head(DecodedFrameRing)
    <2>1. /\ DecodedFrameRing # << >> /\ b.kind = "frame" /\ Discarding["DtoM"] /\ f = b.id
          /\ Idle("DtoM")
      BY <1>4 DEF DtoMFrame, Spare
    <2>2. b \in Numbered /\ b \in ToSet(DecodedFrameRing)
            /\ ToSet(DecodedFrameRing) = {b} \cup ToSet(Tail(DecodedFrameRing))
      BY <2>1, Rings, Tailed DEF Numbered
    <2>3. PICK d \in 1 .. drain : drains[d].discard /\ ToCome("DtoM", d)
      BY <2>1 DEF Flags
    <2>4. /\ Ahead({b}, ToSet(Tail(DecodedFrameRing)))
          /\ Ahead(ToSet(DecodedFrameRing), Behind)
      BY <2>1, Rings, OrderedTail DEF Order
    <2>5. ASSUME NEW x \in Numbered, x.kind = "marker"
          PROVE  b.seq < x.seq
      BY <2>1, <2>2, <2>4, <2>5 DEF Ahead, IsNumbered, Numbered
    <2>6. ~Launched(d) \/ \E x \in ToSet(CollatedFrameRing) \cup Numbered :
                            /\ x.kind = "marker" /\ x.id = d
                            /\ x \in ToSet(CollatedFrameRing) \/ b.seq < x.seq
      BY <2>3, <2>5 DEF ToCome, Upto
    <2> HIDE DEF b
    <2>7. MayGo(f)
      BY <2>1, <2>2, <2>3, <2>6, AheadOfMarker
    <2> QED BY <2>1, <2>2, <2>7, <1>o
  <1>5. CASE DecodeCompletes /\ f \notin discarded
    <2> DEFINE b == Head(codec.decoding)
    <2>1. /\ codec.decoding # << >> /\ codec.callback = "idle" /\ f = b.id
          /\ codec.Completed < codec.DiscardUntil
      BY <1>5 DEF DecodeCompletes, Spare, IsDiscarded
    <2>2. /\ b \in ToSet(codec.decoding) /\ b = codec.decoding[1]
          /\ 1 \in 1 .. Len(codec.decoding) /\ b.kind = "frame"
      <3>1. /\ b \in ToSet(codec.decoding) /\ b = codec.decoding[1]
            /\ Len(codec.decoding) > 0 /\ Len(codec.decoding) \in Nat
        BY <2>1, Rings, Tailed, Holding
      <3> QED BY <3>1, Rings
    <2>3. b \in Numbered
      BY <2>2 DEF Numbered, Behind
    <2>4. codec.Completed + Uncounted + 1 <= codec.DiscardUntil
      <3>1. Uncounted = 0
        BY <2>1 DEF Uncounted
      <3> QED BY <3>1, <2>1, Others
    <2>5. MayGo(b.id)
      BY <2>2, <2>4 DEF Discards
    <2> HIDE DEF b
    <2> QED BY <2>1, <2>2, <2>3, <2>5, <1>o
  <1>6. CASE ~(CtoPFrame \/ PtoDFrame \/ DtoMFrame \/ DecodeCompletes)
    <2>1. UNCHANGED discarded
      BY <1>6
      DEF Next, CtoP, PtoD, Callback, DtoM, PostM, Drain, vars, input, Inject,
        CtoPMarker, PtoDMarker, PtoDMarkerTest,
        MarkerInput, TestMarkerFramePassOn,
        CallbackCounts, DtoMMarker, DtoMMarkerClear, DtoMCall, Show, PostMTake,
        PostMCall, DrainBegins, DrainFlushes, DrainChecks, DrainNumbers,
        DrainLaunches, DrainCalls, DrainWaits
    <2> QED BY <1>1, <2>1
  <1> QED BY <1>1, <1>2, <1>3, <1>4, <1>5, <1>6

\* Discards is kept.
LEMMA DiscardsStep ==
  ASSUME OneAtATime, TypeOK, Status, Event, Order, Counts, Markers, Injected,
         Flags, Discards, [Next]_vars
  PROVE  Discards'
  <1>1. \A f \in discarded' : f <= frames' /\ MayGo(f)'
    BY SparedStep, MayGoStays
  <1>2. ASSUME NEW k \in 1 .. Len(codec.decoding'),
               (codec.Completed + Uncounted + k <= codec.DiscardUntil)'
        PROVE  MayGo(codec.decoding[k].id)'
    <2>1. ASSUME NEW b \in ToSet(codec.decoding), MayGo(b.id)
          PROVE  MayGo(b.id)'
      <3>1. b \in Numbered /\ b.kind = "frame"
        BY Rings DEF Numbered, Behind
      <3>2. b.id \in Nat /\ b.id <= frames
        BY <3>1, InChain DEF Injected
      <3> QED BY <2>1, <3>2, MayGoStays
    <2>2. CASE DrainFlushes /\ codec.decoding'[k] \in ToSet(codec.decoding)
      <3>1. drain \in 1 .. drain /\ drains[drain].discard /\ ~Launched(drain)
        <4>1. drainer.at = "flush"
          BY <2>2 DEF DrainFlushes
        <4>2. drain > 0 /\ drains[drain].discard
          BY <4>1 DEF Status
        <4>3. drain \in 1 .. drain
          BY <4>2, Others
        <4>4. ~Over(drain)
          BY <4>1, <4>3, Others DEF Over
        <4> QED BY <4>1, <4>2, <4>3, <4>4 DEF Status
      <3>2. PICK b \in ToSet(codec.decoding) : b = codec.decoding'[k]
        BY <2>2
      <3>3. b \in Numbered /\ b.kind = "frame"
        BY Rings DEF Numbered, Behind
      <3>4. MayGo(b.id)
        BY <3>1, <3>3, AheadOfMarker
      <3>5. MayGo(b.id)'
        BY <3>4, <2>1
      <3> QED BY <3>2, <3>5 DEF MayGo
    <2>3. ASSUME NEW j \in 1 .. Len(codec.decoding),
                 codec.decoding[j] = codec.decoding'[k],
                 codec.Completed + Uncounted + j <= codec.DiscardUntil
          PROVE  MayGo(codec.decoding[k].id)'
      <3>1. PICK b \in ToSet(codec.decoding) : b = codec.decoding[j]
        BY Rings, Holding
      <3>2. MayGo(b.id)
        BY <2>3, <3>1 DEF Discards
      <3>3. MayGo(b.id)'
        BY <3>2, <2>1
      <3> QED BY <2>3, <3>1, <3>3 DEF MayGo
    <2> QED BY <2>2, <2>3, <1>2, DoomedStep
  <1> QED BY <1>1, <1>2 DEF Discards

-----------------------------------------------------------------------------
(* The messages that reset the time mapping.                               *)

\* What a step makes of the decoded ring.
LEMMA DecodedStep ==
  ASSUME OneAtATime, TypeOK, Status, [Next]_vars
  PROVE  /\ \/ DecodedFrameRing' = DecodedFrameRing /\ ~DtoMFrame /\ ~DtoMCall
            \/ /\ DecodedFrameRing # << >> /\ DecodedFrameRing' = Tail(DecodedFrameRing)
               /\ DtoMFrame \/ DtoMMarker \/ DtoMCall
            \/ \E e \in Of(Kinds) :
                 /\ DecodedFrameRing' = Append(DecodedFrameRing, e)
                 /\ ~DtoMFrame /\ ~DtoMCall
                 /\ e.kind = "reset" => drainer.at = "reset" /\ e.id = drain
                                          /\ e.seq = drains[drain].seq
         /\ DrainCalls /\ drainer.at = "reset" =>
              \E e \in Of(Kinds) :
                /\ DecodedFrameRing' = Append(DecodedFrameRing, e)
                /\ ResetOf(e, drain) /\ drain \in 1 .. drain
  <1> DEFINE D == DecodedFrameRing
  <1>0. D \in Seq(Of(Kinds)) /\ codec.decoding \in Seq(Of(Kinds))
          /\ codec.Marker \in MarkerOrNone
    BY Rings, Others
  <1>1. \A e \in Of(Kinds) : D' = Append(D, e) => ~DtoMFrame /\ ~DtoMCall
    <2>1. \A e \in Of(Kinds) : Len(Append(D, e)) = Len(D) + 1 /\ Len(D) \in Nat
      BY <1>0, Appended, Holding
    <2>2. D # << >> => Len(Tail(D)) = Len(D) - 1
      BY <1>0, Tailed
    <2>3. DtoMFrame \/ DtoMCall => D # << >> /\ D' = Tail(D)
      BY DEF DtoMFrame, DtoMCall
    <2> QED BY <2>1, <2>2, <2>3
  <1>2. ASSUME drainer.at = "reset"
        PROVE  LET e == Buffer("reset", drain, DrainSequenceNumber)
               IN /\ e \in Of(Kinds) /\ ResetOf(e, drain) /\ drain \in 1 .. drain
                  /\ e.id = drain /\ e.seq = drains[drain].seq
    <2>1. drain \in 1 .. drain
      BY <1>2, Others DEF Status
    <2>2. drains[drain].seq \in Nat /\ drain \in Nat
      BY <2>1, Others
    <2> QED BY <2>1, <2>2 DEF Buffer, Of, Kinds, ResetOf, DrainSequenceNumber
  <1>3. CASE DrainCalls
    <2>1. \/ /\ drainer.at = "reset"
             /\ D' = Append(D, Buffer("reset", drain, DrainSequenceNumber))
          \/ drainer.at = "event" /\ D' = D
      BY <1>3 DEF DrainCalls
    <2>2. D' = D => ~DtoMFrame /\ ~DtoMCall
      <3>1. drainer' # drainer
        BY <1>3 DEF DrainCalls, Goes, TypeOK
      <3>2. DtoMFrame \/ DtoMCall => drainer' = drainer
        BY DEF DtoMFrame, DtoMCall
      <3> QED BY <3>1, <3>2
    <2>3. CASE drainer.at = "reset"
      <3>1. PICK e \in Of(Kinds) :
              /\ e = Buffer("reset", drain, DrainSequenceNumber)
              /\ ResetOf(e, drain) /\ drain \in 1 .. drain
              /\ e.id = drain /\ e.seq = drains[drain].seq
        BY <1>2, <2>3
      <3>2. D' = Append(D, e)
        BY <2>1, <2>3, <3>1
      <3> QED BY <1>1, <2>3, <3>1, <3>2
    <2>4. CASE drainer.at # "reset"
      BY <2>1, <2>2, <2>4
    <2> QED BY <2>3, <2>4
  <1>4. CASE DtoMFrame \/ DtoMMarker \/ DtoMCall
    <2>1. D # << >> /\ D' = Tail(D)
      BY <1>4 DEF DtoMFrame, DtoMMarker, DtoMCall
    <2> QED BY <1>3, <1>4, <2>1
  <1>5. CASE DecodeCompletes
    <2> DEFINE b == Head(codec.decoding)
    <2>1. /\ codec.decoding # << >>
          /\ D' = D \/ D' = Append(D, b)
      BY <1>5 DEF DecodeCompletes
    <2>2. b \in Of(Kinds) /\ b.kind = "frame"
      <3>1. b \in Of(Kinds) /\ b \in ToSet(codec.decoding)
        BY <1>0, <2>1, Tailed
      <3> QED BY <3>1, Rings
    <2> HIDE DEF b
    <2> QED BY <1>1, <1>3, <1>4, <2>1, <2>2
  <1>6. ASSUME NEW who \in {"input", "callback"}, TestMarkerFramePassOn(who)
        PROVE  \/ D' = D
               \/ \E e \in Of(Kinds) : D' = Append(D, e) /\ e.kind # "reset"
    <2>1. \/ CanPassOn /\ Take(who)
          \/ UNCHANGED DecodedFrameRing
      BY <1>6, NeverTaken
    <2>2. codec.Marker # NoBuffer =>
            codec.Marker \in Of(Kinds) /\ codec.Marker.kind = "marker"
      BY <1>0, MarkerIs
    <2>3. Take(who) /\ codec.Marker # NoBuffer => D' = Append(D, codec.Marker)
      BY DEF Take
    <2> QED BY <2>1, <2>2, <2>3 DEF CanPassOn
  <1>7. CASE TestMarkerFramePassOn("input") \/ TestMarkerFramePassOn("callback")
    <2>1. \/ D' = D
          \/ \E e \in Of(Kinds) : D' = Append(D, e) /\ e.kind # "reset"
      BY <1>6, <1>7
    <2> QED BY <1>1, <1>3, <1>4, <2>1
  <1>8. CASE ~(\/ DrainCalls \/ DtoMFrame \/ DtoMMarker \/ DtoMCall \/ DecodeCompletes
               \/ TestMarkerFramePassOn("input") \/ TestMarkerFramePassOn("callback"))
    <2>1. UNCHANGED DecodedFrameRing
      BY <1>8
      DEF Next, CtoP, PtoD, Callback, DtoM, PostM, Drain, vars, rings, Inject,
        CtoPMarker, CtoPFrame, PtoDFrame, PtoDMarker,
        PtoDMarkerTest, MarkerInput,
        CallbackCounts, DtoMMarkerClear, Show, PostMTake, PostMCall,
        DrainBegins, DrainFlushes, DrainChecks, DrainNumbers, DrainLaunches,
        DrainWaits
    <2> QED BY <1>8, <2>1
  <1> QED BY <1>3, <1>4, <1>5, <1>7, <1>8

\* What a step makes of the table of DtoM.
LEMMA TableStep ==
  ASSUME TypeOK, [Next]_vars
  PROVE  /\ resets \subseteq resets'
         /\ \A m \in messages'["DtoM"] :
              \/ /\ m \in messages["DtoM"]
                 /\ seen["DtoM"] < m.seq => seen'["DtoM"] < m.seq
              \/ /\ DtoMCall /\ m = Head(DecodedFrameRing)
                 /\ seen["DtoM"] < m.seq /\ seen'["DtoM"] = seen["DtoM"]
         /\ \A m \in messages["DtoM"] : m \in messages'["DtoM"] \/ m.id \in resets'
         /\ DtoMCall => LET m == Head(DecodedFrameRing)
                        IN IF m.seq <= seen["DtoM"] THEN m.id \in resets'
                                                   ELSE m \in messages'["DtoM"]
  <1>1. /\ seen \in [{"DtoM", "PostM"} -> Nat]
        /\ messages \in [{"DtoM", "PostM"} -> SUBSET Of({"reset", "drained"})]
        /\ \A m \in messages["DtoM"] : m.seq \in Nat
        /\ DecodedFrameRing \in Seq(Of(Kinds))
        /\ ManifestedBufferRing \in Seq(Of(Kinds))
    BY Rings DEF TypeOK, Of
  <1>u. CASE /\ UNCHANGED <<resets, seen["DtoM"], messages["DtoM"]>> /\ ~DtoMCall
    BY <1>u
  <1>2. CASE DtoMFrame \/ DtoMMarker
    <2> DEFINE b == Head(DecodedFrameRing)
    <2>1. /\ DecodedFrameRing # << >> /\ ~IsCall(b)
          /\ Sees("DtoM", b.seq) /\ ResetTimeMapping(Due("DtoM", b.seq))
      BY <1>2 DEF DtoMFrame, DtoMMarker, IsCall
    <2>2. b \in Of(Kinds)
      BY <1>1, <2>1, Tailed
    <2> HIDE DEF b
    <2>3. b.seq \in Nat
      BY <2>2 DEF Of
    <2>4. /\ seen'["DtoM"] = (IF b.seq > seen["DtoM"] THEN b.seq ELSE seen["DtoM"])
          /\ messages'["DtoM"] = {m \in messages["DtoM"] : ~(m.seq <= b.seq)}
      BY <2>1, <2>3, SeesIs
    <2>5. \A m \in messages["DtoM"] : m.seq <= b.seq => m.id \in resets'
      BY <2>1 DEF ResetTimeMapping, Due
    <2>6. resets \subseteq resets' /\ ~DtoMCall
      BY <2>1 DEF ResetTimeMapping, DtoMCall, b
    <2>7. \A m \in messages["DtoM"] :
            ~(m.seq <= b.seq) /\ seen["DtoM"] < m.seq => seen'["DtoM"] < m.seq
      BY <2>3, <2>4, <1>1
    <2> QED BY <2>4, <2>5, <2>6, <2>7
  <1>3. CASE DtoMCall
    <2> DEFINE m == Head(DecodedFrameRing)
    <2>1. /\ DecodedFrameRing # << >> /\ UNCHANGED seen
          /\ IF m.seq <= seen["DtoM"]
             THEN resets' = resets \cup {m.id} /\ UNCHANGED messages
             ELSE /\ messages' = [messages EXCEPT !["DtoM"] = @ \cup {m}]
                  /\ UNCHANGED resets
      <3>1. \A x : ResetTimeMapping({x}) => resets' = resets \cup {x.id}
        BY DEF ResetTimeMapping
      <3> QED BY <3>1, <1>3 DEF DtoMCall, PerformedOnArrival
    <2>2. m \in Of(Kinds)
      BY <1>1, <2>1, Tailed
    <2> HIDE DEF m
    <2>3. m.seq \in Nat /\ seen["DtoM"] \in Nat
      BY <2>2, <1>1 DEF Of
    <2>4. CASE m.seq <= seen["DtoM"]
      BY <2>1, <2>4 DEF m
    <2>5. CASE ~(m.seq <= seen["DtoM"])
      <3>1. messages'["DtoM"] = messages["DtoM"] \cup {m} /\ resets' = resets
        BY <2>1, <2>5, <1>1
      <3>2. seen["DtoM"] < m.seq /\ seen'["DtoM"] = seen["DtoM"]
        BY <2>1, <2>3, <2>5
      <3> QED BY <3>1, <3>2, <2>5, <1>3 DEF m
    <2> QED BY <2>4, <2>5
  <1>4. CASE PostMTake
    <2> DEFINE b == Head(ManifestedBufferRing)
    <2>1. ManifestedBufferRing # << >> /\ Sees("PostM", b.seq) /\ UNCHANGED resets
      BY <1>4 DEF PostMTake, input
    <2>2. b \in Of(Kinds)
      BY <1>1, <2>1, Tailed
    <2> HIDE DEF b
    <2>3. b.seq \in Nat
      BY <2>2 DEF Of
    <2>4. seen'["DtoM"] = seen["DtoM"] /\ messages'["DtoM"] = messages["DtoM"]
      BY <2>1, <2>3, SeesIs
    <2> QED BY <2>1, <2>4, <1>3, <1>u
  <1>5. CASE PostMCall
    <2>1. /\ UNCHANGED <<resets, seen>>
          /\ UNCHANGED messages \/ \E x : messages' = [messages EXCEPT !["PostM"] = x]
      BY <1>5 DEF PostMCall, input
    <2>2. UNCHANGED messages["DtoM"]
      BY <2>1, <1>1
    <2> QED BY <2>1, <2>2, <1>3, <1>u
  <1>6. CASE ~(DtoMFrame \/ DtoMMarker \/ DtoMCall \/ PostMTake \/ PostMCall)
    <2>1. UNCHANGED <<resets, seen, messages>>
      BY <1>6
      DEF Next, CtoP, PtoD, Callback, DtoM, PostM, Drain, vars, input, processes,
        Inject, CtoPMarker, CtoPFrame, PtoDFrame, PtoDMarker,
        PtoDMarkerTest, MarkerInput,
        TestMarkerFramePassOn, DecodeCompletes, CallbackCounts, DtoMMarkerClear,
        Show, DrainBegins, DrainFlushes, DrainChecks, DrainNumbers,
        DrainLaunches, DrainCalls, DrainWaits
    <2> QED BY <2>1, <1>6, <1>u
  <1> QED BY <1>2, <1>3, <1>4, <1>5, <1>6

\* A drain that has returned stays so; the last one returns at DrainWaits.
LEMMA BackStep ==
  ASSUME OneAtATime, TypeOK, Status, [Next]_vars,
         NEW d \in 1 .. drain', drains'[d].back # Never
  PROVE  /\ d \in 1 .. drain
         /\ \/ drains[d].back # Never /\ Over(d) /\ drains'[d].back = drains[d].back
            \/ DrainWaits /\ d = drain /\ drains'[d].back = frames
  <1>0. drain \in Nat
    BY Others
  <1>o. ASSUME d \in 1 .. drain, drains'[d].back = drains[d].back
        PROVE  drains[d].back # Never /\ Over(d)
    BY <1>o DEF Status
  <1>1. CASE UNCHANGED drains
    BY <1>0, <1>1, <1>o DEF drain
  <1>2. CASE DrainBegins
    <2>1. /\ drain' = drain + 1
          /\ \A c \in 1 .. drain : drains'[c] = drains[c]
          /\ drains'[drain + 1].back = Never
      BY <1>2, Begins
    <2>2. d \in 1 .. drain
      BY <1>0, <2>1
    <2> QED BY <2>1, <2>2, <1>o
  <1>3. CASE DrainNumbers
    <2>1. d \in 1 .. drain /\ drains'[d].back = drains[d].back
      BY <1>3, Numbers
    <2> QED BY <2>1, <1>o
  <1>4. CASE DrainLaunches
    <2>1. d \in 1 .. drain /\ drains'[d].back = drains[d].back
      BY <1>4, Launches
    <2> QED BY <2>1, <1>o
  <1>5. CASE DrainWaits
    <2>1. /\ d \in 1 .. drain
          /\ d = drain => drains'[d].back = frames
          /\ d # drain => drains'[d].back = drains[d].back
      BY <1>5, ReturnsAtLast
    <2> QED BY <2>1, <1>5, <1>o
  <1> QED BY <1>1, <1>2, <1>3, <1>4, <1>5, OtherSteps

\* Resets is kept: the message is ahead of every frame injected after it.
LEMMA ResetsStep ==
  ASSUME OneAtATime, TypeOK, Status, Event, Order, Counts, Markers, Injected,
         Resets, [Next]_vars
  PROVE  Resets'
  <1> DEFINE D == DecodedFrameRing
             T == messages["DtoM"]
             sD == seen["DtoM"]
  <1>1. /\ \A m \in T : m.kind = "reset" /\ MarkerOf(m) /\ sD < m.seq
        /\ \A b \in ToSet(D) : b.kind = "reset" => MarkerOf(b)
        /\ \A d \in 1 .. drain : Launched(d) /\ d \notin resets =>
             \/ d = drain /\ drainer.at = "reset"
             \/ \E b \in T \cup ToSet(D) : ResetOf(b, d)
        /\ \A d \in 1 .. drain : drains[d].back # Never /\ d \notin resets =>
             /\ \A b \in ToSet(shown) : b.id <= drains[d].back
             /\ \E i \in 1 .. Len(D) :
                  /\ ResetOf(D[i], d)
                  /\ \A j \in 1 .. i : D[j].kind = "frame" => D[j].id <= drains[d].back
    BY DEF Resets
  <1>2. /\ D \in Seq(Of(Kinds)) /\ Len(D) \in Nat /\ sD \in Nat /\ seen["PostM"] \in Nat
        /\ \A i \in 1 .. Len(D) : D[i] \in ToSet(D)
        /\ \A b : b \in ToSet(D) <=> \E i \in 1 .. Len(D) : D[i] = b
        /\ \A d \in 1 .. drain : drains[d].seq \in Nat
        /\ drain \in Nat
    <2>1. /\ D \in Seq(Of(Kinds)) /\ Len(D) \in Nat
          /\ \A i \in 1 .. Len(D) : D[i] \in ToSet(D)
          /\ \A b : b \in ToSet(D) <=> \E i \in 1 .. Len(D) : D[i] = b
      BY Rings, Holding
    <2> QED BY <2>1, Others
  <1>3. /\ resets \subseteq resets'
        /\ \A m \in T' : \/ m \in T /\ (sD < m.seq => sD' < m.seq)
                         \/ DtoMCall /\ m = Head(D) /\ sD < m.seq /\ sD' = sD
        /\ \A m \in T : m \in T' \/ m.id \in resets'
        /\ DtoMCall => IF Head(D).seq <= sD THEN Head(D).id \in resets'
                                           ELSE Head(D) \in T'
    BY TableStep
  <1>4. DtoMCall => /\ D # << >> /\ Head(D) \in ToSet(D) /\ Head(D) = D[1]
                    /\ Head(D).kind = "reset"
    <2>1. DtoMCall => D # << >> /\ IsCall(Head(D))
      BY DEF DtoMCall
    <2>2. DtoMCall => Head(D) \in ToSet(D) /\ Head(D) = D[1]
      BY <1>2, <2>1, Tailed
    <2> QED BY <2>1, <2>2, Rings DEF IsCall
  <1>5. \A m \in T' : m.kind = "reset" /\ MarkerOf(m)' /\ sD' < m.seq
    <2> SUFFICES ASSUME NEW m \in T'
                 PROVE  m.kind = "reset" /\ MarkerOf(m)' /\ sD' < m.seq
      OBVIOUS
    <2> HIDE DEF D, T, sD
    <2>1. m.kind = "reset" /\ MarkerOf(m) /\ sD' < m.seq
      BY <1>1, <1>3, <1>4
    <2> QED BY <2>1, MarkerStays
  <1>6. \A b \in ToSet(D') : b.kind = "reset" => MarkerOf(b)'
    <2> SUFFICES ASSUME NEW b \in ToSet(D'), b.kind = "reset"
                 PROVE  MarkerOf(b)'
      OBVIOUS
    <2>1. MarkerOf(b)
      <3>1. CASE D' = D
        BY <3>1, <1>1
      <3>2. CASE D # << >> /\ D' = Tail(D)
        BY <3>2, <1>1, <1>2, Tailed
      <3>3. ASSUME NEW e \in Of(Kinds), D' = Append(D, e),
                   e.kind = "reset" => drainer.at = "reset" /\ e.id = drain
                                         /\ e.seq = drains[drain].seq
            PROVE  MarkerOf(b)
        <4>1. ToSet(D') = ToSet(D) \cup {e}
          BY <3>3, <1>2, Appended
        <4>2. drainer.at = "reset" => drain \in 1 .. drain /\ Launched(drain)
          BY <1>2 DEF Status
        <4>3. e.kind = "reset" => MarkerOf(e)
          BY <3>3, <4>2 DEF MarkerOf
        <4> QED BY <4>1, <4>3, <1>1
      <3> QED BY <3>1, <3>2, <3>3, DecodedStep
    <2> QED BY <2>1, MarkerStays
  <1>7. ASSUME NEW d \in 1 .. drain', Launched(d)', d \notin resets'
        PROVE  \/ d = drain' /\ drainer'.at = "reset"
               \/ \E b \in T' \cup ToSet(D') : ResetOf(b, d)
    <2>1. d \in 1 .. drain /\ d \notin resets
            /\ (Launched(d) \/ (DrainLaunches /\ d = drain))
      BY <1>3, <1>7, LaunchedBefore
    <2>2. CASE DrainLaunches /\ d = drain
      <3>1. drainer'.at = "reset" /\ drain' = drain
        BY <2>2, Launches DEF DrainLaunches, Goes, TypeOK
      <3> QED BY <2>2, <3>1
    <2>3. CASE Launched(d) /\ d = drain /\ drainer.at = "reset"
      <3>1. CASE UNCHANGED drainer
        <4>1. drain' = drain
          <5>1. ~DrainBegins /\ ~DrainNumbers /\ ~DrainLaunches /\ ~DrainWaits
            BY <2>3 DEF DrainBegins, DrainNumbers, DrainLaunches, DrainWaits
          <5> QED BY <5>1, OtherSteps DEF drain
        <4> QED BY <2>3, <3>1, <4>1
      <3>2. CASE DrainCalls
        <4>1. PICK e \in Of(Kinds) : D' = Append(D, e) /\ ResetOf(e, drain)
          BY <2>3, <3>2, DecodedStep
        <4>2. e \in ToSet(D')
          BY <4>1, <1>2, Appended
        <4> QED BY <2>3, <4>1, <4>2
      <3>3. UNCHANGED drainer \/ DrainCalls
        <4>1. ~DrainBegins /\ ~DrainWaits
          BY <2>3 DEF DrainBegins, DrainWaits
        <4> QED BY <2>3, <4>1, DrainGoes
      <3> QED BY <3>1, <3>2, <3>3
    <2>4. ASSUME NEW b \in T \cup ToSet(D), ResetOf(b, d)
          PROVE  b \in T' \cup ToSet(D')
      <3>1. b.id = d /\ b.kind = "reset"
        BY <2>4 DEF ResetOf
      <3>2. CASE b \in T
        BY <3>1, <3>2, <1>3, <1>7
      <3>3. CASE b \in ToSet(D)
        <4>1. CASE D' = D
          BY <3>3, <4>1
        <4>2. CASE D # << >> /\ D' = Tail(D) /\ (DtoMFrame \/ DtoMMarker \/ DtoMCall)
          <5>1. ToSet(D) = {Head(D)} \cup ToSet(D')
            BY <4>2, <1>2, Tailed
          <5>2. ASSUME b = Head(D)
                PROVE  b \in T'
            <6>1. DtoMCall
              BY <3>1, <4>2, <5>2 DEF DtoMFrame, DtoMMarker
            <6> QED BY <3>1, <5>2, <6>1, <1>3, <1>7
          <5> HIDE DEF D, T
          <5> QED BY <5>1, <5>2, <3>3
        <4>3. ASSUME NEW e \in Of(Kinds), D' = Append(D, e)
              PROVE  b \in ToSet(D')
          BY <4>3, <3>3, <1>2, Appended
        <4> QED BY <4>1, <4>2, <4>3, DecodedStep
      <3> QED BY <3>2, <3>3
    <2> QED BY <2>1, <2>2, <2>3, <2>4, <1>1
  <1>8. ASSUME NEW d \in 1 .. drain', drains'[d].back # Never, d \notin resets'
        PROVE  /\ \A b \in ToSet(shown') : b.id <= drains'[d].back
               /\ \E i \in 1 .. Len(D') :
                    /\ ResetOf(D'[i], d)
                    /\ \A j \in 1 .. i : D'[j].kind = "frame" =>
                                           D'[j].id <= drains'[d].back
    <2>1. /\ d \in 1 .. drain /\ d \notin resets
          /\ \/ drains[d].back # Never /\ Over(d) /\ drains'[d].back = drains[d].back
             \/ DrainWaits /\ d = drain /\ drains'[d].back = frames
      BY <1>3, <1>8, BackStep
    <2>2. CASE drains[d].back # Never /\ Over(d) /\ drains'[d].back = drains[d].back
      <3> DEFINE back == drains[d].back
      <3>1. PICK i \in 1 .. Len(D) :
              /\ ResetOf(D[i], d)
              /\ \A j \in 1 .. i : D[j].kind = "frame" => D[j].id <= back
        BY <1>1, <2>1, <2>2
      <3>2. D[i].kind = "reset" /\ D[i].id = d /\ 1 \in 1 .. i
        BY <3>1, <1>2 DEF ResetOf
      <3>3. \A b \in ToSet(shown') : b.id <= back
        <4> SUFFICES ASSUME NEW b \in ToSet(shown')
                     PROVE  b.id <= back
          OBVIOUS
        <4>1. CASE b \in ToSet(shown)
          BY <4>1, <1>1, <2>1, <2>2
        <4>2. CASE DtoMFrame /\ b = Head(D) /\ b.kind = "frame"
          <5>1. b = D[1]
            BY <4>2, <1>2, Tailed DEF DtoMFrame
          <5> QED BY <5>1, <4>2, <3>1, <3>2
        <4> QED BY <4>1, <4>2, ShownStep
      <3>4. \E k \in 1 .. Len(D') : /\ ResetOf(D'[k], d)
                                    /\ \A j \in 1 .. k : D'[j].kind = "frame" =>
                                                           D'[j].id <= back
        <4>1. CASE D' = D
          BY <3>1, <4>1
        <4>2. CASE D # << >> /\ D' = Tail(D) /\ (DtoMFrame \/ DtoMMarker \/ DtoMCall)
          <5>1. /\ Len(D') = Len(D) - 1 /\ Head(D) = D[1]
                /\ \A j \in 1 .. Len(D') : D'[j] = D[j + 1]
            BY <4>2, <1>2, Tailed
          <5>2. i # 1
            <6> SUFFICES ASSUME i = 1 PROVE FALSE
              OBVIOUS
            <6>1. Head(D).kind = "reset" /\ Head(D).id = d /\ Head(D) \in ToSet(D)
              BY <3>2, <5>1, <1>2
            <6>2. DtoMCall
              BY <4>2, <6>1 DEF DtoMFrame, DtoMMarker
            <6>3. Head(D).seq = drains[d].seq
              BY <6>1, <1>1 DEF MarkerOf
            <6>4. drains[d].seq <= seen["PostM"] /\ seen["PostM"] <= sD
              BY <2>1, <2>2 DEF Status, Event
            <6>5. Head(D).seq <= sD
              BY <6>3, <6>4, <1>2, <2>1
            <6> QED BY <6>1, <6>2, <6>5, <1>3, <1>8
          <5>3. /\ i - 1 \in 1 .. Len(D') /\ D'[i - 1] = D[i]
                /\ \A j \in 1 .. i - 1 : D'[j] = D[j + 1] /\ j + 1 \in 1 .. i
            <6>1. i - 1 \in 1 .. Len(D') /\ (i - 1) + 1 = i
              BY <5>1, <5>2, <1>2
            <6>2. \A j \in 1 .. i - 1 : j \in 1 .. Len(D') /\ j + 1 \in 1 .. i
              BY <6>1, <5>1, <1>2
            <6> QED BY <6>1, <6>2, <5>1
          <5> HIDE DEF D, back
          <5> QED BY <5>3, <3>1
        <4>3. ASSUME NEW e \in Of(Kinds), D' = Append(D, e)
              PROVE  /\ i \in 1 .. Len(D') /\ D'[i] = D[i]
                     /\ \A j \in 1 .. i : D'[j] = D[j]
          <5>1. /\ Len(D') = Len(D) + 1 /\ \A j \in 1 .. Len(D) : D'[j] = D[j]
            BY <4>3, <1>2, Appended
          <5>2. \A j \in 1 .. i : j \in 1 .. Len(D)
            BY <1>2
          <5> QED BY <5>1, <5>2, <1>2
        <4>4. CASE \E e \in Of(Kinds) : D' = Append(D, e)
          <5>1. /\ i \in 1 .. Len(D') /\ D'[i] = D[i]
                /\ \A j \in 1 .. i : D'[j] = D[j]
            BY <4>3, <4>4
          <5> HIDE DEF D, back
          <5> QED BY <5>1, <3>1
        <4> QED BY <4>1, <4>2, <4>4, DecodedStep
      <3> QED BY <2>2, <3>3, <3>4
    <2>3. CASE DrainWaits /\ d = drain /\ drains'[d].back = frames
      <3>1. /\ drainer.at = "wait" /\ Drained
            /\ UNCHANGED <<DecodedFrameRing, shown>>
        BY <2>3, ReturnsAtLast DEF DrainWaits, rings
      <3>2. Launched(d) /\ drains[d].seq <= sD
        <4>1. Launched(d)
          BY <2>1, <3>1 DEF Status
        <4>2. drains[d].seq <= seen["PostM"] /\ seen["PostM"] <= sD
          BY <2>3, <3>1 DEF Event, DrainSequenceNumber
        <4> QED BY <4>1, <4>2, <1>2, <2>1
      <3>3. PICK b \in T \cup ToSet(D) : ResetOf(b, d)
        BY <1>1, <2>1, <3>1, <3>2
      <3>4. b \notin T
        <4> SUFFICES ASSUME b \in T PROVE FALSE
          OBVIOUS
        <4>1. MarkerOf(b) /\ sD < b.seq
          BY <1>1
        <4>2. b.seq = drains[d].seq
          BY <4>1, <3>3 DEF MarkerOf, ResetOf
        <4> QED BY <4>1, <4>2, <3>2, <1>2, <2>1
      <3>5. PICK i \in 1 .. Len(D) : D[i] = b
        BY <3>3, <3>4, <1>2
      <3>6. \A x \in ToSet(D) \cup ToSet(shown) : x.kind = "frame" => x.id <= frames
        BY DEF Injected, Numbered
      <3>7. \A x \in ToSet(shown) : x.kind = "frame"
        BY Rings
      <3>8. \A j \in 1 .. i : D[j] \in ToSet(D)
        <4>1. \A j \in 1 .. i : j \in 1 .. Len(D)
          BY <1>2
        <4> QED BY <4>1, <1>2
      <3> QED BY <2>3, <3>1, <3>3, <3>5, <3>6, <3>7, <3>8
    <2> QED BY <2>1, <2>2, <2>3
  <1>9. \A d \in 1 .. drain' : Launched(d)' /\ d \notin resets' =>
          \/ d = drain' /\ drainer'.at = "reset"
          \/ \E b \in T' \cup ToSet(D') : ResetOf(b, d)
    BY <1>7
  <1>10. \A d \in 1 .. drain' : drains'[d].back # Never /\ d \notin resets' =>
           /\ \A b \in ToSet(shown') : b.id <= drains'[d].back
           /\ \E i \in 1 .. Len(D') :
                /\ ResetOf(D'[i], d)
                /\ \A j \in 1 .. i : D'[j].kind = "frame" =>
                                       D'[j].id <= drains'[d].back
    BY <1>8
  <1> QED BY <1>5, <1>6, <1>9, <1>10 DEF Resets, ResetOf, Never, MarkerOf, Launched

-----------------------------------------------------------------------------
(* The invariant, and what follows from it.                                *)

\* The invariant holds of the chain when it is empty.
LEMMA InitIInv ==
  ASSUME Init
  PROVE  IInv
  <1>1. /\ CollatedFrameRing = << >> /\ ParsedFrameRing = << >>
        /\ DecodedFrameRing = << >> /\ ManifestedBufferRing = << >>
        /\ shown = << >> /\ drains = << >>
        /\ busy["PtoD"] = NoBuffer /\ busy["DtoM"] = NoBuffer
        /\ seen["DtoM"] = 0 /\ seen["PostM"] = 0
        /\ messages["DtoM"] = {} /\ messages["PostM"] = {}
        /\ NextBufferSequenceNumber = 1 /\ MarkerInCodedFrameIndex = INVALID
        /\ \A s \in Stages : ~Discarding[s]
        /\ Drained = FALSE /\ frames = 0 /\ discarded = {} /\ resets = {}
        /\ drainer.at = "idle" /\ drainer.nonBlocking = FALSE
    BY DEF Init
  <1>2. /\ codec.decoding = << >> /\ codec.Prepared = 0 /\ codec.Completed = 0
        /\ codec.DiscardUntil = 0 /\ codec.Marker = NoBuffer /\ codec.PassOnAt = 0
        /\ codec.input = "idle" /\ codec.callback = "idle"
    BY DEF Init
  <1>3. /\ \A S : << >> \in Seq(S)
        /\ Len(<< >>) = 0 /\ \A x : x \notin ToSet(<< >>)
    <2>1. \A S : << >> \in Seq(S)
      BY EmptySeq
    <2>2. << >> \in Seq(Nat) /\ Len(<< >>) = 0
      BY EmptySeq
    <2>3. \A x : x \in ToSet(<< >>) <=> \E i \in 1 .. Len(<< >>) : << >>[i] = x
      BY <2>2, Holding, Zenon
    <2> QED BY <2>1, <2>2, <2>3
  <1>4. drain = 0
    BY <1>1, <1>3 DEF drain
  <1>5. TypeOK
    <2>1. codec \in Codecs
      <3>1. << >> \in Seq(Of({"frame"})) /\ NoBuffer \in MarkerOrNone
        BY <1>3 DEF MarkerOrNone
      <3> QED BY <3>1 DEF Init, Codecs
    <2>2. /\ busy \in [{"PtoD", "DtoM"} -> MarkerOrNone]
          /\ seen \in [{"DtoM", "PostM"} -> Nat]
          /\ messages \in [{"DtoM", "PostM"} -> SUBSET Of({"reset", "drained"})]
          /\ Discarding \in [Stages -> BOOLEAN]
      BY DEF Init, MarkerOrNone
    <2>3. drainer \in [at : {"idle", "flush", "check", "number", "launch", "reset",
                             "event", "wait"}, nonBlocking : {FALSE}]
      BY DEF Init
    <2>4. frames \in 0 .. MaxFrames /\ drain <= MaxDrains
      BY <1>1, <1>4, BoundsAssumption
    <2>5. NextBufferSequenceNumber \in Nat /\ MarkerInCodedFrameIndex \in Nat
      BY <1>1 DEF INVALID
    <2> QED BY <2>1, <2>2, <2>3, <2>4, <2>5, <1>1, <1>3 DEF TypeOK
  <1>6. Status
    BY <1>1, <1>4 DEF Status
  <1>7. Event
    BY <1>1, <1>3 DEF Event
  <1>8. \A b \in ToSet(CollatedFrameRing) \cup Numbered \cup ToSet(shown) :
          b = NoBuffer /\ b.kind = "none"
    <2>1. NoBuffer.kind = "none"
      BY DEF NoBuffer, Buffer
    <2> QED BY <2>1, <1>1, <1>2, <1>3 DEF Numbered, Behind, AtCodec
  <1>9. Order
    <2>1. \A b \in Numbered : ~IsNumbered(b)
      BY <1>8 DEF IsNumbered
    <2>2. \A S, T : S \subseteq Numbered => Ahead(S, T)
      BY <2>1 DEF Ahead
    <2>3. /\ Ordered(DecodedFrameRing) /\ Ordered(codec.decoding)
          /\ Ordered(ParsedFrameRing)
      BY <1>1, <1>2, <1>3 DEF Ordered
    <2>4. /\ ToSet(DecodedFrameRing) \subseteq Numbered
          /\ ToSet(codec.decoding) \subseteq Numbered
          /\ {codec.Marker} \cup AtCodec \subseteq Numbered
      BY DEF Numbered, Behind
    <2> QED BY <2>1, <2>2, <2>3, <2>4, <1>1 DEF Order
  <1>10. Counts
    <2>1. Uncounted = 0
      BY <1>2 DEF Uncounted
    <2> QED BY <2>1, <1>1, <1>2, <1>3 DEF Counts
  <1>11. Markers
    BY <1>1, <1>3, <1>4, <1>8 DEF Markers
  <1>12. Room
    BY <1>1, <1>3, <1>4 DEF Room
  <1>13. Injected
    BY <1>1, <1>3, <1>4, <1>8 DEF Injected
  <1>14. Flags
    BY <1>1, <1>4 DEF Flags, Stages
  <1>15. Discards
    BY <1>1, <1>2, <1>3 DEF Discards
  <1>16. Resets
    BY <1>1, <1>3, <1>4 DEF Resets
  <1> QED BY <1>5, <1>6, <1>7, <1>9, <1>10, <1>11, <1>12, <1>13, <1>14, <1>15,
             <1>16 DEF IInv

\* IInv is inductive: the order of the numbers along the chain, the counts the
\* codec holds the marker back by, where the markers and the drain's messages
\* can be, and which frames are ahead of each.
THEOREM DrainInvariant == ASSUME OneAtATime PROVE Spec => []IInv
  <1>1. IInv /\ [Next]_vars => IInv'
    BY TypeStep, StatusStep, EventStep, OrderStep, CountsStep, MarkersStep,
       RoomStep, InjectedStep, FlagsStep, DiscardsStep, ResetsStep DEF IInv
  <1>2. QED BY InitIInv, <1>1, PTL DEF Spec

\* The marker that the codec holds, in its place among the decodes.
LEMMA Inserted ==
  ASSUME NEW S, NEW s \in Seq(S), NEW e \in S, NEW i \in 1 .. Len(s) + 1
  PROVE  LET t == InsertAt(s, i, e)
         IN /\ t \in Seq(S) /\ Len(t) = Len(s) + 1 /\ t[i] = e
            /\ \A k \in 1 .. i - 1 : t[k] = s[k]
            /\ \A k \in i + 1 .. Len(s) + 1 : t[k] = s[k - 1]
  <1> DEFINE a == SubSeq(s, 1, i - 1)
             c == SubSeq(s, i, Len(s))
             b == a \o <<e>>
             t == b \o c
  <1>1. Len(s) \in Nat /\ \A k \in 1 .. Len(s) : s[k] \in S
    BY Holding
  <1>2. a \in Seq(S) /\ Len(a) = i - 1 /\ \A k \in 1 .. i - 1 : a[k] = s[k]
    <2>1. \A k \in 1 .. i - 1 : s[k] \in S /\ 1 + k - 1 = k
      BY <1>1
    <2>2. 1 \in Int /\ i - 1 \in Int
      BY <1>1
    <2>3. /\ a \in Seq(S) /\ Len(a) = (IF 1 <= i - 1 THEN i - 1 - 1 + 1 ELSE 0)
          /\ \A k \in 1 .. i - 1 - 1 + 1 : a[k] = s[1 + k - 1]
      BY <2>1, <2>2, SubSeqProperties
    <2> HIDE DEF a
    <2>4. Len(a) = i - 1
      BY <2>3, <1>1
    <2>5. \A k \in 1 .. i - 1 : k \in 1 .. i - 1 - 1 + 1
      BY <1>1
    <2> QED BY <2>1, <2>3, <2>4, <2>5
  <1>3. /\ c \in Seq(S) /\ Len(c) = Len(s) - i + 1
        /\ \A k \in 1 .. Len(s) - i + 1 : c[k] = s[i + k - 1]
    <2>1. \A k \in i .. Len(s) : s[k] \in S
      BY <1>1
    <2>2. /\ c \in Seq(S) /\ Len(c) = (IF i <= Len(s) THEN Len(s) - i + 1 ELSE 0)
          /\ \A k \in 1 .. Len(s) - i + 1 : c[k] = s[i + k - 1]
      BY <2>1, <1>1, SubSeqProperties
    <2> HIDE DEF c
    <2> QED BY <2>2, <1>1
  <1>4. <<e>> \in Seq(S) /\ Len(<<e>>) = 1 /\ <<e>>[1] = e
    OBVIOUS
  <1> HIDE DEF a, c
  <1>5. /\ b \in Seq(S) /\ Len(b) = i /\ b[i] = e
        /\ \A k \in 1 .. i - 1 : b[k] = s[k]
    <2>1. /\ b \in Seq(S) /\ Len(b) = Len(a) + Len(<<e>>)
          /\ \A k \in 1 .. Len(a) : b[k] = a[k]
          /\ \A k \in Len(a) + 1 .. Len(a) + Len(<<e>>) : b[k] = <<e>>[k - Len(a)]
      BY <1>2, <1>4, Joined
    <2> HIDE DEF b
    <2>2. Len(b) = i
      BY <2>1, <1>1, <1>2, <1>4
    <2>3. i \in Len(a) + 1 .. Len(a) + Len(<<e>>) /\ i - Len(a) = 1
      BY <1>1, <1>2, <1>4
    <2>4. b[i] = e
      BY <2>1, <2>3, <1>4
    <2> QED BY <2>1, <2>2, <2>4, <1>2
  <1> HIDE DEF b
  <1>6. /\ t \in Seq(S) /\ Len(t) = Len(s) + 1 /\ \A k \in 1 .. i : t[k] = b[k]
        /\ \A k \in i + 1 .. Len(s) + 1 : t[k] = s[k - 1]
    <2>1. /\ t \in Seq(S) /\ Len(t) = Len(b) + Len(c)
          /\ \A k \in 1 .. Len(b) : t[k] = b[k]
          /\ \A k \in Len(b) + 1 .. Len(b) + Len(c) : t[k] = c[k - Len(b)]
      BY <1>3, <1>5, Joined
    <2> HIDE DEF t
    <2>2. Len(t) = Len(s) + 1
      BY <2>1, <1>1, <1>3, <1>5
    <2>3. ASSUME NEW k \in i + 1 .. Len(s) + 1
          PROVE  t[k] = s[k - 1]
      <3>1. /\ k \in Len(b) + 1 .. Len(b) + Len(c)
            /\ k - Len(b) \in 1 .. Len(s) - i + 1 /\ i + (k - Len(b)) - 1 = k - 1
        BY <1>1, <1>3, <1>5
      <3> QED BY <3>1, <2>1, <1>3
    <2> QED BY <2>1, <2>2, <2>3, <1>5
  <1>7. t[i] = e /\ \A k \in 1 .. i - 1 : t[k] = s[k]
    <2>1. i \in 1 .. i /\ \A k \in 1 .. i - 1 : k \in 1 .. i
      BY <1>1
    <2> HIDE DEF t
    <2> QED BY <2>1, <1>5, <1>6
  <1>8. t = InsertAt(s, i, e)
    BY DEF InsertAt, a, b, c
  <1> QED BY <1>6, <1>7, <1>8

\* What the codec has is in order, with its marker among the decodes.
LEMMA CodecInOrder ==
  ASSUME TypeOK, Order, Counts
  PROVE  /\ InCodec \in Seq(Of(Kinds)) /\ Ordered(InCodec)
         /\ \A x \in ToSet(InCodec) : x \in ToSet(codec.decoding) \cup {codec.Marker}
         /\ codec.Marker # NoBuffer => codec.Marker \in ToSet(InCodec)
  <1> DEFINE s == codec.decoding
             m == codec.Marker
             i == IF MarkerPlace > 0 THEN MarkerPlace + 1 ELSE 1
             t == InsertAt(s, i, m)
  <1>1. s \in Seq(Of(Kinds)) /\ Ordered(s) /\ m \in Of(Kinds)
    BY Rings, Others, MarkerIs DEF Order
  <1>2. /\ Len(s) \in Nat /\ MarkerPlace \in Int /\ MarkerPlace <= Len(s)
    <2>1. /\ codec.PassOnAt \in Nat /\ codec.Prepared \in Nat
          /\ codec.PassOnAt <= codec.Prepared /\ Len(s) \in Nat
      BY <1>1, Others, Holding DEF Counts
    <2> QED BY <2>1 DEF MarkerPlace
  <1>3. CASE m = NoBuffer
    <2>1. InCodec = s
      BY <1>3 DEF InCodec
    <2> QED BY <1>1, <1>3, <2>1
  <1>4. CASE m # NoBuffer
    <2>1. InCodec = t
      BY <1>4 DEF InCodec, MarkerPlace
    <2>2. i \in 1 .. Len(s) + 1 /\ i \in Nat
      BY <1>2
    <2>3. \A k \in 1 .. Len(s) : IF k <= MarkerPlace THEN s[k].seq < m.seq
                                                    ELSE m.seq < s[k].seq
      BY <1>4 DEF Counts
    <2>4. /\ \A k \in 1 .. i - 1 : k \in 1 .. Len(s) /\ k <= MarkerPlace
          /\ \A k \in i + 1 .. Len(s) + 1 :
               k - 1 \in 1 .. Len(s) /\ ~(k - 1 <= MarkerPlace)
      BY <1>2
    <2>5. /\ \A k \in 1 .. i - 1 : s[k].seq < m.seq
          /\ \A k \in i + 1 .. Len(s) + 1 : m.seq < s[k - 1].seq
      BY <2>3, <2>4
    <2> HIDE DEF i, s, m
    <2>6. /\ t \in Seq(Of(Kinds)) /\ Len(t) = Len(s) + 1 /\ t[i] = m
          /\ \A k \in 1 .. i - 1 : t[k] = s[k]
          /\ \A k \in i + 1 .. Len(s) + 1 : t[k] = s[k - 1]
      BY <1>1, <2>2, Inserted
    <2> HIDE DEF t
    <2>7. /\ \A x : x \in ToSet(t) <=> \E k \in 1 .. Len(t) : t[k] = x
          /\ \A k \in 1 .. Len(s) : s[k] \in ToSet(s)
      BY <1>1, <2>6, Holding
    <2>8. ASSUME NEW x \in ToSet(t)
          PROVE  x \in ToSet(s) \cup {m}
      <3>1. PICK k \in 1 .. Len(t) : t[k] = x
        BY <2>7
      <3>2. k \in 1 .. i - 1 \/ k = i \/ k \in i + 1 .. Len(s) + 1
        BY <1>2, <2>2, <2>6
      <3> QED BY <3>1, <3>2, <2>4, <2>6, <2>7
    <2>9. m \in ToSet(t)
      BY <1>2, <2>2, <2>6, <2>7
    <2>10. Ordered(t)
      <3> SUFFICES ASSUME NEW j \in 1 .. Len(t), NEW k \in 1 .. Len(t), j < k,
                          IsNumbered(t[j]), IsNumbered(t[k])
                   PROVE  t[j].seq < t[k].seq
        BY DEF Ordered
      <3>1. /\ j \in 1 .. i - 1 \/ j = i \/ j \in i + 1 .. Len(s) + 1
            /\ k \in 1 .. i - 1 \/ k = i \/ k \in i + 1 .. Len(s) + 1
        BY <1>2, <2>2, <2>6
      <3>2. CASE j = i
        <4>1. k \in i + 1 .. Len(s) + 1
          BY <3>1, <3>2, <1>2, <2>2
        <4> QED BY <3>2, <4>1, <2>5, <2>6
      <3>3. CASE k = i
        <4>1. j \in 1 .. i - 1
          BY <3>1, <3>3, <1>2, <2>2
        <4> QED BY <3>3, <4>1, <2>5, <2>6
      <3>4. CASE j # i /\ k # i
        <4>1. PICK p \in 1 .. Len(s), q \in 1 .. Len(s) :
                p < q /\ t[j] = s[p] /\ t[k] = s[q]
          <5>1. CASE k \in 1 .. i - 1
            <6>1. j \in 1 .. i - 1
              BY <3>1, <3>4, <5>1, <1>2, <2>2
            <6> QED BY <5>1, <6>1, <2>4, <2>6
          <5>2. CASE j \in i + 1 .. Len(s) + 1
            <6>1. k \in i + 1 .. Len(s) + 1 /\ j - 1 < k - 1
              BY <3>1, <3>4, <5>2, <1>2, <2>2
            <6> QED BY <5>2, <6>1, <2>4, <2>6
          <5>3. CASE j \in 1 .. i - 1 /\ k \in i + 1 .. Len(s) + 1
            <6>1. j < k - 1
              BY <5>3, <1>2, <2>2
            <6> QED BY <5>3, <6>1, <2>4, <2>6
          <5> QED BY <3>1, <3>4, <5>1, <5>2, <5>3
        <4>2. IsNumbered(s[p]) /\ IsNumbered(s[q])
          BY <4>1
        <4> QED BY <4>1, <4>2, <1>1 DEF Ordered
      <3> QED BY <3>2, <3>3, <3>4
    <2> QED BY <2>1, <2>6, <2>8, <2>9, <2>10 DEF s, m, t
  <1> QED BY <1>3, <1>4

\* And so is all that is on its way to the manifestor.
LEMMA InFlightInOrder ==
  ASSUME TypeOK, Order, Counts
  PROVE  /\ InFlight \in Seq(Of(Kinds)) /\ Ordered(InFlight)
         /\ \A x \in ToSet(InFlight) : x \in Numbered
         /\ InPtoD \in Seq(Of(Kinds)) /\ ToSet(InPtoD) = AtCodec
  <1> DEFINE D == DecodedFrameRing
             C == InCodec
             A == InPtoD
             P == ParsedFrameRing
  <1>1. /\ D \in Seq(Of(Kinds)) /\ P \in Seq(Of(Kinds))
        /\ Ordered(D) /\ Ordered(P)
    BY Rings DEF Order
  <1>2. /\ C \in Seq(Of(Kinds)) /\ Ordered(C)
        /\ \A x \in ToSet(C) : x \in ToSet(codec.decoding) \cup {codec.Marker}
    BY CodecInOrder
  <1>3. A \in Seq(Of(Kinds)) /\ Ordered(A) /\ ToSet(A) = AtCodec
    <2>1. CASE codec.input \in {"flag", "at", "hold"}
      <3>1. busy["PtoD"] \in Of(Kinds)
        BY Others, MarkerIs
      <3>2. A = << busy["PtoD"] >> /\ AtCodec = {busy["PtoD"]}
        BY <2>1 DEF InPtoD, AtCodec
      <3>3. A \in Seq(Of(Kinds)) /\ Len(A) = 1 /\ A[1] = busy["PtoD"]
        BY <3>1, <3>2
      <3>4. \A x : x \in ToSet(A) <=> \E i \in 1 .. Len(A) : A[i] = x
        BY <3>3, Holding
      <3> HIDE DEF A
      <3>5. ToSet(A) = {busy["PtoD"]}
        BY <3>3, <3>4
      <3>6. Ordered(A)
        BY <3>3 DEF Ordered
      <3> QED BY <3>2, <3>3, <3>5, <3>6
    <2>2. CASE codec.input \notin {"flag", "at", "hold"}
      <3>1. A = << >> /\ AtCodec = {}
        BY <2>2 DEF InPtoD, AtCodec
      <3>2. A \in Seq(Of(Kinds)) /\ Len(A) = 0
        BY <3>1, EmptySeq
      <3>3. \A x : x \in ToSet(A) <=> \E i \in 1 .. Len(A) : A[i] = x
        BY <3>2, Holding
      <3> HIDE DEF A
      <3>4. ToSet(A) = {}
        BY <3>2, <3>3
      <3>5. Ordered(A)
        BY <3>2 DEF Ordered
      <3> QED BY <3>1, <3>2, <3>4, <3>5
    <2> QED BY <2>1, <2>2
  <1>4. /\ Ahead(ToSet(D), ToSet(codec.decoding) \cup {codec.Marker} \cup AtCodec
                             \cup ToSet(P))
        /\ Ahead(ToSet(codec.decoding), AtCodec \cup ToSet(P))
        /\ Ahead({codec.Marker} \cup AtCodec, ToSet(P))
    BY DEF Order, Behind
  <1>5. Ahead({codec.Marker}, AtCodec)
    <2>1. AtCodec = {} \/ ~IsNumbered(codec.Marker)
      BY Others, MarkerIs DEF Counts, AtCodec
    <2> QED BY <2>1 DEF Ahead
  <1> HIDE DEF D, C, A, P
  <1> DEFINE AP == A \o P
  <1>6. AP \in Seq(Of(Kinds)) /\ Ordered(AP) /\ ToSet(AP) = AtCodec \cup ToSet(P)
    <2>1. Ahead(ToSet(A), ToSet(P))
      BY <1>3, <1>4 DEF Ahead
    <2> QED BY <2>1, <1>1, <1>3, OrderedJoin, Joined
  <1> HIDE DEF AP
  <1> DEFINE CAP == C \o AP
  <1>7. /\ CAP \in Seq(Of(Kinds)) /\ Ordered(CAP)
        /\ ToSet(CAP) = ToSet(C) \cup (AtCodec \cup ToSet(P))
    <2>1. Ahead(ToSet(C), ToSet(AP))
      BY <1>2, <1>4, <1>5, <1>6 DEF Ahead
    <2>2. Ordered(CAP)
      BY <2>1, <1>2, <1>6, OrderedJoin
    <2>3. CAP \in Seq(Of(Kinds)) /\ ToSet(CAP) = ToSet(C) \cup ToSet(AP)
      BY <1>2, <1>6, Joined
    <2> QED BY <2>2, <2>3, <1>6
  <1> HIDE DEF CAP
  <1> DEFINE DCAP == D \o CAP
  <1>8. /\ DCAP \in Seq(Of(Kinds)) /\ Ordered(DCAP)
        /\ ToSet(DCAP) = ToSet(D) \cup (ToSet(C) \cup (AtCodec \cup ToSet(P)))
    <2>1. Ahead(ToSet(D), ToSet(CAP))
      BY <1>2, <1>4, <1>7 DEF Ahead
    <2>2. Ordered(DCAP)
      BY <2>1, <1>1, <1>7, OrderedJoin
    <2>3. DCAP \in Seq(Of(Kinds)) /\ ToSet(DCAP) = ToSet(D) \cup ToSet(CAP)
      BY <1>1, <1>7, Joined
    <2> QED BY <2>2, <2>3, <1>7
  <1>9. InFlight = DCAP
    <2>1. (D \o C) \o A = D \o (C \o A)
      BY <1>1, <1>2, <1>3, ConcatAssociative
    <2>2. C \o A \in Seq(Of(Kinds))
      BY <1>2, <1>3, Joined
    <2>3. (D \o (C \o A)) \o P = D \o ((C \o A) \o P)
      BY SMTT(30), <1>1, <2>2, ConcatAssociative
    <2>4. (C \o A) \o P = C \o (A \o P)
      BY <1>1, <1>2, <1>3, ConcatAssociative
    <2> QED BY <2>1, <2>3, <2>4 DEF InFlight, D, C, A, P, DCAP, CAP, AP
  <1>10. \A x \in ToSet(InFlight) : x \in Numbered
    BY <1>2, <1>8, <1>9 DEF Numbered, Behind, D, P
  <1> QED BY <1>3, <1>8, <1>9, <1>10 DEF A

-----------------------------------------------------------------------------
(* What follows from the invariant.                                        *)

\* A drain that has returned is over, and its marker has gone by.
LEMMA Returned ==
  ASSUME TypeOK, Status, Event, NEW d \in 1 .. drain, drains[d].back # Never
  PROVE  Over(d) /\ Launched(d) /\ drains[d].seq <= seen["DtoM"]
  <1>1. Over(d)
    BY DEF Status
  <1>2. Launched(d) /\ drains[d].seq <= seen["PostM"]
    BY <1>1 DEF Status
  <1>3. seen["PostM"] <= seen["DtoM"]
    BY DEF Event
  <1> QED BY SMTT(30), <1>1, <1>2, <1>3, Others

\* A drain that has returned has left nothing of its own in the chain.
LEMMA LeftBehind ==
  ASSUME IInv, NEW d \in 1 .. drain, drains[d].back # Never,
         NEW b \in ToSet(CollatedFrameRing) \cup Numbered
  PROVE  /\ b.kind = "frame" => b.id > drains[d].behind
         /\ b.kind = "marker" => b.id # d
  <1>1. /\ TypeOK /\ Status /\ Event /\ Order /\ Counts /\ Markers /\ Injected
    BY DEF IInv
  <1>3. Over(d) /\ Launched(d) /\ drains[d].seq <= seen["DtoM"]
    BY <1>1, Returned
  <1>4. /\ b.id \in Nat /\ b.seq \in Nat /\ drains[d].behind \in Nat
        /\ drains[d].seq \in Nat /\ seen["DtoM"] \in Nat
    BY <1>1, InChain, Others
  <1>5. \A x \in ToSet(CollatedFrameRing) \cup Numbered :
          x.kind = "marker" => x.id # d
    <2> SUFFICES ASSUME NEW x \in ToSet(CollatedFrameRing) \cup Numbered,
                        x.kind = "marker", x.id = d
                 PROVE  FALSE
      OBVIOUS
    <2>1. x.id = drain /\ ~Over(drain)
      BY <1>1, LastMarker
    <2> QED BY <2>1, <1>3
  <1>6. CASE b.kind = "frame" /\ b \in Numbered
    <2>1. seen["DtoM"] < b.seq
      BY <1>1, <1>6 DEF Order, IsNumbered
    <2>2. b.seq < drains[d].seq <=> b.id <= drains[d].behind
      BY <1>1, <1>3, <1>6 DEF Injected
    <2>3. b.id > drains[d].behind
      BY <2>1, <2>2, <1>3, <1>4
    <2> QED BY <2>3, <1>6
  <1>7. CASE b.kind = "frame" /\ b \in ToSet(CollatedFrameRing)
    <2>1. PICK i \in 1 .. Len(CollatedFrameRing) : CollatedFrameRing[i] = b
      BY <1>1, <1>7, Rings, Holding
    <2>2. b.id <= drains[d].behind =>
            \E j \in i .. Len(CollatedFrameRing) :
              /\ CollatedFrameRing[j].kind = "marker"
              /\ CollatedFrameRing[j].id = d
      BY <1>1, <1>3, <1>7, <2>1 DEF Injected
    <2>3. \A j \in i .. Len(CollatedFrameRing) :
            CollatedFrameRing[j] \in ToSet(CollatedFrameRing)
      <3>1. /\ Len(CollatedFrameRing) \in Nat
            /\ \A j \in 1 .. Len(CollatedFrameRing) :
                 CollatedFrameRing[j] \in ToSet(CollatedFrameRing)
        BY <1>1, Rings, Holding
      <3> QED BY <3>1
    <2>4. ~(b.id <= drains[d].behind)
      BY <2>2, <2>3, <1>5
    <2>5. b.id > drains[d].behind
      BY <2>4, <1>4
    <2> QED BY <2>5, <1>7
  <1> QED BY <1>5, <1>6, <1>7

\* Each property, from the invariant: of a drain that has returned,
LEMMA ReturnsDrained ==
  ASSUME IInv
  PROVE  DrainedMeansDrained
  <1>1. Upcoming \subseteq ToSet(CollatedFrameRing) \cup Numbered
    BY InFlightInOrder DEF Upcoming, IInv
  <1> QED BY <1>1, LeftBehind DEF DrainedMeansDrained

\* of the frames that came after it,
LEMMA ReturnsReset ==
  ASSUME IInv
  PROVE  ResetBeforeNewFrames
  <1> SUFFICES ASSUME NEW d \in 1 .. drain, NEW b \in ToSet(shown),
                      b.kind = "frame", b.id > drains[d].back, d \notin resets
               PROVE  FALSE
    BY DEF ResetBeforeNewFrames
  <1>1. TypeOK /\ Injected /\ Resets
    BY DEF IInv
  <1>2. /\ b.id <= frames /\ b.id \in Nat /\ drains[d].back \in Nat
        /\ frames \in Nat /\ frames < Never /\ Never \in Nat
    BY <1>1, InChain, Others DEF Injected
  <1>3. drains[d].back # Never
    BY <1>2
  <1>4. b.id <= drains[d].back
    BY <1>1, <1>3 DEF Resets
  <1> QED BY <1>2, <1>4

\* and of the flags until their marker comes.
LEMMA HoldsUntilMarker ==
  ASSUME IInv
  PROVE  DiscardsUntilMarker
  <1>1. Flags
    BY DEF IInv
  <1>2. ASSUME NEW s \in {"CtoP", "PtoD"}, NotYetAt(s, drain)
        PROVE  ToCome(s, drain)
    <2>1. CASE drains[drain].behind = Never
      BY <2>1 DEF ToCome, Launched
    <2>2. CASE \E b \in MarkersFor(s) : b.id = drain
      <3>1. PICK b \in MarkersFor(s) : b.id = drain
        BY <2>2
      <3>2. /\ b.kind = "marker"
            /\ b \in ToSet(CollatedFrameRing)
                 \/ (s = "PtoD" /\ b \in ToSet(ParsedFrameRing))
        BY DEF MarkersFor
      <3> QED BY <3>1, <3>2 DEF ToCome, Upto
    <2> QED BY <1>2, <2>1, <2>2 DEF NotYetAt
  <1> QED BY <1>1, <1>2 DEF Flags, DiscardsUntilMarker, FlagHolds

-----------------------------------------------------------------------------
(* The theorems.                                                           *)

\* With drains that wait for their end, of any number of frames and of
\* drains, what has its number stays in the order of the numbers up to
\* ProcessDecodeToManifest: the marker that the codec holds back comes out
\* of it behind the decodes commanded before it and ahead of the rest.
THEOREM ChainKeepsOrder == ASSUME OneAtATime PROVE Spec => []OrderKept
  <1>1. IInv => OrderKept
    BY InFlightInOrder DEF IInv, Ordered, OrderKept
  <1>2. QED BY <1>1, DrainInvariant, PTL

\* InternalDrainStream returns when its message has set the event: by then
\* every frame injected ahead of its marker is past the manifestor's input,
\* or has been given up.
THEOREM DrainIsComplete == ASSUME OneAtATime PROVE Spec => []DrainedMeansDrained
  <1>1. QED BY ReturnsDrained, DrainInvariant, PTL

\* The flags that InternalDrainStream sets, and DiscardQueuedDecodes of the
\* codec, give up no frame that was injected after the last marker of a
\* drain that asks to discard.
THEOREM OnlyDoomedFramesGo == ASSUME OneAtATime PROVE Spec => []DiscardedForADrain
  <1>1. IInv => DiscardedForADrain
    BY DEF IInv, Discards, MayGo, DiscardedForADrain
  <1>2. QED BY <1>1, DrainInvariant, PTL

\* The flags of the first two processes stay set until the marker of the
\* drain that set them comes.
THEOREM FlagsHold == ASSUME OneAtATime PROVE Spec => []DiscardsUntilMarker
  <1>1. QED BY HoldsUntilMarker, DrainInvariant, PTL

\* The message of a drain that has returned resets the time mapping before
\* the manifestor is given a frame injected after the return.
THEOREM TimeMappingIsReset == ASSUME OneAtATime PROVE Spec => []ResetBeforeNewFrames
  <1>1. QED BY ReturnsReset, DrainInvariant, PTL

-----------------------------------------------------------------------------
(* Nothing is left behind: the markers on their way to ProcessPostManifest. *)

\* The marker of the drain has not yet been at ProcessPostManifest.
Near(d) == ToCome("DtoM", d) \/ \E b \in ToSet(ManifestedBufferRing) :
                                  b.kind = "marker" /\ b.id = d

Coming ==
  /\ \A b \in ToSet(ManifestedBufferRing) : b.kind = "marker" => MarkerOf(b)
  /\ \A d \in 1 .. drain : Launched(d) =>
       /\ seen["DtoM"] < drains[d].seq => ToCome("DtoM", d)
       /\ seen["PostM"] < drains[d].seq => Near(d)
  /\ \A m \in messages["PostM"] : seen["PostM"] < m.seq
  /\ Discarding["PostM"] => \E d \in 1 .. drain : Near(d)

\* How the markers come to the manifested ring, and leave it.
LEMMA ManifestedStep ==
  ASSUME TypeOK, Status, [Next]_vars, NEW b, b.kind = "marker"
  PROVE  /\ b \in ToSet(ManifestedBufferRing') =>
              \/ b \in ToSet(ManifestedBufferRing)
              \/ DtoMMarker /\ b = Head(DecodedFrameRing)
         /\ b \in ToSet(ManifestedBufferRing) =>
              \/ b \in ToSet(ManifestedBufferRing')
              \/ PostMTake /\ b = Head(ManifestedBufferRing)
         /\ DtoMMarker => Head(DecodedFrameRing) \in ToSet(ManifestedBufferRing')
  <1> DEFINE M == ManifestedBufferRing
             D == DecodedFrameRing
  <1>1. /\ M \in Seq(Of(Kinds)) /\ D \in Seq(Of(Kinds)) /\ shown \in Seq(Of(Kinds))
        /\ \A x \in ToSet(shown) : x.kind = "frame"
    BY Rings
  <1>2. DtoMMarker => ToSet(M') = ToSet(M) \cup {Head(D)}
    <2> SUFFICES ASSUME DtoMMarker
                 PROVE  ToSet(M') = ToSet(M) \cup {Head(D)}
      OBVIOUS
    <2>1. D # << >> /\ M' = Append(M, Head(D))
      BY DEF DtoMMarker
    <2>2. Head(D) \in Of(Kinds)
      BY <1>1, <2>1, Tailed
    <2> QED BY <1>1, <2>1, <2>2, Appended
  <1>3. CASE Show
    <2>1. shown # << >> /\ M' = Append(M, Head(shown))
      BY <1>3 DEF Show
    <2>2. Head(shown) \in Of(Kinds) /\ Head(shown) \in ToSet(shown)
      BY <1>1, <2>1, Tailed
    <2>3. ToSet(M') = ToSet(M) \cup {Head(shown)}
      BY <1>1, <2>1, <2>2, Appended
    <2>4. Head(shown) # b
      BY <1>1, <2>2
    <2> QED BY <1>2, <2>3, <2>4
  <1>4. CASE PostMTake \/ PostMCall
    <2>1. M # << >> /\ M' = Tail(M)
      BY <1>4 DEF PostMTake, PostMCall
    <2>2. ToSet(M) = {Head(M)} \cup ToSet(M')
      BY <1>1, <2>1, Tailed
    <2>3. PostMCall => Head(M).kind # "marker"
      BY DEF PostMCall, IsCall
    <2> QED BY <1>2, <1>4, <2>2, <2>3
  <1>5. CASE DrainFlushes
    <2>1. M' = M \o shown
      BY <1>5 DEF DrainFlushes
    <2>2. ToSet(M') = ToSet(M) \cup ToSet(shown)
      BY <1>1, <2>1, Joined
    <2>3. b \notin ToSet(shown)
      BY <1>1
    <2> QED BY <1>2, <2>2, <2>3
  <1>6. CASE DrainCalls
    <2>1. CASE M' = M
      BY <1>2, <2>1
    <2>2. CASE M' # M
      <3>1. /\ M' = Append(M, Buffer("drained", drain, DrainSequenceNumber))
            /\ drainer.at = "event"
        BY <1>6, <2>2 DEF DrainCalls
      <3>2. drain \in 1 .. drain
        BY <3>1, Others DEF Status
      <3>3. drain \in Nat /\ DrainSequenceNumber \in Nat
        BY <3>2, Others DEF DrainSequenceNumber
      <3>4. PICK e \in Of({"drained"}) : M' = Append(M, e)
        BY <3>1, <3>3, BufferIs
      <3>5. e \in Of(Kinds) /\ e.kind = "drained"
        BY DEF Of, Kinds
      <3>6. ToSet(M') = ToSet(M) \cup {e} /\ e # b
        BY <1>1, <3>4, <3>5, Appended
      <3> QED BY <1>2, <3>6
    <2> QED BY <2>1, <2>2
  <1>7. CASE ~(DtoMMarker \/ Show \/ PostM \/ DrainFlushes \/ DrainCalls)
    <2>1. M' = M
      BY <1>7
      DEF Next, CtoP, PtoD, Callback, DtoM, PostM, Drain, vars, rings, Inject,
        CtoPMarker, CtoPFrame, PtoDFrame, PtoDMarker,
        PtoDMarkerTest, MarkerInput,
        TestMarkerFramePassOn, DecodeCompletes, CallbackCounts, DtoMFrame,
        DtoMMarkerClear, DtoMCall, DrainBegins, DrainChecks, DrainNumbers,
        DrainLaunches, DrainWaits
    <2> QED BY <1>2, <2>1
  <1> QED BY <1>2, <1>3, <1>4, <1>5, <1>6, <1>7 DEF PostM

\* The marker that ProcessDecodeToManifest takes is the one that was to come.
LEMMA TakenByDtoM ==
  ASSUME OneAtATime, TypeOK, Status, Event, Order, Counts, Markers,
         [Next]_vars, DtoMMarker, NEW d \in 1 .. drain, ToCome("DtoM", d)
  PROVE  IF Launched(d)
         THEN /\ Head(DecodedFrameRing).kind = "marker"
              /\ Head(DecodedFrameRing).id = d
              /\ drains[d].seq <= seen'["DtoM"]
         ELSE ~Launched(d)'
  <1> DEFINE h == Head(DecodedFrameRing)
  <1>1. /\ DecodedFrameRing # << >> /\ h.kind = "marker" /\ Sees("DtoM", h.seq)
        /\ drains' = drains
    BY DEF DtoMMarker, input
  <1>2. h \in ToSet(DecodedFrameRing) /\ h \in Of(Kinds)
    BY <1>1, Rings, Tailed
  <1>3. h \in Numbered
    BY <1>2 DEF Numbered
  <1>4. h.id = drain /\ h.seq = drains[drain].seq
    BY <1>1, <1>3, LastMarker
  <1>5. h.seq <= seen'["DtoM"]
    <2>1. h.seq \in Nat
      BY <1>2 DEF Of
    <2> QED BY <1>1, <2>1, SeesIs
  <1> HIDE DEF h
  <1>6. CASE Launched(d)
    <2>1. PICK b \in Upto("DtoM") : b.kind = "marker" /\ b.id = d
      BY <1>6 DEF ToCome
    <2>2. b \in ToSet(CollatedFrameRing) \cup Numbered
      BY <2>1 DEF Upto
    <2>3. d = drain
      BY <2>1, <2>2, LastMarker
    <2>4. h.id = d /\ drains[d].seq <= seen'["DtoM"]
      BY <2>3, <1>4, <1>5
    <2> QED BY <1>1, <1>6, <2>4 DEF h
  <1>7. CASE ~Launched(d)
    BY <1>1, <1>7 DEF Launched, Never
  <1> QED BY <1>6, <1>7

\* A marker that is near is, until ProcessPostManifest takes it.
LEMMA NearStep ==
  ASSUME OneAtATime, TypeOK, Status, Event, Order, Counts, Markers, Room,
         [Next]_vars, NEW d \in 1 .. drain, Near(d)
  PROVE  \/ Near(d)'
         \/ /\ PostMTake /\ Head(ManifestedBufferRing).kind = "marker"
            /\ Head(ManifestedBufferRing).id = d
  <1>1. CASE ToCome("DtoM", d)
    <2>1. ToCome("DtoM", d)' \/ DtoMMarker
      BY <1>1, ToComeStep
    <2>2. CASE ToCome("DtoM", d)'
      BY <2>2 DEF Near
    <2>3. CASE DtoMMarker /\ Launched(d)
      <3>1. PICK b : b = Head(DecodedFrameRing)
        OBVIOUS
      <3>2. b.kind = "marker" /\ b.id = d
        BY <1>1, <2>3, <3>1, TakenByDtoM
      <3>3. b \in ToSet(ManifestedBufferRing')
        BY <2>3, <3>1, <3>2, ManifestedStep
      <3> QED BY <3>2, <3>3 DEF Near
    <2>4. CASE DtoMMarker /\ ~Launched(d)
      <3>1. ~Launched(d)'
        BY <1>1, <2>4, TakenByDtoM
      <3> QED BY <3>1 DEF Near, ToCome
    <2> QED BY <2>1, <2>2, <2>3, <2>4
  <1>2. CASE ~ToCome("DtoM", d)
    <2>1. PICK b \in ToSet(ManifestedBufferRing) : b.kind = "marker" /\ b.id = d
      BY <1>2 DEF Near
    <2>2. \/ b \in ToSet(ManifestedBufferRing')
          \/ PostMTake /\ b = Head(ManifestedBufferRing)
      BY <2>1, ManifestedStep
    <2> QED BY <2>1, <2>2 DEF Near
  <1> QED BY <1>1, <1>2

\* A message in the table of ProcessPostManifest is still due.
LEMMA DueInPostM ==
  ASSUME TypeOK, [Next]_vars, \A m \in messages["PostM"] : seen["PostM"] < m.seq
  PROVE  \A m \in messages'["PostM"] : seen'["PostM"] < m.seq
  <1>0. /\ seen["PostM"] \in Nat /\ messages["PostM"] \subseteq Of({"reset", "drained"})
        /\ \A m \in messages["PostM"] : m.seq \in Nat
        /\ messages \in [{"DtoM", "PostM"} -> SUBSET Of({"reset", "drained"})]
    BY Others DEF Of, TypeOK
  <1>1. CASE DtoMFrame \/ DtoMMarker
    <2>1. /\ DecodedFrameRing # << >> /\ Sees("DtoM", Head(DecodedFrameRing).seq)
      BY <1>1 DEF DtoMFrame, DtoMMarker
    <2>2. Head(DecodedFrameRing).seq \in Nat
      <3>1. Head(DecodedFrameRing) \in Of(Kinds)
        BY <2>1, Rings, Tailed
      <3> QED BY <3>1 DEF Of
    <2>3. seen'["PostM"] = seen["PostM"] /\ messages'["PostM"] = messages["PostM"]
      BY <2>1, <2>2, SeesIs
    <2> QED BY <2>3
  <1>2. CASE PostMTake
    <2>1. /\ ManifestedBufferRing # << >>
          /\ Sees("PostM", Head(ManifestedBufferRing).seq)
      BY <1>2 DEF PostMTake
    <2>2. PICK value \in Nat : value = Head(ManifestedBufferRing).seq
      <3>1. Head(ManifestedBufferRing) \in Of(Kinds)
        BY <2>1, Rings, Tailed
      <3> QED BY <3>1 DEF Of
    <2>3. /\ seen'["PostM"] = (IF value > seen["PostM"] THEN value ELSE seen["PostM"])
          /\ messages'["PostM"] = {m \in messages["PostM"] : ~(m.seq <= value)}
      BY <2>1, <2>2, SeesIs
    <2> QED BY <2>2, <2>3, <1>0
  <1>3. CASE PostMCall
    <2>1. PICK m \in Of(Kinds) : m = Head(ManifestedBufferRing)
      BY <1>3, Rings, Tailed DEF PostMCall
    <2>2. \/ messages' = messages
          \/ /\ messages' = [messages EXCEPT !["PostM"] = messages["PostM"] \cup {m}]
             /\ ~(m.seq <= seen["PostM"])
      BY <1>3, <2>1 DEF PostMCall, PerformedOnArrival
    <2>3. m.seq \in Nat /\ seen' = seen
      BY <1>3, <2>1 DEF Of, PostMCall
    <2>4. \/ messages'["PostM"] = messages["PostM"]
          \/ /\ messages'["PostM"] = messages["PostM"] \cup {m}
             /\ ~(m.seq <= seen["PostM"])
      BY <2>2, <1>0
    <2> QED BY <2>3, <2>4, <1>0
  <1>4. CASE DtoMCall
    <2>1. /\ seen' = seen
          /\ \/ messages' = messages
             \/ \E x : messages' = [messages EXCEPT !["DtoM"] = x]
      BY <1>4 DEF DtoMCall
    <2>2. messages'["PostM"] = messages["PostM"]
      BY <2>1, <1>0
    <2> QED BY <2>1, <2>2
  <1>5. CASE ~(DtoMFrame \/ DtoMMarker \/ PostMTake \/ PostMCall \/ DtoMCall)
    <2>1. seen' = seen /\ messages' = messages
      BY <1>5
      DEF Next, CtoP, PtoD, Callback, DtoM, PostM, Drain, vars, processes, Inject,
        CtoPMarker, CtoPFrame, PtoDFrame, PtoDMarker,
        PtoDMarkerTest, MarkerInput,
        TestMarkerFramePassOn, DecodeCompletes, CallbackCounts, DtoMMarkerClear,
        Show, DrainBegins, DrainFlushes, DrainChecks, DrainNumbers,
        DrainLaunches, DrainCalls, DrainWaits
    <2> QED BY <2>1
  <1> QED BY <1>1, <1>2, <1>3, <1>4, <1>5

\* Its flag is set by a drain that begins, and cleared at a marker.
LEMMA FlagOfPostM ==
  ASSUME TypeOK, [Next]_vars, ~DrainBegins, Discarding'["PostM"]
  PROVE  /\ Discarding["PostM"]
         /\ PostMTake => Head(ManifestedBufferRing).kind # "marker"
  <1>1. Discarding \in [Stages -> BOOLEAN] /\ "PostM" \in Stages
    BY DEF TypeOK, Stages
  <1>2. CASE CtoPMarker \/ PtoDMarker \/ DtoMMarkerClear
    <2>1. \/ Discarding' = [Discarding EXCEPT !["CtoP"] = FALSE]
          \/ Discarding' = [Discarding EXCEPT !["PtoD"] = FALSE]
          \/ Discarding' = [Discarding EXCEPT !["DtoM"] = FALSE]
      BY <1>2 DEF CtoPMarker, ClearedAtCtoP, PtoDMarker, DtoMMarkerClear
    <2>2. Discarding'["PostM"] = Discarding["PostM"]
      BY <1>1, <2>1
    <2>3. PostMTake /\ Head(ManifestedBufferRing).kind = "marker" =>
            Discarding' = [Discarding EXCEPT !["PostM"] = FALSE]
      BY DEF PostMTake
    <2>4. ~(PostMTake /\ Head(ManifestedBufferRing).kind = "marker")
      <3>1. [Discarding EXCEPT !["PostM"] = FALSE]["PostM"] = FALSE
        BY <1>1
      <3> QED BY <2>3, <3>1
    <2> QED BY <2>2, <2>4
  <1>3. CASE PostMTake
    <2>1. Discarding' = IF Head(ManifestedBufferRing).kind = "marker"
                        THEN [Discarding EXCEPT !["PostM"] = FALSE]
                        ELSE Discarding
      BY <1>3 DEF PostMTake
    <2>2. [Discarding EXCEPT !["PostM"] = FALSE]["PostM"] = FALSE
      BY <1>1
    <2> QED BY <2>1, <2>2
  <1>4. CASE ~(CtoPMarker \/ PtoDMarker \/ DtoMMarkerClear \/ PostMTake)
    <2>1. UNCHANGED Discarding
      BY <1>4
      DEF Next, CtoP, PtoD, Callback, DtoM, PostM, Drain, vars, player, Inject,
        CtoPFrame, PtoDFrame, PtoDMarkerTest, MarkerInput, TestMarkerFramePassOn,
        DecodeCompletes, CallbackCounts, DtoMFrame, DtoMMarker, DtoMCall, Show,
        PostMCall, DrainFlushes, DrainChecks, DrainNumbers, DrainLaunches,
        DrainCalls, DrainWaits
    <2> QED BY <1>4, <2>1
  <1> QED BY <1>2, <1>3, <1>4

\* Every step keeps it.
LEMMA ComingStep ==
  ASSUME OneAtATime, IInv, Coming, [Next]_vars
  PROVE  Coming'
  <1> DEFINE M == ToSet(ManifestedBufferRing)
  <1>0. /\ TypeOK /\ Status /\ Event /\ Order /\ Counts /\ Markers /\ Room
    BY DEF IInv
  <1>1. ASSUME NEW b \in M', b.kind = "marker"
        PROVE  MarkerOf(b)'
    <2>1. CASE b \in M
      <3>1. MarkerOf(b)
        BY <1>1, <2>1 DEF Coming
      <3> QED BY <3>1, <1>0, MarkerStays
    <2>2. CASE DtoMMarker /\ b = Head(DecodedFrameRing)
      <3>1. b \in ToSet(DecodedFrameRing)
        BY <2>2, <1>0, Rings, Tailed DEF DtoMMarker
      <3>2. b \in Numbered
        BY <3>1 DEF Numbered
      <3>3. MarkerOf(b)
        BY <1>0, <1>1, <3>2 DEF Markers
      <3> QED BY <3>3, <1>0, MarkerStays
    <2> QED BY <1>0, <1>1, <2>1, <2>2, ManifestedStep
  <1>2. /\ seen["PostM"] <= seen'["PostM"] /\ seen["DtoM"] <= seen'["DtoM"]
        /\ seen["PostM"] \in Nat /\ seen["DtoM"] \in Nat
        /\ seen'["PostM"] \in Nat /\ seen'["DtoM"] \in Nat
        /\ drain \in Nat /\ \A d \in 1 .. drain : drains[d].seq \in Nat
    <2>1. TypeOK'
      BY <1>0, TypeStep
    <2>2. seen'["PostM"] \in Nat /\ seen'["DtoM"] \in Nat
      BY <2>1 DEF TypeOK
    <2> QED BY <2>2, <1>0, SeesMore, Others
  <1>3. ASSUME NEW d \in 1 .. drain', Launched(d)'
        PROVE  /\ seen'["DtoM"] < drains'[d].seq => ToCome("DtoM", d)'
               /\ seen'["PostM"] < drains'[d].seq => Near(d)'
    <2>1. d \in 1 .. drain
      BY <1>0, <1>3, LaunchedBefore
    <2>2. CASE Launched(d)
      <3>1. drains'[d].seq = drains[d].seq
        BY <1>0, <2>1, <2>2, DrainsGrow
      <3>2. ASSUME seen'["DtoM"] < drains'[d].seq
            PROVE  ToCome("DtoM", d)'
        <4>1. ToCome("DtoM", d)
          BY <1>2, <2>1, <2>2, <3>1, <3>2 DEF Coming
        <4>2. CASE DtoMMarker
          <5>1. drains[d].seq <= seen'["DtoM"]
            BY <1>0, <2>1, <2>2, <4>1, <4>2, TakenByDtoM
          <5> QED BY <5>1, <3>1, <3>2, <1>2, <2>1
        <4>3. CASE ~DtoMMarker
          BY <1>0, <2>1, <4>1, <4>3, ToComeStep
        <4> QED BY <4>2, <4>3
      <3>3. ASSUME seen'["PostM"] < drains'[d].seq
            PROVE  Near(d)'
        <4>1. Near(d)
          BY <1>2, <2>1, <2>2, <3>1, <3>3 DEF Coming
        <4>2. ASSUME PostMTake, Head(ManifestedBufferRing).kind = "marker",
                     Head(ManifestedBufferRing).id = d
              PROVE  FALSE
          <5>1. PICK h : h = Head(ManifestedBufferRing)
            OBVIOUS
          <5>2. h \in M /\ h.kind = "marker" /\ h.id = d /\ Sees("PostM", h.seq)
            BY <4>2, <5>1, <1>0, Rings, Tailed DEF PostMTake
          <5>3. h.seq = drains[d].seq
            BY <5>2 DEF Coming, MarkerOf
          <5>4. h.seq <= seen'["PostM"]
            <6>1. h.seq \in Nat
              BY <5>3, <1>2, <2>1
            <6> QED BY <6>1, <5>2, <1>0, SeesIs
          <5> QED BY <5>3, <5>4, <3>1, <3>3, <1>2, <2>1
        <4> QED BY <4>1, <4>2, <1>0, <2>1, NearStep
      <3> QED BY <3>2, <3>3
    <2>3. CASE ~Launched(d)
      <3>1. ToCome("DtoM", d)
        BY <2>3 DEF ToCome
      <3>2. CASE DtoMMarker
        <4>1. ~Launched(d)'
          BY <1>0, <2>1, <2>3, <3>1, <3>2, TakenByDtoM
        <4> QED BY <4>1, <1>3
      <3>3. CASE ~DtoMMarker
        <4>1. ToCome("DtoM", d)'
          BY <1>0, <2>1, <3>1, <3>3, ToComeStep
        <4> QED BY <4>1 DEF Near
      <3> QED BY <3>2, <3>3
    <2> QED BY <2>2, <2>3
  <1>4. \A m \in messages'["PostM"] : seen'["PostM"] < m.seq
    BY <1>0, DueInPostM DEF Coming
  <1>5. ASSUME Discarding'["PostM"]
        PROVE  \E d \in 1 .. drain' : Near(d)'
    <2>1. CASE DrainBegins
      <3>1. drain' = drain + 1 /\ drains'[drain + 1].behind = Never
        BY <1>0, <2>1, Begins
      <3>2. PICK d \in 1 .. drain' : d = drain + 1
        BY <3>1, <1>2
      <3>3. ~Launched(d)'
        BY <3>1, <3>2 DEF Launched, Never
      <3>4. Near(d)'
        BY <3>3 DEF Near, ToCome
      <3> QED BY <3>4
    <2>2. CASE ~DrainBegins
      <3>1. /\ Discarding["PostM"]
            /\ PostMTake => Head(ManifestedBufferRing).kind # "marker"
        BY <1>0, <1>5, <2>2, FlagOfPostM
      <3>2. PICK d \in 1 .. drain : Near(d)
        BY <3>1 DEF Coming
      <3>3. Near(d)'
        BY <1>0, <3>1, <3>2, NearStep
      <3>4. d \in 1 .. drain'
        BY <1>0, DrainsGrow
      <3> QED BY <3>3, <3>4
    <2> QED BY <2>1, <2>2
  <1> HIDE DEF M
  <1> QED BY <1>1, <1>3, <1>4, <1>5 DEF Coming, M

\* So it holds with the invariant.
LEMMA ComingInvariant == ASSUME OneAtATime PROVE Spec => [](IInv /\ Coming)
  <1>1. ASSUME Init
        PROVE  Coming
    <2>1. /\ ManifestedBufferRing = << >> /\ drains = << >>
          /\ messages["PostM"] = {} /\ ~Discarding["PostM"]
      BY <1>1 DEF Init, Stages
    <2>2. Len(<< >>) = 0 /\ \A x : x \notin ToSet(<< >>)
      <3>1. << >> \in Seq(Nat) /\ Len(<< >>) = 0
        BY EmptySeq
      <3>2. \A x : x \in ToSet(<< >>) <=> \E i \in 1 .. Len(<< >>) : << >>[i] = x
        BY <3>1, Holding, Zenon
      <3> QED BY <3>1, <3>2
    <2>3. drain = 0
      BY <2>1, <2>2 DEF drain
    <2> QED BY <2>1, <2>2, <2>3 DEF Coming
  <1>2. IInv /\ Coming /\ [Next]_vars => Coming'
    BY ComingStep
  <1>3. QED BY <1>1, <1>2, DrainInvariant, PTL DEF Spec

\* A marker on its way to a process is one for it to deal with.
LEMMA OnItsWay ==
  ASSUME TypeOK, Order, Counts, NEW s \in {"CtoP", "PtoD", "DtoM"},
         NEW b \in Upto(s), b.kind = "marker"
  PROVE  b \in MarkersFor(s) /\ b \in MarkersFor("PostM")
  <1>1. /\ DecodedFrameRing \in Seq(Of(Kinds)) /\ InCodec \in Seq(Of(Kinds))
        /\ InPtoD \in Seq(Of(Kinds)) /\ ToSet(InPtoD) = AtCodec
    BY Rings, CodecInOrder, InFlightInOrder
  <1>2. InPtoD \o InCodec \in Seq(Of(Kinds))
        /\ ToSet(InPtoD \o InCodec) = AtCodec \cup ToSet(InCodec)
    BY <1>1, Joined
  <1> DEFINE both == InPtoD \o InCodec
             W == ToSet(both \o DecodedFrameRing)
  <1> HIDE DEF both
  <1>3. both \in Seq(Of(Kinds)) /\ ToSet(both) = AtCodec \cup ToSet(InCodec)
    BY <1>2 DEF both
  <1>4. W = AtCodec \cup ToSet(InCodec) \cup ToSet(DecodedFrameRing)
    <2>1. W = ToSet(both) \cup ToSet(DecodedFrameRing)
      BY <1>1, <1>3, Joined
    <2> QED BY <2>1, <1>3
  <1>5. b \in Numbered => b \in W \cup ToSet(ParsedFrameRing)
    <2> SUFFICES ASSUME b \in Numbered
                 PROVE  b \in W \cup ToSet(ParsedFrameRing)
      OBVIOUS
    <2>1. b \notin ToSet(codec.decoding)
      <3>1. \A x \in ToSet(codec.decoding) : x.kind = "frame"
        BY Rings
      <3> QED BY <3>1
    <2>2. b = codec.Marker => b \in ToSet(InCodec)
      <3>1. codec.Marker.kind = "marker" => codec.Marker # NoBuffer
        BY DEF NoBuffer, Buffer
      <3> QED BY <3>1, CodecInOrder
    <2> HIDE DEF W
    <2> QED BY <2>1, <2>2, <1>4 DEF Numbered, Behind
  <1>6. W = ToSet(InPtoD \o InCodec \o DecodedFrameRing)
    BY DEF both
  <1> HIDE DEF W
  <1>7. /\ s = "CtoP" => b \in ToSet(CollatedFrameRing)
        /\ s = "PtoD" => b \in ToSet(CollatedFrameRing) \cup ToSet(ParsedFrameRing)
        /\ b \in ToSet(CollatedFrameRing) \cup ToSet(ParsedFrameRing) \cup W
    <2>1. ToSet(ParsedFrameRing) \subseteq Numbered
      BY DEF Numbered, Behind
    <2> QED BY <2>1, <1>5 DEF Upto
  <1>8. b \in MarkersFor("PostM")
    BY <1>6, <1>7 DEF MarkersFor
  <1>9. b \in MarkersFor(s)
    BY <1>6, <1>7 DEF MarkersFor
  <1> QED BY <1>8, <1>9

\* A message that waits has a marker on its way,
LEMMA MarkerComes ==
  ASSUME IInv, Coming
  PROVE  NoMessageStranded
  <1>0. /\ TypeOK /\ Status /\ Event /\ Order /\ Counts /\ Markers /\ Resets
    BY DEF IInv
  <1>1. ASSUME NEW d \in 1 .. drain, Launched(d), ToCome("DtoM", d)
        PROVE  \E b \in MarkersFor("DtoM") :
                 b \in MarkersFor("PostM") /\ b.seq = drains[d].seq
    <2>1. PICK b \in Upto("DtoM") : b.kind = "marker" /\ b.id = d
      BY <1>1 DEF ToCome
    <2>2. b \in MarkersFor("DtoM") /\ b \in MarkersFor("PostM")
      BY <1>0, <2>1, OnItsWay
    <2>3. b.seq = drains[d].seq
      <3>1. b \in ToSet(CollatedFrameRing) \cup Numbered
        BY <2>1 DEF Upto
      <3> QED BY <1>0, <2>1, <3>1, LastMarker
    <2> QED BY <2>2, <2>3
  <1>2. ASSUME NEW m \in messages["DtoM"]
        PROVE  \E b \in MarkersFor("DtoM") : b.seq >= m.seq
    <2>1. MarkerOf(m) /\ seen["DtoM"] < m.seq
      BY <1>0 DEF Resets
    <2>2. PICK d \in 1 .. drain : d = m.id
      BY <2>1 DEF MarkerOf
    <2>3. Launched(d) /\ m.seq = drains[d].seq /\ m.seq \in Nat
      BY <2>1, <2>2, <1>0, Others DEF MarkerOf
    <2>4. ToCome("DtoM", d)
      BY <2>1, <2>3 DEF Coming
    <2> QED BY <2>3, <2>4, <1>1
  <1>3. ASSUME NEW m \in messages["PostM"]
        PROVE  \E b \in MarkersFor("PostM") : b.seq >= m.seq
    <2>1. /\ drainer.at = "wait" /\ m = Buffer("drained", drain, DrainSequenceNumber)
      BY <1>0 DEF Event
    <2>2. PICK d \in 1 .. drain : d = drain
      BY <2>1, <1>0, Others DEF Status
    <2>3. Launched(d)
      BY <2>1, <1>0 DEF Status
    <2>4. m.seq = drains[d].seq /\ m.seq \in Nat
      BY <2>1, <2>2, <1>0, Others DEF Buffer, DrainSequenceNumber
    <2>5. Near(d)
      BY <2>3, <2>4 DEF Coming
    <2>6. CASE ToCome("DtoM", d)
      BY <2>3, <2>4, <2>6, <1>1
    <2>7. CASE ~ToCome("DtoM", d)
      <3>1. PICK b \in ToSet(ManifestedBufferRing) : b.kind = "marker" /\ b.id = d
        BY <2>5, <2>7 DEF Near
      <3>2. b.seq = m.seq
        BY <3>1, <2>4 DEF Coming, MarkerOf
      <3>3. b \in MarkersFor("PostM")
        BY <3>1 DEF MarkersFor
      <3> QED BY <3>2, <3>3, <2>4
    <2> QED BY <2>6, <2>7
  <1> QED BY <1>2, <1>3 DEF NoMessageStranded

\* and so has a flag that is set.
LEMMA FlagGoes ==
  ASSUME IInv, Coming
  PROVE  NoFlagStranded
  <1>0. /\ TypeOK /\ Status /\ Event /\ Order /\ Counts /\ Markers /\ Flags
    BY DEF IInv
  <1>1. ASSUME NEW s \in {"CtoP", "PtoD", "DtoM"}, NEW d \in 1 .. drain, ToCome(s, d)
        PROVE  \/ MarkersFor(s) # {} /\ MarkersFor("PostM") # {}
               \/ LaunchesNext
    <2>1. CASE Launched(d)
      <3>1. PICK b \in Upto(s) : b.kind = "marker" /\ b.id = d
        BY <1>1, <2>1 DEF ToCome
      <3> QED BY <1>0, <3>1, OnItsWay
    <2>2. CASE ~Launched(d)
      <3>1. ~Over(d) /\ drainer.at \notin {"reset", "event", "wait"}
        BY <1>0, <2>2 DEF Status
      <3>2. drainer.at # "idle"
        BY <3>1 DEF Over
      <3> QED BY <1>0, <3>1, <3>2, Others DEF LaunchesNext
    <2> QED BY <2>1, <2>2
  <1>2. ASSUME NEW s \in {"CtoP", "PtoD", "DtoM"}, Discarding[s]
        PROVE  \/ MarkersFor(s) # {} \/ (s = "DtoM" /\ ~Idle("DtoM"))
               \/ LaunchesNext
    BY <1>0, <1>1, <1>2 DEF Flags
  <1>3. ASSUME Discarding["PostM"]
        PROVE  \/ MarkersFor("PostM") # {}
               \/ LaunchesNext
    <2>1. PICK d \in 1 .. drain : Near(d)
      BY <1>3 DEF Coming
    <2>2. CASE ToCome("DtoM", d)
      BY <2>2, <1>1
    <2>3. CASE ~ToCome("DtoM", d)
      <3>1. PICK b \in ToSet(ManifestedBufferRing) : b.kind = "marker"
        BY <2>1, <2>3 DEF Near
      <3>2. b \in MarkersFor("PostM")
        BY <3>1 DEF MarkersFor
      <3> QED BY <3>2
    <2> QED BY <2>2, <2>3
  <1> QED BY <1>2, <1>3 DEF NoFlagStranded, Stages

\* Every message that ProcessDecodeToManifest or ProcessPostManifest keeps in
\* its table has a marker on its way with a number to make it due, or a drain
\* is about to launch one.
THEOREM MessagesAreNotStranded == ASSUME OneAtATime PROVE Spec => []NoMessageStranded
  <1>1. QED BY MarkerComes, ComingInvariant, PTL

\* Every flag that is set has a marker on its way to the process that will
\* clear it, or a drain that is about to launch one.
THEOREM FlagsAreNotStranded == ASSUME OneAtATime PROVE Spec => []NoFlagStranded
  <1>1. QED BY FlagGoes, ComingInvariant, PTL
-----------------------------------------------------------------------------
(* The chain of processes serves the drains as DrainService says.          *)

\* Frames come to the manifestor in the order in which they were collated.
InOrder ==
  /\ \A x, y \in Numbered : x.kind = "frame" /\ y.kind = "frame" =>
       (x.seq < y.seq => x.id < y.id)
  /\ \A i, j \in 1 .. Len(CollatedFrameRing) :
       i < j /\ CollatedFrameRing[i].kind = "frame"
             /\ CollatedFrameRing[j].kind = "frame" =>
         CollatedFrameRing[i].id < CollatedFrameRing[j].id
  /\ \A x \in Numbered \cup ToSet(shown), y \in ToSet(CollatedFrameRing) :
       x.kind = "frame" /\ y.kind = "frame" => x.id < y.id
  /\ \A x \in ToSet(shown), y \in Numbered :
       y.kind = "frame" => x.id < y.id
  /\ \A i, j \in 1 .. Len(shown) : i < j => shown[i].id < shown[j].id

\* What the head of the decoded ring has behind it.
LEMMA BehindHead ==
  ASSUME TypeOK, Order, DecodedFrameRing # << >>,
         Head(DecodedFrameRing).kind = "frame",
         NEW y \in ToSet(Tail(DecodedFrameRing)) \cup Behind, y.kind = "frame"
  PROVE  /\ Head(DecodedFrameRing) \in Numbered /\ y \in Numbered
         /\ Head(DecodedFrameRing).seq < y.seq
  <1>1. /\ Head(DecodedFrameRing) \in ToSet(DecodedFrameRing)
        /\ ToSet(Tail(DecodedFrameRing)) \subseteq ToSet(DecodedFrameRing)
    BY Rings, Tailed
  <1>2. Ahead({Head(DecodedFrameRing)}, ToSet(Tail(DecodedFrameRing)))
    BY Rings, OrderedTail DEF Order
  <1>3. Ahead(ToSet(DecodedFrameRing), Behind)
    BY DEF Order
  <1> QED BY <1>1, <1>2, <1>3 DEF Ahead, IsNumbered, Numbered

\* The frames that a step adds to what is numbered, and to the coded ring.
LEMMA FramesMove ==
  ASSUME OneAtATime, TypeOK, Status, Event, Order, Counts, Markers, [Next]_vars
  PROVE  /\ \A b \in Numbered' : b.kind = "frame" =>
              \/ b \in Numbered
              \/ /\ CtoPFrame /\ CollatedFrameRing # << >>
                 /\ CollatedFrameRing' = Tail(CollatedFrameRing)
                 /\ b.seq = NextBufferSequenceNumber
                 /\ b.id = Head(CollatedFrameRing).id
                 /\ Head(CollatedFrameRing).kind = "frame"
         /\ \A b \in ToSet(CollatedFrameRing') : b.kind = "frame" =>
              \/ b \in ToSet(CollatedFrameRing)
              \/ Inject /\ b.id = frames + 1
  <1> DEFINE R == CollatedFrameRing
  <1>1. ASSUME NEW b \in Numbered', b.kind = "frame", b \notin Numbered
        PROVE  /\ CtoPFrame /\ R # << >> /\ R' = Tail(R)
               /\ b.seq = NextBufferSequenceNumber /\ b.id = Head(R).id
               /\ Head(R).kind = "frame"
    <2>1. \/ CtoPMarker /\ b = Head(R)
          \/ CtoPFrame /\ Renumbers(Head(R), b)
      BY <1>1, ChainStep DEF IsNumbered
    <2>2. ~(CtoPMarker /\ b = Head(R))
      BY <1>1, MarkerAtHead
    <2>3. CtoPFrame => R # << >> /\ R' = Tail(R)
      BY DEF CtoPFrame
    <2> QED BY <1>1, <2>1, <2>2, <2>3 DEF Renumbers
  <1>2. ASSUME NEW b \in ToSet(R'), b.kind = "frame"
        PROVE  b \in ToSet(R) \/ (Inject /\ b.id = frames + 1)
    <2>0. R \in Seq(Of(Kinds))
      BY Rings
    <2>1. CASE R' = R
      BY <1>2, <2>1
    <2>2. CASE R # << >> /\ R' = Tail(R)
      BY <2>0, <1>2, <2>2, Tailed
    <2>3. ASSUME NEW e \in Of({"frame", "jump"}), R' = Append(R, e),
                 Inject \/ DrainFlushes,
                 Inject => e.kind = "frame" /\ e.id = frames + 1,
                 DrainFlushes => e.kind = "jump"
          PROVE  b \in ToSet(R) \/ (Inject /\ b.id = frames + 1)
      <3>1. e \in Of(Kinds)
        BY DEF Of, Kinds
      <3>2. ToSet(Append(R, e)) = ToSet(R) \cup {e}
        BY <2>0, <3>1, Appended
      <3> QED BY <1>2, <2>3, <3>2
    <2>4. ASSUME NEW e \in Of({"marker"}), R' = Append(R, e)
          PROVE  b \in ToSet(R)
      <3>1. e \in Of(Kinds) /\ e.kind = "marker"
        BY DEF Of, Kinds
      <3>2. ToSet(Append(R, e)) = ToSet(R) \cup {e}
        BY <2>0, <3>1, Appended
      <3> QED BY <1>2, <2>4, <3>1, <3>2
    <2> QED BY <2>1, <2>2, <2>3, <2>4, CollatedStep
  <1> QED BY <1>1, <1>2

\* What a step makes of what the manifestor shows.
LEMMA ShownIs ==
  ASSUME TypeOK, [Next]_vars
  PROVE  \/ shown' = shown
         \/ /\ DtoMFrame /\ DecodedFrameRing # << >>
            /\ Head(DecodedFrameRing).kind = "frame"
            /\ shown' = Append(shown, Head(DecodedFrameRing))
         \/ Show /\ shown # << >> /\ shown' = Tail(shown)
         \/ DrainFlushes /\ shown' = << >>
  BY DEF Next, CtoP, PtoD, Callback, DtoM, PostM, Drain, vars, Inject, Show,
         CtoPMarker, CtoPFrame, PtoDFrame, PtoDMarker,
         PtoDMarkerTest, MarkerInput, DtoMFrame,
         TestMarkerFramePassOn, DecodeCompletes, CallbackCounts, DtoMMarker,
         DtoMMarkerClear, DtoMCall, PostMTake, PostMCall, DrainBegins,
         DrainFlushes, DrainChecks, DrainNumbers, DrainLaunches, DrainCalls,
         DrainWaits

\* Every step keeps that: what is numbered comes from the head of the coded
\* ring, and what is shown from the head of the decoded one.
LEMMA InOrderStep ==
  ASSUME OneAtATime, IInv, InOrder, [Next]_vars
  PROVE  InOrder'
  <1> DEFINE R == CollatedFrameRing
             N == NextBufferSequenceNumber
             New(b) == /\ CtoPFrame /\ R # << >> /\ R' = Tail(R)
                       /\ b.seq = N /\ b.id = Head(R).id /\ Head(R).kind = "frame"
  <1>0. /\ TypeOK /\ Status /\ Event /\ Order /\ Counts /\ Markers /\ Injected
    BY DEF IInv
  <1>1. /\ \A b \in Numbered' : b.kind = "frame" => b \in Numbered \/ New(b)
        /\ \A b \in ToSet(R') : b.kind = "frame" =>
             b \in ToSet(R) \/ (Inject /\ b.id = frames + 1)
    BY <1>0, FramesMove
  <1>2. /\ R \in Seq(Of(Kinds)) /\ Len(R) \in Nat /\ N \in Nat /\ frames \in Nat
        /\ \A i \in 1 .. Len(R) : R[i] \in ToSet(R) /\ R[i].id \in Nat
        /\ \A b : b \in ToSet(R) <=> \E i \in 1 .. Len(R) : R[i] = b
        /\ shown \in Seq(Of(Kinds)) /\ Len(shown) \in Nat
        /\ \A i \in 1 .. Len(shown) : shown[i] \in ToSet(shown) /\ shown[i].id \in Nat
        /\ DecodedFrameRing \in Seq(Of(Kinds))
    <2>1. /\ R \in Seq(Of(Kinds)) /\ shown \in Seq(Of(Kinds))
          /\ N \in Nat /\ frames \in Nat /\ DecodedFrameRing \in Seq(Of(Kinds))
      BY <1>0, Rings, Others
    <2>2. \A b \in Of(Kinds) : b.id \in Nat
      BY DEF Of
    <2> QED BY <2>1, <2>2, Holding
  <1>3. \A b \in ToSet(R) \cup Numbered \cup ToSet(shown) :
          b.id \in Nat /\ b.seq \in Nat
    BY <1>0, InChain
  <1>4. \A b \in ToSet(R) \cup Numbered \cup ToSet(shown) :
          b.kind = "frame" => b.id <= frames
    BY <1>0 DEF Injected
  <1>5. \A b \in Numbered : b.kind = "frame" => b.seq < N
    BY <1>0 DEF Order, IsNumbered
  <1>6. R # << >> => /\ Head(R) \in ToSet(R) /\ Head(R) = R[1] /\ 1 \in 1 .. Len(R)
                     /\ Len(Tail(R)) = Len(R) - 1 /\ Tail(R) \in Seq(Of(Kinds))
                     /\ \A i \in 1 .. Len(Tail(R)) : Tail(R)[i] = R[i + 1]
                     /\ ToSet(Tail(R)) \subseteq ToSet(R)
    BY <1>2, Tailed
  <1>7. /\ \A x \in ToSet(shown') :
             \/ x \in ToSet(shown)
             \/ /\ DtoMFrame /\ DecodedFrameRing # << >>
                /\ x = Head(DecodedFrameRing) /\ x \in Numbered
                /\ x.kind = "frame"
        /\ \A x \in ToSet(shown) : x.kind = "frame"
    BY <1>0, ShownStep, Rings DEF Numbered, DtoMFrame
  <1>p. ASSUME NEW x \in ToSet(R) \cup Numbered \cup ToSet(shown), x.kind = "frame",
               NEW y \in ToSet(R'), y.kind = "frame",
               x \notin ToSet(R) \/ (x = Head(R) /\ R # << >> /\ R' = Tail(R))
        PROVE  x.id < y.id
    <2>1. CASE Inject /\ y.id = frames + 1
      BY <1>2, <1>3, <1>4, <1>p, <2>1
    <2>2. CASE y \in ToSet(R) /\ x \notin ToSet(R)
      BY <1>p, <2>2 DEF InOrder
    <2>3. CASE x = Head(R) /\ R # << >> /\ R' = Tail(R)
      <3>1. PICK j \in 1 .. Len(Tail(R)) : Tail(R)[j] = y
        BY <1>6, <1>p, <2>3, Holding
      <3>2. j + 1 \in 1 .. Len(R) /\ 1 < j + 1 /\ y = R[j + 1]
        BY <1>2, <1>6, <2>3, <3>1
      <3> QED BY <1>6, <1>p, <2>3, <3>2 DEF InOrder
    <2> QED BY <1>1, <1>p, <2>1, <2>2, <2>3
  <1>8. ASSUME NEW x \in Numbered', NEW y \in Numbered', x.kind = "frame",
               y.kind = "frame", x.seq < y.seq
        PROVE  x.id < y.id
    <2>1. CASE x \in Numbered /\ y \in Numbered
      BY <1>8, <2>1 DEF InOrder
    <2>2. CASE x \in Numbered /\ New(y)
      BY <1>6, <1>8, <2>2 DEF InOrder
    <2>3. CASE New(x) /\ (New(y) \/ y \in Numbered)
      BY <1>2, <1>3, <1>5, <1>8, <2>3
    <2> HIDE DEF New
    <2> QED BY <1>1, <1>8, <2>1, <2>2, <2>3
  <1>9. ASSUME NEW x \in Numbered' \cup ToSet(shown'), NEW y \in ToSet(R'),
               x.kind = "frame", y.kind = "frame"
        PROVE  x.id < y.id
    <2>1. CASE x \in Numbered' /\ New(x)
      <3>1. Head(R).id < y.id
        BY <1>6, <1>9, <1>p, <2>1
      <3> QED BY <2>1, <3>1
    <2>2. CASE x \in Numbered \cup ToSet(shown)
      <3>1. CASE Inject /\ y.id = frames + 1
        BY <1>2, <1>3, <1>4, <1>9, <2>2, <3>1
      <3>2. CASE y \in ToSet(R)
        BY <1>9, <2>2, <3>2 DEF InOrder
      <3> QED BY <1>1, <1>9, <3>1, <3>2
    <2> HIDE DEF New
    <2> QED BY <1>1, <1>7, <1>9, <2>1, <2>2
  <1>10. ASSUME NEW x \in ToSet(shown'), NEW y \in Numbered', y.kind = "frame"
         PROVE  x.id < y.id
    <2>1. CASE x \in ToSet(shown) /\ y \in Numbered
      BY <1>10, <2>1 DEF InOrder
    <2>2. CASE x \in ToSet(shown) /\ New(y)
      BY <1>6, <1>7, <2>2 DEF InOrder
    <2>3. CASE /\ DtoMFrame /\ DecodedFrameRing # << >>
               /\ x = Head(DecodedFrameRing) /\ x \in Numbered /\ x.kind = "frame"
      <3>1. /\ DecodedFrameRing' = Tail(DecodedFrameRing) /\ UNCHANGED codec
            /\ UNCHANGED ParsedFrameRing /\ UNCHANGED busy
        BY <2>3 DEF DtoMFrame
      <3>2. y \in ToSet(Tail(DecodedFrameRing)) \cup Behind
        BY <3>1 DEF Numbered, Behind, AtCodec
      <3>3. y \in Numbered /\ x.seq < y.seq
        BY <1>0, <1>10, <2>3, <3>2, BehindHead
      <3> QED BY <1>10, <2>3, <3>3 DEF InOrder
    <2> HIDE DEF New
    <2> QED BY <1>1, <1>7, <1>10, <2>1, <2>2, <2>3
  <1>11. ASSUME NEW i \in 1 .. Len(R'), NEW j \in 1 .. Len(R'), i < j,
                R'[i].kind = "frame", R'[j].kind = "frame"
         PROVE  R'[i].id < R'[j].id
    <2>1. CASE R' = R
      BY <1>11, <2>1 DEF InOrder
    <2>2. CASE R # << >> /\ R' = Tail(R)
      <3>1. /\ i + 1 \in 1 .. Len(R) /\ j + 1 \in 1 .. Len(R) /\ i + 1 < j + 1
            /\ R'[i] = R[i + 1] /\ R'[j] = R[j + 1]
        BY <1>2, <1>6, <1>11, <2>2
      <3> QED BY <1>11, <3>1 DEF InOrder
    <2>3. ASSUME NEW e \in Of({"frame", "jump", "marker"}), R' = Append(R, e),
                 e.kind = "frame" => e.id = frames + 1
          PROVE  R'[i].id < R'[j].id
      <3>1. e \in Of(Kinds)
        BY DEF Of, Kinds
      <3>2. /\ Len(R') = Len(R) + 1 /\ R'[Len(R) + 1] = e
            /\ \A k \in 1 .. Len(R) : R'[k] = R[k]
        BY <1>2, <2>3, <3>1, Appended
      <3>3. i \in 1 .. Len(R) /\ R'[i] = R[i]
        BY <1>2, <1>11, <3>2
      <3>4. CASE j \in 1 .. Len(R)
        BY <1>11, <3>2, <3>3, <3>4 DEF InOrder
      <3>5. CASE j = Len(R) + 1
        <4>1. R[i].id <= frames /\ R[i].id \in Nat
          BY <1>2, <1>4, <1>11, <3>3
        <4>2. R'[j].id = frames + 1
          BY <1>11, <2>3, <3>2, <3>5
        <4> QED BY <1>2, <3>3, <4>1, <4>2
      <3> QED BY <1>2, <3>2, <3>4, <3>5
    <2>4. \/ R' = R \/ (R # << >> /\ R' = Tail(R))
          \/ \E e \in Of({"frame", "jump", "marker"}) :
               R' = Append(R, e) /\ (e.kind = "frame" => e.id = frames + 1)
      <3>1. /\ Of({"frame", "jump"}) \subseteq Of({"frame", "jump", "marker"})
            /\ Of({"marker"}) \subseteq Of({"frame", "jump", "marker"})
            /\ \A e \in Of({"marker"}) : e.kind # "frame"
        BY DEF Of
      <3> QED BY <1>0, <3>1, CollatedStep
    <2> QED BY <2>1, <2>2, <2>3, <2>4
  <1>12. ASSUME NEW i \in 1 .. Len(shown'), NEW j \in 1 .. Len(shown'), i < j
         PROVE  shown'[i].id < shown'[j].id
    <2> DEFINE h == Head(DecodedFrameRing)
    <2>1. CASE shown' = shown
      BY <1>12, <2>1 DEF InOrder
    <2>2. CASE /\ DtoMFrame /\ DecodedFrameRing # << >> /\ h.kind = "frame"
               /\ shown' = Append(shown, h)
      <3>1. h \in Of(Kinds) /\ h \in Numbered
        BY <1>2, <2>2, Tailed DEF Numbered
      <3> HIDE DEF h
      <3>2. /\ Len(shown') = Len(shown) + 1 /\ shown'[Len(shown) + 1] = h
            /\ \A k \in 1 .. Len(shown) : shown'[k] = shown[k]
        BY <1>2, <2>2, <3>1, Appended
      <3>3. i \in 1 .. Len(shown) /\ shown'[i] = shown[i]
        BY <1>2, <1>12, <3>2
      <3>4. CASE j \in 1 .. Len(shown)
        BY <1>12, <3>2, <3>3, <3>4 DEF InOrder
      <3>5. CASE j = Len(shown) + 1
        BY <1>2, <2>2, <3>1, <3>2, <3>3, <3>5 DEF InOrder
      <3> QED BY <1>2, <3>2, <3>4, <3>5
    <2>3. CASE shown # << >> /\ shown' = Tail(shown)
      <3>1. /\ Len(shown') = Len(shown) - 1
            /\ \A k \in 1 .. Len(shown') : shown'[k] = shown[k + 1]
        BY <1>2, <2>3, Tailed
      <3>2. /\ i + 1 \in 1 .. Len(shown) /\ j + 1 \in 1 .. Len(shown) /\ i + 1 < j + 1
            /\ shown'[i] = shown[i + 1] /\ shown'[j] = shown[j + 1]
        BY <1>2, <1>12, <3>1
      <3> QED BY <3>2 DEF InOrder
    <2>4. CASE shown' = << >>
      BY <1>12, <2>4, EmptySeq
    <2> HIDE DEF h
    <2> QED BY <1>0, <2>1, <2>2, <2>3, <2>4, ShownIs DEF h
  <1> HIDE DEF New
  <1> QED BY <1>8, <1>9, <1>10, <1>11, <1>12 DEF InOrder

\* The frames in the chain, ring by ring.
LEMMA FramesAdd ==
  ASSUME NEW s \in Seq(Of(Kinds)), NEW e \in Of(Kinds)
  PROVE  FramesOf(ToSet(Append(s, e))) =
           FramesOf(ToSet(s)) \cup (IF e.kind = "frame" THEN {e.id} ELSE {})
  <1>1. ToSet(Append(s, e)) = ToSet(s) \cup {e}
    BY Appended
  <1> QED BY <1>1 DEF FramesOf

\* One less, at the head.
LEMMA FramesSplit ==
  ASSUME NEW s \in Seq(Of(Kinds)), s # << >>
  PROVE  FramesOf(ToSet(s)) =
           FramesOf(ToSet(Tail(s)))
             \cup (IF Head(s).kind = "frame" THEN {Head(s).id} ELSE {})
  <1>1. ToSet(s) = {Head(s)} \cup ToSet(Tail(s))
    BY Tailed
  <1> QED BY <1>1 DEF FramesOf

\* What has not come to the manifestor, ring by ring.
LEMMA UpstreamIs ==
  UpstreamFrames = FramesOf(ToSet(CollatedFrameRing))
                     \cup FramesOf(ToSet(ParsedFrameRing))
                     \cup FramesOf(ToSet(codec.decoding))
                     \cup FramesOf(ToSet(DecodedFrameRing))
  BY DEF UpstreamFrames, FramesOf

\* Each frame is in the chain once.
LEMMA Apart ==
  ASSUME IInv, InOrder
  PROVE  LET C == CollatedFrameRing
             P == ParsedFrameRing
             K == codec.decoding
             D == DecodedFrameRing
         IN /\ C # << >> /\ Head(C).kind = "frame" =>
                 \A f \in FramesOf(ToSet(Tail(C))) \cup FramesOf(ToSet(P))
                    \cup FramesOf(ToSet(K)) \cup FramesOf(ToSet(D)) : f # Head(C).id
            /\ P # << >> /\ Head(P).kind = "frame" =>
                 \A f \in FramesOf(ToSet(C)) \cup FramesOf(ToSet(Tail(P)))
                    \cup FramesOf(ToSet(K)) \cup FramesOf(ToSet(D)) : f # Head(P).id
            /\ K # << >> =>
                 \A f \in FramesOf(ToSet(C)) \cup FramesOf(ToSet(P))
                    \cup FramesOf(ToSet(Tail(K))) \cup FramesOf(ToSet(D)) : f # Head(K).id
            /\ D # << >> /\ Head(D).kind = "frame" =>
                 \A f \in FramesOf(ToSet(C)) \cup FramesOf(ToSet(P))
                    \cup FramesOf(ToSet(K)) \cup FramesOf(ToSet(Tail(D))) : Head(D).id < f
  <1> DEFINE C == CollatedFrameRing
             P == ParsedFrameRing
             K == codec.decoding
             D == DecodedFrameRing
  <1>1. /\ C \in Seq(Of(Kinds)) /\ P \in Seq(Of(Kinds)) /\ K \in Seq(Of(Kinds))
        /\ D \in Seq(Of(Kinds)) /\ TypeOK
        /\ \A b \in ToSet(K) : b.kind = "frame"
    BY Rings DEF IInv
  <1>2. \A b \in ToSet(C) \cup Numbered : b.id \in Nat /\ b.seq \in Nat
    BY <1>1, InChain
  <1>3. ToSet(P) \cup ToSet(K) \cup ToSet(D) \subseteq Numbered
    BY DEF Numbered, Behind
  <1>4. \A s \in Seq(Of(Kinds)) : s # << >> =>
          Head(s) \in ToSet(s) /\ ToSet(Tail(s)) \subseteq ToSet(s)
    BY Tailed
  <1>5. \A x, y \in Numbered : x.kind = "frame" /\ y.kind = "frame" =>
          /\ x.seq < y.seq => x.id < y.id
          /\ y.seq < x.seq => y.id < x.id
    BY DEF InOrder
  <1>6. \A x \in Numbered, y \in ToSet(C) :
          x.kind = "frame" /\ y.kind = "frame" => x.id < y.id
    BY DEF InOrder
  <1>7. \A s \in Seq(Of(Kinds)) : s # << >> /\ Ordered(s) =>
          Ahead({Head(s)}, ToSet(Tail(s)))
    BY OrderedTail
  <1>8. /\ Ordered(D) /\ Ordered(K) /\ Ordered(P)
        /\ Ahead(ToSet(D), ToSet(K) \cup ToSet(P))
        /\ Ahead(ToSet(K), ToSet(P))
    BY DEF IInv, Order, Ahead, Behind
  <1>o. \A S : \A f \in FramesOf(S) : \E b \in S : b.kind = "frame" /\ b.id = f
    BY DEF FramesOf
  <1>9. ASSUME C # << >>, Head(C).kind = "frame", NEW b \in ToSet(Tail(C)) \cup Numbered,
               b.kind = "frame"
        PROVE  b.id # Head(C).id
    <2>1. CASE b \in Numbered
      BY <1>1, <1>2, <1>4, <1>6, <1>9, <2>1
    <2>2. CASE b \in ToSet(Tail(C))
      <3>1. /\ Tail(C) \in Seq(Of(Kinds)) /\ Len(Tail(C)) = Len(C) - 1
            /\ Len(C) > 0 /\ Len(C) \in Nat /\ Head(C) = C[1]
            /\ \A i \in 1 .. Len(Tail(C)) : Tail(C)[i] = C[i + 1]
        BY <1>1, <1>9, Tailed, Holding
      <3>2. PICK i \in 1 .. Len(Tail(C)) : Tail(C)[i] = b
        BY <2>2, <3>1, Holding
      <3>3. 1 \in 1 .. Len(C) /\ i + 1 \in 1 .. Len(C) /\ 1 < i + 1 /\ b = C[i + 1]
        BY <3>1, <3>2
      <3>4. C[1].id < C[i + 1].id
        BY <1>9, <3>1, <3>3 DEF InOrder
      <3> QED BY <1>1, <1>2, <1>4, <1>9, <3>1, <3>3, <3>4
    <2> QED BY <1>9, <2>1, <2>2
  <1>10. ASSUME P # << >>, Head(P).kind = "frame",
                NEW b \in ToSet(C) \cup ToSet(Tail(P)) \cup ToSet(K) \cup ToSet(D),
                b.kind = "frame"
         PROVE  b.id # Head(P).id
    <2>1. Head(P) \in ToSet(P) /\ Ahead({Head(P)}, ToSet(Tail(P)))
      BY <1>1, <1>4, <1>7, <1>8, <1>10
    <2>2. CASE b \in ToSet(C)
      BY <1>2, <1>3, <1>6, <1>10, <2>1, <2>2
    <2>3. CASE b \in ToSet(Tail(P))
      <3>1. Head(P).seq < b.seq /\ b \in Numbered /\ Head(P) \in Numbered
        BY <1>1, <1>3, <1>4, <1>10, <2>1, <2>3 DEF Ahead, IsNumbered
      <3> QED BY <1>2, <1>5, <1>10, <3>1
    <2>4. CASE b \in ToSet(K) \cup ToSet(D)
      <3>1. b.seq < Head(P).seq /\ b \in Numbered /\ Head(P) \in Numbered
        BY <1>3, <1>8, <1>10, <2>1, <2>4 DEF Ahead, IsNumbered
      <3> QED BY <1>2, <1>5, <1>10, <3>1
    <2> QED BY <1>10, <2>2, <2>3, <2>4
  <1>11. ASSUME K # << >>, NEW b \in ToSet(C) \cup ToSet(P) \cup ToSet(Tail(K))
                                        \cup ToSet(D), b.kind = "frame"
         PROVE  b.id # Head(K).id
    <2>1. /\ Head(K) \in ToSet(K) /\ Ahead({Head(K)}, ToSet(Tail(K)))
          /\ Head(K).kind = "frame"
      BY <1>1, <1>4, <1>7, <1>8, <1>11
    <2>2. CASE b \in ToSet(C)
      BY <1>2, <1>3, <1>6, <1>11, <2>1, <2>2
    <2>3. CASE b \in ToSet(Tail(K)) \cup ToSet(P)
      <3>1. Head(K).seq < b.seq /\ b \in Numbered /\ Head(K) \in Numbered
        BY <1>1, <1>3, <1>4, <1>8, <1>11, <2>1, <2>3 DEF Ahead, IsNumbered
      <3> QED BY <1>2, <1>5, <1>11, <2>1, <3>1
    <2>4. CASE b \in ToSet(D)
      <3>1. b.seq < Head(K).seq /\ b \in Numbered /\ Head(K) \in Numbered
        BY <1>3, <1>8, <1>11, <2>1, <2>4 DEF Ahead, IsNumbered
      <3> QED BY <1>2, <1>5, <1>11, <2>1, <3>1
    <2> QED BY <1>11, <2>2, <2>3, <2>4
  <1>12. ASSUME D # << >>, Head(D).kind = "frame",
                NEW b \in ToSet(C) \cup ToSet(P) \cup ToSet(K) \cup ToSet(Tail(D)),
                b.kind = "frame"
         PROVE  Head(D).id < b.id
    <2>1. Head(D) \in ToSet(D) /\ Ahead({Head(D)}, ToSet(Tail(D)))
      BY <1>1, <1>4, <1>7, <1>8, <1>12
    <2>2. CASE b \in ToSet(C)
      BY <1>3, <1>6, <1>12, <2>1, <2>2
    <2>3. CASE b \in ToSet(Tail(D)) \cup ToSet(K) \cup ToSet(P)
      <3>1. Head(D).seq < b.seq /\ b \in Numbered /\ Head(D) \in Numbered
        BY <1>1, <1>3, <1>4, <1>8, <1>12, <2>1, <2>3 DEF Ahead, IsNumbered
      <3> QED BY <1>5, <1>12, <3>1
    <2> QED BY <1>12, <2>2, <2>3
  <1> HIDE DEF C, P, K, D
  <1>13. /\ C # << >> /\ Head(C).kind = "frame" =>
              \A f \in FramesOf(ToSet(Tail(C))) \cup FramesOf(ToSet(P))
                    \cup FramesOf(ToSet(K)) \cup FramesOf(ToSet(D)) :
                f # Head(C).id
         /\ P # << >> /\ Head(P).kind = "frame" =>
              \A f \in FramesOf(ToSet(C)) \cup FramesOf(ToSet(Tail(P)))
                    \cup FramesOf(ToSet(K)) \cup FramesOf(ToSet(D)) :
                f # Head(P).id
    BY <1>3, <1>9, <1>10, <1>o
  <1>14. /\ K # << >> =>
              \A f \in FramesOf(ToSet(C)) \cup FramesOf(ToSet(P))
                    \cup FramesOf(ToSet(Tail(K))) \cup FramesOf(ToSet(D)) :
                f # Head(K).id
         /\ D # << >> /\ Head(D).kind = "frame" =>
              \A f \in FramesOf(ToSet(C)) \cup FramesOf(ToSet(P))
                    \cup FramesOf(ToSet(K)) \cup FramesOf(ToSet(Tail(D))) :
                Head(D).id < f
    BY <1>11, <1>12, <1>o
  <1> QED BY <1>13, <1>14 DEF C, P, K, D

\* And after a step.
LEMMA UpstreamNext ==
  UpstreamFrames' = FramesOf(ToSet(CollatedFrameRing'))
                      \cup FramesOf(ToSet(ParsedFrameRing'))
                      \cup FramesOf(ToSet(codec'.decoding))
                      \cup FramesOf(ToSet(DecodedFrameRing'))
  <1>1. UpstreamFrames' = FramesOf(ToSet(CollatedFrameRing') \cup ToSet(ParsedFrameRing')
                            \cup ToSet(codec'.decoding) \cup ToSet(DecodedFrameRing'))
    BY DEF UpstreamFrames, FramesOf, ToSet
  <1> QED BY <1>1 DEF FramesOf

\* A frame may be given up for the drain in progress only, and after its
\* marker is launched only if it waits for it.
LEMMA GoesForTheDrain ==
  ASSUME IInv, NEW f \in UpstreamFrames, MayGo(f)
  PROVE  /\ Phase # "idle" /\ drain > 0 /\ drains[drain].discard
         /\ Phase = "marked" => f \in FramesDue
  <1>1. PICK d \in 1 .. drain : drains[d].discard /\ f <= drains[d].behind
    BY DEF MayGo
  <1>2. PICK b \in ToSet(CollatedFrameRing) \cup Numbered : b.kind = "frame" /\ b.id = f
    BY DEF UpstreamFrames, FramesOf, Numbered, Behind
  <1>3. TypeOK /\ Status /\ f \in Nat /\ drains[d].behind \in Nat /\ drain \in Nat
    BY <1>2, InChain, Others DEF IInv
  <1>4. drains[d].back = Never
    BY <1>1, <1>2, <1>3, LeftBehind
  <1>5. d = drain /\ drainer.at # "idle"
    BY <1>3, <1>4 DEF Status, Over
  <1> QED BY <1>1, <1>3, <1>5 DEF Phase, FramesDue

-----------------------------------------------------------------------------
(* What the caller sees of each step.                                      *)

OnScreen == FramesOf(ToSet(shown))
Foremost(f) == \A g \in UpstreamFrames : f <= g
ToDiscard == drain > 0 /\ drains[drain].discard

\* Where nothing changes of the drains.
LEMMA DrainsStay ==
  ASSUME UNCHANGED <<drains, drainer>>
  PROVE  /\ UNCHANGED <<Phase, drain, ToDiscard>>
         /\ UNCHANGED UpstreamFrames => UNCHANGED FramesDue
         /\ \A f : UpstreamFrames' = UpstreamFrames \ {f} =>
                     FramesDue' = FramesDue \ {f}
  <1>1. UNCHANGED <<Phase, drain, ToDiscard>>
    BY DEF Phase, drain, ToDiscard
  <1> QED BY <1>1 DEF FramesDue

\* A step that the caller cannot tell.
LEMMA Stays ==
  ASSUME UNCHANGED <<frames, drains, drainer, discarded, UpstreamFrames, OnScreen>>
  PROVE  UNCHANGED Service!vars
  <1>1. UNCHANGED <<Phase, ToDiscard, FramesDue>>
    BY DrainsStay
  <1> QED BY <1>1 DEF Service!vars, ToDiscard, OnScreen

\* A frame leaves: dropped, given up or displayed.
LEMMA Loses ==
  ASSUME IInv, NEW f \in UpstreamFrames, UpstreamFrames' = UpstreamFrames \ {f},
         UNCHANGED <<frames, drains, drainer>>
  PROVE  /\ UNCHANGED <<OnScreen, discarded>> => Service!Drop
         /\ UNCHANGED OnScreen /\ discarded' = discarded \cup {f} /\ MayGo(f)
              => Service!GiveUp
         /\ Foremost(f) /\ OnScreen' = OnScreen \cup {f} /\ UNCHANGED discarded
              => Service!Display
  <1>1. UNCHANGED <<Phase, ToDiscard>> /\ FramesDue' = FramesDue \ {f}
    BY DrainsStay
  <1>2. Service!Leaves(f)
    BY <1>1 DEF Service!Leaves
  <1>3. UNCHANGED <<OnScreen, discarded>> => Service!Drop
    BY <1>1, <1>2 DEF Service!Drop, OnScreen, ToDiscard
  <1>4. UNCHANGED OnScreen /\ discarded' = discarded \cup {f} /\ MayGo(f)
              => Service!GiveUp
    BY <1>1, <1>2, GoesForTheDrain DEF Service!GiveUp, OnScreen, ToDiscard
  <1>5. ASSUME Foremost(f),
               OnScreen' = OnScreen \cup {f}, UNCHANGED discarded
        PROVE  Service!Display
    <2>1. Service!First(f, UpstreamFrames)
      BY <1>5 DEF Service!First, Foremost
    <2> QED BY <1>1, <1>2, <1>5, <2>1 DEF Service!Display, OnScreen, ToDiscard
  <1> QED BY <1>3, <1>4, <1>5

\* An empty ring has none.
LEMMA NoneHeld == FramesOf(ToSet(<< >>)) = {}
  <1>1. << >> \in Seq(Nat) /\ Len(<< >>) = 0
    BY EmptySeq
  <1>2. \A x : x \in ToSet(<< >>) <=> \E i \in 1 .. Len(<< >>) : << >>[i] = x
    BY <1>1, Holding, Zenon
  <1>3. \A x : x \notin ToSet(<< >>)
    BY <1>1, <1>2
  <1> QED BY <1>3 DEF FramesOf

\* What comes and goes, other than a frame, changes nothing for the caller.
LEMMA NotAFrame ==
  /\ \A s \in Seq(Of(Kinds)) : s # << >> /\ Head(s).kind # "frame" =>
       FramesOf(ToSet(Tail(s))) = FramesOf(ToSet(s))
  /\ \A s \in Seq(Of(Kinds)), e \in Of(Kinds) : e.kind # "frame" =>
       FramesOf(ToSet(Append(s, e))) = FramesOf(ToSet(s))
  <1>1. ASSUME NEW s \in Seq(Of(Kinds)), s # << >>, Head(s).kind # "frame"
        PROVE  FramesOf(ToSet(Tail(s))) = FramesOf(ToSet(s))
    BY <1>1, FramesSplit
  <1>2. ASSUME NEW s \in Seq(Of(Kinds)), NEW e \in Of(Kinds), e.kind # "frame"
        PROVE  FramesOf(ToSet(Append(s, e))) = FramesOf(ToSet(s))
    BY <1>2, FramesAdd
  <1> QED BY <1>1, <1>2

\* Markers and calls go down the chain.
LEMMA OthersPass ==
  ASSUME OneAtATime, IInv,
         \/ CtoPMarker \/ PtoDMarker \/ PtoDMarkerTest \/ MarkerInput
         \/ CallbackCounts
         \/ TestMarkerFramePassOn("input") \/ TestMarkerFramePassOn("callback")
         \/ DtoMMarker \/ DtoMMarkerClear \/ DtoMCall \/ PostM
  PROVE  UNCHANGED Service!vars
  <1>1. /\ TypeOK /\ codec \in Codecs
        /\ CollatedFrameRing \in Seq(Of(Kinds)) /\ ParsedFrameRing \in Seq(Of(Kinds))
        /\ DecodedFrameRing \in Seq(Of(Kinds))
    BY Rings DEF IInv, TypeOK
  <1>2. UNCHANGED <<frames, drains, drainer, discarded, shown>>
    BY DEF CtoPMarker, PtoDMarker, PtoDMarkerTest, MarkerInput, CallbackCounts, input,
           TestMarkerFramePassOn, DtoMMarker, DtoMMarkerClear, DtoMCall, PostM,
           PostMTake, PostMCall
  <1>3. SUFFICES UNCHANGED UpstreamFrames
    BY <1>2, Stays DEF OnScreen
  <1>4. codec'.decoding = codec.decoding
    BY <1>1, NeverTaken
    DEF CtoPMarker, PtoDMarker, PtoDMarkerTest, MarkerInput, CallbackCounts, Take,
        DtoMMarker, DtoMMarkerClear, DtoMCall, PostM, PostMTake, PostMCall, Codecs
  <1>5. CASE CtoPMarker
    <2> DEFINE b == Head(CollatedFrameRing)
    <2>1. /\ CollatedFrameRing # << >> /\ b.kind = "marker"
          /\ CollatedFrameRing' = Tail(CollatedFrameRing)
          /\ ParsedFrameRing' = Append(ParsedFrameRing, b)
          /\ UNCHANGED DecodedFrameRing
      BY <1>5 DEF CtoPMarker
    <2>2. b \in Of(Kinds)
      BY <1>1, <2>1, Tailed
    <2> QED BY <1>1, <1>4, <2>1, <2>2, NotAFrame, UpstreamIs, UpstreamNext
  <1>6. CASE PtoDMarker
    <2>1. /\ ParsedFrameRing # << >> /\ Head(ParsedFrameRing).kind = "marker"
          /\ ParsedFrameRing' = Tail(ParsedFrameRing)
          /\ UNCHANGED <<CollatedFrameRing, DecodedFrameRing>>
      BY <1>6 DEF PtoDMarker
    <2> QED BY <1>1, <1>4, <2>1, NotAFrame, UpstreamIs, UpstreamNext
  <1>7. CASE DtoMMarker \/ DtoMCall
    <2>1. /\ DecodedFrameRing # << >> /\ Head(DecodedFrameRing).kind # "frame"
          /\ DecodedFrameRing' = Tail(DecodedFrameRing)
          /\ UNCHANGED <<CollatedFrameRing, ParsedFrameRing>>
      BY <1>7 DEF DtoMMarker, DtoMCall, IsCall
    <2> QED BY <1>1, <1>4, <2>1, NotAFrame, UpstreamIs, UpstreamNext
  <1>8. CASE TestMarkerFramePassOn("input") \/ TestMarkerFramePassOn("callback")
    <2>1. /\ UNCHANGED <<CollatedFrameRing, ParsedFrameRing>>
          /\ \/ UNCHANGED DecodedFrameRing
             \/ /\ codec.Marker # NoBuffer
                /\ DecodedFrameRing' = Append(DecodedFrameRing, codec.Marker)
      BY <1>8 DEF TestMarkerFramePassOn, Take
    <2>2. codec.Marker # NoBuffer =>
            codec.Marker \in Of(Kinds) /\ codec.Marker.kind # "frame"
      BY <1>1, Others, MarkerIs
    <2> QED BY <1>1, <1>4, <2>1, <2>2, NotAFrame, UpstreamIs, UpstreamNext
  <1>9. CASE \/ PtoDMarkerTest \/ MarkerInput
             \/ CallbackCounts \/ DtoMMarkerClear \/ PostM
    <2>1. UNCHANGED <<CollatedFrameRing, ParsedFrameRing, DecodedFrameRing>>
      BY <1>9 DEF PtoDMarkerTest, MarkerInput, CallbackCounts,
                  DtoMMarkerClear, PostM, PostMTake, PostMCall, rings
    <2> QED BY <1>4, <2>1, UpstreamIs, UpstreamNext
  <1> QED BY <1>5, <1>6, <1>7, <1>8, <1>9

\* What is upstream without the frame at the head of a ring.
LEMMA WithoutHead ==
  ASSUME IInv, InOrder
  PROVE  LET c == FramesOf(ToSet(CollatedFrameRing))
             p == FramesOf(ToSet(ParsedFrameRing))
             k == FramesOf(ToSet(codec.decoding))
             d == FramesOf(ToSet(DecodedFrameRing))
             T(s) == FramesOf(ToSet(Tail(s)))
             f(s) == Head(s).id
         IN /\ CollatedFrameRing # << >> /\ Head(CollatedFrameRing).kind = "frame" =>
                 LET h == f(CollatedFrameRing)
                 IN /\ h \in UpstreamFrames
                    /\ T(CollatedFrameRing) \cup {h} = c
                    /\ UpstreamFrames \ {h} = T(CollatedFrameRing) \cup p \cup k \cup d
            /\ ParsedFrameRing # << >> /\ Head(ParsedFrameRing).kind = "frame" =>
                 LET h == f(ParsedFrameRing)
                 IN /\ h \in UpstreamFrames
                    /\ T(ParsedFrameRing) \cup {h} = p
                    /\ UpstreamFrames \ {h} = c \cup T(ParsedFrameRing) \cup k \cup d
            /\ codec.decoding # << >> =>
                 LET h == f(codec.decoding)
                 IN /\ h \in UpstreamFrames
                    /\ T(codec.decoding) \cup {h} = k
                    /\ UpstreamFrames \ {h} = c \cup p \cup T(codec.decoding) \cup d
            /\ DecodedFrameRing # << >> /\ Head(DecodedFrameRing).kind = "frame" =>
                 LET h == f(DecodedFrameRing)
                 IN /\ h \in UpstreamFrames /\ Foremost(h)
                    /\ UpstreamFrames \ {h} = c \cup p \cup k \cup T(DecodedFrameRing)
  <1> DEFINE C == CollatedFrameRing
             P == ParsedFrameRing
             K == codec.decoding
             D == DecodedFrameRing
             c == FramesOf(ToSet(C))
             p == FramesOf(ToSet(P))
             k == FramesOf(ToSet(K))
             d == FramesOf(ToSet(D))
             T(s) == FramesOf(ToSet(Tail(s)))
  <1>1. /\ C \in Seq(Of(Kinds)) /\ P \in Seq(Of(Kinds)) /\ K \in Seq(Of(Kinds))
        /\ D \in Seq(Of(Kinds)) /\ TypeOK
        /\ \A b \in ToSet(K) : b.kind = "frame"
    BY Rings DEF IInv
  <1>3. UpstreamFrames = c \cup p \cup k \cup d
    BY UpstreamIs
  <1>4. ASSUME C # << >>, Head(C).kind = "frame"
        PROVE  /\ c = T(C) \cup {Head(C).id}
               /\ Head(C).id \notin T(C) \cup p \cup k \cup d
    <2>2. \A g \in T(C) \cup p \cup k \cup d : g # Head(C).id
      BY <1>4, Apart
    <2>3. c = T(C) \cup {Head(C).id}
      BY <1>1, <1>4, FramesSplit
    <2> QED BY <2>2, <2>3
  <1>5. ASSUME P # << >>, Head(P).kind = "frame"
        PROVE  /\ p = T(P) \cup {Head(P).id}
               /\ Head(P).id \notin c \cup T(P) \cup k \cup d
    <2>2. \A g \in c \cup T(P) \cup k \cup d : g # Head(P).id
      BY <1>5, Apart
    <2>3. p = T(P) \cup {Head(P).id}
      BY <1>1, <1>5, FramesSplit
    <2> QED BY <2>2, <2>3
  <1>6. ASSUME K # << >>
        PROVE  /\ k = T(K) \cup {Head(K).id}
               /\ Head(K).id \notin c \cup p \cup T(K) \cup d
    <2>0. Head(K).kind = "frame"
      BY <1>1, <1>6, Tailed
    <2>2. \A g \in c \cup p \cup T(K) \cup d : g # Head(K).id
      BY <1>6, Apart
    <2>3. k = T(K) \cup {Head(K).id}
      BY <1>1, <1>6, <2>0, FramesSplit
    <2> QED BY <2>2, <2>3
  <1>7. ASSUME D # << >>, Head(D).kind = "frame"
        PROVE  /\ d = T(D) \cup {Head(D).id}
               /\ \A g \in c \cup p \cup k \cup T(D) : Head(D).id < g
               /\ Head(D).id \in Nat /\ \A g \in c \cup p \cup k \cup T(D) : g \in Nat
    <2>1. d = T(D) \cup {Head(D).id}
      BY <1>1, <1>7, FramesSplit
    <2>2. \A g \in c \cup p \cup k \cup T(D) : Head(D).id < g
      BY <1>7, Apart
    <2>3. \A g \in c \cup p \cup k \cup d : g \in Nat
      BY <1>1, InChain DEF FramesOf, Numbered, Behind
    <2> QED BY <2>1, <2>2, <2>3
  <1> HIDE DEF C, P, K, D, c, p, k, d, T
  <1>8. D # << >> /\ Head(D).kind = "frame" =>
          /\ Head(D).id \in UpstreamFrames /\ Foremost(Head(D).id)
          /\ UpstreamFrames \ {Head(D).id} = c \cup p \cup k \cup T(D)
    BY <1>3, <1>7 DEF Foremost
  <1>9. /\ C # << >> /\ Head(C).kind = "frame" =>
             /\ Head(C).id \in UpstreamFrames
             /\ T(C) \cup {Head(C).id} = c
             /\ UpstreamFrames \ {Head(C).id} = T(C) \cup p \cup k \cup d
        /\ P # << >> /\ Head(P).kind = "frame" =>
             /\ Head(P).id \in UpstreamFrames
             /\ T(P) \cup {Head(P).id} = p
             /\ UpstreamFrames \ {Head(P).id} = c \cup T(P) \cup k \cup d
        /\ K # << >> =>
             /\ Head(K).id \in UpstreamFrames
             /\ T(K) \cup {Head(K).id} = k
             /\ UpstreamFrames \ {Head(K).id} = c \cup p \cup T(K) \cup d
    BY <1>3, <1>4, <1>5, <1>6
  <1> QED BY <1>8, <1>9 DEF C, P, K, D, c, p, k, d, T

\* A frame more in a ring.
LEMMA RingFrames ==
  ASSUME NEW s \in Seq(Of(Kinds)), NEW e \in Of(Kinds), e.kind = "frame"
  PROVE  FramesOf(ToSet(Append(s, e))) = FramesOf(ToSet(s)) \cup {e.id}
  BY FramesAdd

\* A frame that is injected is not one of those the drain waits for.
LEMMA Collates ==
  ASSUME IInv, Inject
  PROVE  Service!Collate
  <1>1. /\ TypeOK /\ Status /\ CollatedFrameRing \in Seq(Of(Kinds))
        /\ frames \in Nat /\ frames + 1 \in Nat /\ drain \in Nat
    <2>1. TypeOK /\ Status
      BY DEF IInv
    <2>2. CollatedFrameRing \in Seq(Of(Kinds))
      BY <2>1, Rings
    <2>3. frames \in Nat /\ drain \in Nat
      BY <2>1, Others
    <2> QED BY <2>1, <2>2, <2>3
  <1>2. /\ Buffer("frame", frames + 1, 0) \in Of(Kinds)
        /\ Buffer("frame", frames + 1, 0).kind = "frame"
        /\ Buffer("frame", frames + 1, 0).id = frames + 1
    BY <1>1 DEF Buffer, Of, Kinds
  <1>3. /\ CollatedFrameRing' = Append(CollatedFrameRing, Buffer("frame", frames + 1, 0))
        /\ frames' = frames + 1
        /\ UNCHANGED <<ParsedFrameRing, DecodedFrameRing, codec, shown, drainer,
                       drains, discarded>>
    BY DEF Inject
  <1>4. FramesOf(ToSet(CollatedFrameRing')) =
          FramesOf(ToSet(CollatedFrameRing)) \cup {frames + 1}
    BY <1>1, <1>2, <1>3, RingFrames
  <1>5. UpstreamFrames' = UpstreamFrames \cup {frames + 1}
    BY <1>3, <1>4, UpstreamIs, UpstreamNext
  <1>6. UNCHANGED <<Phase, drain, ToDiscard, OnScreen>>
    BY <1>3, DrainsStay DEF OnScreen
  <1>7. Phase = "marked" => ~(frames + 1 <= drains[drain].behind)
    <2> SUFFICES ASSUME Phase = "marked" PROVE ~(frames + 1 <= drains[drain].behind)
      OBVIOUS
    <2>1. drainer.at # "idle" /\ Launched(drain)
      BY DEF Phase, Launched
    <2>2. drain \in 1 .. drain
      BY <1>1, <2>1 DEF Status
    <2>3. drains[drain].behind <= frames /\ drains[drain].behind \in Nat
      BY <1>1, <2>1, <2>2, Others DEF Status
    <2> QED BY <1>1, <2>3
  <1>8. UNCHANGED FramesDue
    BY <1>3, <1>5, <1>6, <1>7 DEF FramesDue
  <1> QED BY <1>3, <1>5, <1>6, <1>8 DEF Service!Collate, ToDiscard, OnScreen

\* ProcessCollateToParse passes a frame on, or gives it up.
LEMMA Parses ==
  ASSUME OneAtATime, IInv, InOrder, [Next]_vars, CtoPFrame
  PROVE  UNCHANGED Service!vars \/ Service!GiveUp
  <1> DEFINE h == Head(CollatedFrameRing)
  <1>1. /\ CollatedFrameRing # << >> /\ CollatedFrameRing' = Tail(CollatedFrameRing)
        /\ UNCHANGED <<DecodedFrameRing, codec, shown, drainer, drains, frames>>
    BY DEF CtoPFrame
  <1>2. /\ TypeOK /\ CollatedFrameRing \in Seq(Of(Kinds))
        /\ ParsedFrameRing \in Seq(Of(Kinds))
    BY Rings DEF IInv
  <1>3. PICK b \in Of({"frame", "jump"}) : Renumbers(h, b)
    BY <1>2, CtoPNumbers
  <1>4. b \in Of(Kinds) /\ b.kind = h.kind /\ b.id = h.id
    BY <1>3 DEF Of, Kinds, Renumbers
  <1>5. UNCHANGED OnScreen
    BY <1>1 DEF OnScreen
  <1>6. CASE h.kind = "frame" /\ ParsedFrameRing' = Append(ParsedFrameRing, b)
                /\ discarded' = discarded
    <2>1. /\ FramesOf(ToSet(CollatedFrameRing')) \cup {h.id} =
               FramesOf(ToSet(CollatedFrameRing))
      BY <1>1, <1>6, WithoutHead
    <2>2. FramesOf(ToSet(ParsedFrameRing')) = FramesOf(ToSet(ParsedFrameRing)) \cup {h.id}
      BY <1>2, <1>4, <1>6, RingFrames
    <2>3. UNCHANGED UpstreamFrames
      BY <1>1, <2>1, <2>2, UpstreamIs, UpstreamNext
    <2> QED BY <1>1, <1>5, <1>6, <2>3, Stays
  <1>7. CASE h.kind = "jump" /\ ParsedFrameRing' = ParsedFrameRing
                /\ discarded' = discarded
    <2>1. FramesOf(ToSet(CollatedFrameRing')) = FramesOf(ToSet(CollatedFrameRing))
      BY <1>1, <1>2, <1>7, NotAFrame
    <2>2. UNCHANGED UpstreamFrames
      BY <1>1, <1>7, <2>1, UpstreamIs, UpstreamNext
    <2> QED BY <1>1, <1>5, <1>7, <2>2, Stays
  <1>8. CASE h.kind = "frame" /\ ParsedFrameRing' = ParsedFrameRing
                /\ discarded' = discarded \cup {h.id}
    <2>1. /\ h.id \in UpstreamFrames
          /\ UpstreamFrames \ {h.id} =
               FramesOf(ToSet(CollatedFrameRing')) \cup FramesOf(ToSet(ParsedFrameRing))
                 \cup FramesOf(ToSet(codec.decoding)) \cup FramesOf(ToSet(DecodedFrameRing))
      BY <1>1, <1>8, WithoutHead
    <2>2. UpstreamFrames' = UpstreamFrames \ {h.id}
      BY <1>1, <1>8, <2>1, UpstreamNext
    <2>3. MayGo(h.id)
      BY <1>8, SparedStep DEF IInv
    <2> HIDE DEF h
    <2> QED BY <1>1, <1>5, <1>8, <2>1, <2>2, <2>3, Loses
  <1> HIDE DEF h
  <1> QED BY <1>3, <1>4, <1>6, <1>7, <1>8 DEF Renumbers

\* ProcessParseToDecode decodes a frame, drops it or gives it up.
LEMMA Decodes ==
  ASSUME OneAtATime, IInv, InOrder, [Next]_vars, PtoDFrame
  PROVE  UNCHANGED Service!vars \/ Service!GiveUp \/ Service!Drop
  <1> DEFINE h == Head(ParsedFrameRing)
  <1>1. /\ ParsedFrameRing # << >> /\ ParsedFrameRing' = Tail(ParsedFrameRing)
        /\ h.kind = "frame"
        /\ UNCHANGED <<CollatedFrameRing, DecodedFrameRing, shown, drainer, drains, frames>>
        /\ \/ UNCHANGED codec /\ Spare(h, Discarding["PtoD"])
           \/ /\ UNCHANGED discarded
              /\ codec' = [codec EXCEPT !.decoding = Append(@, h), !.Prepared = @ + 1]
    BY DEF PtoDFrame
  <1>2. /\ TypeOK /\ ParsedFrameRing \in Seq(Of(Kinds)) /\ codec \in Codecs
        /\ codec.decoding \in Seq(Of(Kinds)) /\ h \in Of(Kinds)
    BY <1>1, Rings, Tailed DEF IInv, TypeOK
  <1>5. UNCHANGED OnScreen
    BY <1>1 DEF OnScreen
  <1>3. /\ h.id \in UpstreamFrames
        /\ FramesOf(ToSet(ParsedFrameRing')) \cup {h.id} = FramesOf(ToSet(ParsedFrameRing))
        /\ UpstreamFrames \ {h.id} =
             FramesOf(ToSet(CollatedFrameRing)) \cup FramesOf(ToSet(ParsedFrameRing'))
               \cup FramesOf(ToSet(codec.decoding)) \cup FramesOf(ToSet(DecodedFrameRing))
    BY <1>1, WithoutHead
  <1> HIDE DEF h
  <1>6. CASE UNCHANGED codec
    <2>1. UpstreamFrames' = UpstreamFrames \ {h.id}
      BY <1>1, <1>3, <1>6, UpstreamNext
    <2>2. discarded' = discarded \/ discarded' = discarded \cup {h.id}
      BY <1>1 DEF Spare
    <2>3. discarded' = discarded \cup {h.id} => MayGo(h.id)
      BY SparedStep DEF IInv
    <2> QED BY <1>1, <1>3, <1>5, <2>1, <2>2, <2>3, Loses
  <1>7. CASE UNCHANGED discarded
               /\ codec' = [codec EXCEPT !.decoding = Append(@, h), !.Prepared = @ + 1]
    <2>1. codec'.decoding = Append(codec.decoding, h)
      BY <1>2, <1>7 DEF Codecs
    <2>2. FramesOf(ToSet(codec'.decoding)) = FramesOf(ToSet(codec.decoding)) \cup {h.id}
      BY <1>1, <1>2, <2>1, RingFrames
    <2>3. UNCHANGED UpstreamFrames
      BY <1>1, <1>3, <2>2, UpstreamIs, UpstreamNext
    <2> QED BY <1>1, <1>5, <1>7, <2>3, Stays
  <1> QED BY <1>1, <1>6, <1>7

\* A decode completes, and its frame goes on or is given up.
LEMMA Completes ==
  ASSUME OneAtATime, IInv, InOrder, [Next]_vars, DecodeCompletes
  PROVE  UNCHANGED Service!vars \/ Service!GiveUp
  <1> DEFINE h == Head(codec.decoding)
  <1>1. /\ codec.decoding # << >>
        /\ codec' = [codec EXCEPT !.decoding = Tail(@), !.callback = "count"]
        /\ UNCHANGED <<CollatedFrameRing, ParsedFrameRing, shown, drainer, drains, frames>>
        /\ Spare(h, IsDiscarded)
        /\ DecodedFrameRing' = IF IsDiscarded THEN DecodedFrameRing
                               ELSE Append(DecodedFrameRing, h)
    BY DEF DecodeCompletes
  <1>2. /\ TypeOK /\ DecodedFrameRing \in Seq(Of(Kinds)) /\ codec \in Codecs
        /\ codec.decoding \in Seq(Of(Kinds)) /\ h \in Of(Kinds) /\ h.kind = "frame"
    <2>1. /\ TypeOK /\ codec \in Codecs
      BY DEF IInv, TypeOK
    <2>2. /\ DecodedFrameRing \in Seq(Of(Kinds)) /\ codec.decoding \in Seq(Of(Kinds))
          /\ \A b \in ToSet(codec.decoding) : b.kind = "frame"
      BY <2>1, Rings
    <2>3. h \in Of(Kinds) /\ h \in ToSet(codec.decoding)
      BY <1>1, <2>2, Tailed
    <2> QED BY <2>1, <2>2, <2>3
  <1>3. codec'.decoding = Tail(codec.decoding)
    BY <1>1, <1>2 DEF Codecs
  <1>5. UNCHANGED OnScreen
    BY <1>1 DEF OnScreen
  <1>4. /\ h.id \in UpstreamFrames
        /\ FramesOf(ToSet(codec'.decoding)) \cup {h.id} = FramesOf(ToSet(codec.decoding))
        /\ UpstreamFrames \ {h.id} =
             FramesOf(ToSet(CollatedFrameRing)) \cup FramesOf(ToSet(ParsedFrameRing))
               \cup FramesOf(ToSet(codec'.decoding)) \cup FramesOf(ToSet(DecodedFrameRing))
    BY <1>1, <1>3, WithoutHead
  <1> HIDE DEF h
  <1>6. CASE IsDiscarded
    <2>1. UpstreamFrames' = UpstreamFrames \ {h.id}
      BY <1>1, <1>4, <1>6, UpstreamNext
    <2>2. discarded' = discarded \cup {h.id}
      BY <1>1, <1>6 DEF Spare
    <2>3. MayGo(h.id)
      BY <2>2, SparedStep DEF IInv
    <2> QED BY <1>1, <1>4, <1>5, <2>1, <2>2, <2>3, Loses
  <1>7. CASE ~IsDiscarded
    <2>1. FramesOf(ToSet(DecodedFrameRing')) = FramesOf(ToSet(DecodedFrameRing)) \cup {h.id}
      BY <1>1, <1>2, <1>7, RingFrames
    <2>2. UNCHANGED UpstreamFrames
      BY <1>1, <1>4, <2>1, UpstreamIs, UpstreamNext
    <2>3. UNCHANGED discarded
      BY <1>1, <1>7 DEF Spare
    <2> QED BY <1>1, <1>5, <2>2, <2>3, Stays
  <1> QED BY <1>6, <1>7

\* ProcessDecodeToManifest shows a frame, drops it or gives it up.
LEMMA Manifests ==
  ASSUME OneAtATime, IInv, InOrder, [Next]_vars, DtoMFrame
  PROVE  Service!Display \/ Service!GiveUp \/ Service!Drop
  <1> DEFINE h == Head(DecodedFrameRing)
  <1>1. /\ DecodedFrameRing # << >> /\ DecodedFrameRing' = Tail(DecodedFrameRing)
        /\ h.kind = "frame"
        /\ UNCHANGED <<CollatedFrameRing, ParsedFrameRing, codec, drainer, drains, frames>>
        /\ \/ UNCHANGED shown /\ Spare(h, Discarding["DtoM"])
           \/ UNCHANGED discarded /\ shown' = Append(shown, h)
    BY DEF DtoMFrame
  <1>2. /\ TypeOK /\ shown \in Seq(Of(Kinds)) /\ h \in Of(Kinds)
    BY <1>1, Rings, Tailed DEF IInv
  <1>3. /\ h.id \in UpstreamFrames /\ Foremost(h.id)
        /\ UpstreamFrames \ {h.id} =
             FramesOf(ToSet(CollatedFrameRing)) \cup FramesOf(ToSet(ParsedFrameRing))
               \cup FramesOf(ToSet(codec.decoding)) \cup FramesOf(ToSet(DecodedFrameRing'))
    BY <1>1, WithoutHead
  <1> HIDE DEF h
  <1>4. UpstreamFrames' = UpstreamFrames \ {h.id}
    BY <1>1, <1>3, UpstreamNext
  <1>5. CASE UNCHANGED shown /\ Spare(h, Discarding["DtoM"])
    <2>1. UNCHANGED OnScreen
      BY <1>5 DEF OnScreen
    <2>2. discarded' = discarded \/ discarded' = discarded \cup {h.id}
      BY <1>5 DEF Spare
    <2>3. discarded' = discarded \cup {h.id} => MayGo(h.id)
      BY SparedStep DEF IInv
    <2> QED BY <1>1, <1>3, <1>4, <2>1, <2>2, <2>3, Loses
  <1>6. CASE UNCHANGED discarded /\ shown' = Append(shown, h)
    <2>1. OnScreen' = OnScreen \cup {h.id}
      BY <1>1, <1>2, <1>6, RingFrames DEF OnScreen
    <2> QED BY <1>1, <1>3, <1>4, <1>6, <2>1, Loses
  <1> QED BY <1>1, <1>5, <1>6

\* The frame shown first leaves first.
LEMMA Shows ==
  ASSUME IInv, InOrder, Show
  PROVE  Service!LeaveScreen
  <1> DEFINE h == Head(shown)
  <1>1. /\ shown # << >> /\ shown' = Tail(shown)
        /\ UNCHANGED <<CollatedFrameRing, ParsedFrameRing, DecodedFrameRing, codec,
                       drainer, drains, frames, discarded>>
    BY DEF Show, input
  <1>2. /\ TypeOK /\ shown \in Seq(Of(Kinds)) /\ Len(shown) \in Nat
        /\ \A b \in ToSet(shown) : b.kind = "frame" /\ b.id \in Nat
        /\ \A b : b \in ToSet(shown) <=> \E i \in 1 .. Len(shown) : shown[i] = b
    <2>1. TypeOK
      BY DEF IInv
    <2> QED BY <2>1, Rings, Holding, InChain
  <1>3. /\ h \in ToSet(shown) /\ h = shown[1] /\ 1 \in 1 .. Len(shown)
        /\ Tail(shown) \in Seq(Of(Kinds)) /\ Len(Tail(shown)) = Len(shown) - 1
        /\ \A i \in 1 .. Len(Tail(shown)) : Tail(shown)[i] = shown[i + 1]
    BY <1>1, <1>2, Tailed
  <1>4. \A b \in ToSet(Tail(shown)) : h.id < b.id
    <2> SUFFICES ASSUME NEW b \in ToSet(Tail(shown)) PROVE h.id < b.id
      OBVIOUS
    <2>1. PICK i \in 1 .. Len(Tail(shown)) : Tail(shown)[i] = b
      BY <1>3, Holding
    <2>2. i + 1 \in 1 .. Len(shown) /\ 1 < i + 1 /\ b = shown[i + 1]
      BY <1>2, <1>3, <2>1
    <2>3. shown[1].id < shown[i + 1].id
      BY <1>3, <2>2 DEF InOrder
    <2> QED BY <1>3, <2>2, <2>3
  <1>5. /\ OnScreen = OnScreen' \cup {h.id}
        /\ h.id \in Nat /\ \A g \in OnScreen' : h.id < g /\ g \in Nat
    <2>1. OnScreen = FramesOf(ToSet(Tail(shown))) \cup {h.id}
      BY <1>1, <1>2, <1>3, FramesSplit DEF OnScreen
    <2>2. ToSet(Tail(shown)) \subseteq ToSet(shown)
      BY <1>1, <1>2, Tailed
    <2>3. \A g \in FramesOf(ToSet(Tail(shown))) : h.id < g /\ g \in Nat
      BY <1>2, <1>4, <2>2 DEF FramesOf
    <2>4. OnScreen' = FramesOf(ToSet(Tail(shown)))
      BY <1>1 DEF OnScreen
    <2> QED BY <1>2, <1>3, <2>1, <2>3, <2>4
  <1> HIDE DEF h
  <1>6. /\ h.id \in OnScreen /\ OnScreen' = OnScreen \ {h.id}
        /\ \A g \in OnScreen : h.id <= g
    BY <1>5
  <1>7. UNCHANGED <<Phase, ToDiscard, UpstreamFrames, FramesDue>>
    <2>1. UNCHANGED UpstreamFrames
      BY <1>1, UpstreamIs, UpstreamNext
    <2> QED BY <1>1, <2>1, DrainsStay
  <1>8. Service!First(h.id, OnScreen)
    BY <1>6 DEF Service!First
  <1> QED BY <1>1, <1>6, <1>7, <1>8 DEF Service!LeaveScreen, ToDiscard, OnScreen

\* The calling thread, between the steps that the caller could tell.
PhaseOfThread ==
  /\ Phase = "idle" <=> drainer.at = "idle"
  /\ Phase = "begun" <=> drainer.at \in {"flush", "check", "number", "launch"}
  /\ Phase = "marked" <=> drainer.at \in {"reset", "event", "wait"}
  /\ drainer.at # "idle" => drain \in 1 .. drain
  /\ Phase # "marked" => FramesDue = {}

\* A drain that has returned has left nothing of its own upstream.
NoneLeft == \A d \in 1 .. drain : drains[d].back # Never =>
              \A f \in UpstreamFrames : f > drains[d].behind

\* Where the thread is tells the phase.
LEMMA PhaseIs ==
  ASSUME IInv
  PROVE  PhaseOfThread
  <1>1. /\ TypeOK /\ Status /\ drain \in Nat
        /\ drainer.at \in {"idle", "flush", "check", "number", "launch", "reset",
                           "event", "wait"}
    BY Others DEF IInv
  <1>2. drainer.at # "idle" => drain \in 1 .. drain
    BY <1>1 DEF Status
  <1>3. drainer.at # "idle" =>
          (Launched(drain) <=> drainer.at \in {"reset", "event", "wait"})
    BY <1>1, <1>2 DEF Status, Over
  <1>4. /\ drainer.at = "idle" => Phase = "idle"
        /\ drainer.at # "idle" /\ Launched(drain) => Phase = "marked"
        /\ drainer.at # "idle" /\ ~Launched(drain) => Phase = "begun"
    BY DEF Phase, Launched
  <1>5. Phase # "marked" => FramesDue = {}
    BY DEF FramesDue
  <1> QED BY <1>1, <1>2, <1>3, <1>4, <1>5 DEF PhaseOfThread

\* By LeftBehind, since frames upstream are in the coded ring or numbered.
LEMMA LeavesNone ==
  ASSUME IInv
  PROVE  NoneLeft
  <1>1. \A f \in UpstreamFrames :
          \E b \in ToSet(CollatedFrameRing) \cup Numbered : b.kind = "frame" /\ b.id = f
    BY DEF UpstreamFrames, FramesOf, Numbered, Behind
  <1> QED BY <1>1, LeftBehind DEF NoneLeft

\* Both hold now,
LEMMA PhaseNow == IInv => PhaseOfThread /\ NoneLeft
  BY PhaseIs, LeavesNone

\* and in the next state too.
LEMMA PhaseNext == IInv' => PhaseOfThread' /\ NoneLeft'
  <1>1. QED BY PhaseNow, PTL

\* What the thread does that is not seen.
LEMMA ThreadGoesOn ==
  ASSUME OneAtATime, IInv, IInv', DrainChecks \/ DrainNumbers \/ DrainCalls
  PROVE  UNCHANGED Service!vars
  <1>1. TypeOK /\ Status /\ DecodedFrameRing \in Seq(Of(Kinds))
    BY Rings DEF IInv
  <1>2. /\ UNCHANGED <<frames, discarded, shown, codec, CollatedFrameRing,
                       ParsedFrameRing>>
        /\ \A place : Goes(place) => drainer'.at = place
    BY <1>1 DEF DrainChecks, DrainNumbers, DrainCalls, rings, input, TypeOK, Goes
  <1>3. /\ drain \in 1 .. drain /\ drain' = drain
        /\ drains'[drain].discard = drains[drain].discard
        /\ drains'[drain].behind = drains[drain].behind
        /\ UNCHANGED UpstreamFrames
        /\ \/ Phase = "begun" /\ Phase' = "begun"
           \/ Phase = "marked" /\ Phase' = "marked"
    <2>1. CASE DrainNumbers
      <3>1. /\ drain \in 1 .. drain /\ drain' = drain
            /\ drains'[drain].discard = drains[drain].discard
            /\ drains'[drain].behind = drains[drain].behind
        BY <1>1, <2>1, Numbers
      <3>2. UNCHANGED UpstreamFrames
        BY <2>1 DEF DrainNumbers, rings, UpstreamFrames
      <3>3. drainer.at = "number" /\ drainer'.at = "launch"
        BY <1>2, <2>1 DEF DrainNumbers
      <3>4. Phase = "begun" /\ Phase' = "begun"
        BY <3>3, PhaseNow, PhaseNext DEF PhaseOfThread
      <3> QED BY <3>1, <3>2, <3>4
    <2>2. CASE DrainChecks
      <3>1. UNCHANGED drains /\ UNCHANGED UpstreamFrames
        BY <2>2 DEF DrainChecks, rings, input, UpstreamFrames
      <3>2. drainer.at = "check" /\ drainer'.at = "number"
        BY <1>1, <1>2, <2>2, ChecksAndGoesOn DEF DrainChecks, Goes
      <3>3. Phase = "begun" /\ Phase' = "begun" /\ drain \in 1 .. drain
        BY <3>2, PhaseNow, PhaseNext DEF PhaseOfThread
      <3> QED BY <3>1, <3>3 DEF drain
    <2>3. CASE DrainCalls
      <3>1. UNCHANGED drains
        BY <2>3 DEF DrainCalls, input
      <3>2. /\ drainer.at \in {"reset", "event"} /\ drainer'.at \in {"event", "wait"}
            /\ \/ UNCHANGED DecodedFrameRing
               \/ DecodedFrameRing' = Append(DecodedFrameRing,
                                        Buffer("reset", drain, DrainSequenceNumber))
        <4>1. drainer.nonBlocking = FALSE
          BY <1>1 DEF TypeOK
        <4> QED BY <1>2, <2>3, <4>1 DEF DrainCalls
      <3>3. Phase = "marked" /\ Phase' = "marked" /\ drain \in 1 .. drain
        BY <3>2, PhaseNow, PhaseNext DEF PhaseOfThread
      <3>4. UNCHANGED UpstreamFrames
        <4>1. /\ Buffer("reset", drain, DrainSequenceNumber) \in Of(Kinds)
              /\ Buffer("reset", drain, DrainSequenceNumber).kind # "frame"
          BY <1>1, <3>3, Others DEF Buffer, Of, Kinds, DrainSequenceNumber
        <4>2. FramesOf(ToSet(DecodedFrameRing')) = FramesOf(ToSet(DecodedFrameRing))
          BY <1>1, <3>2, <4>1, NotAFrame
        <4> QED BY <1>2, <4>2, UpstreamIs, UpstreamNext
      <3> QED BY <3>1, <3>3, <3>4 DEF drain
    <2> QED BY <2>1, <2>2, <2>3
  <1>4. UNCHANGED <<FramesDue, ToDiscard, Phase, OnScreen>>
    BY <1>2, <1>3 DEF FramesDue, ToDiscard, OnScreen
  <1> QED BY <1>2, <1>3, <1>4 DEF Service!vars, ToDiscard, OnScreen

\* A drain begins when the last one has returned.
LEMMA BeginsAsAsked ==
  ASSUME OneAtATime, IInv, IInv', DrainBegins
  PROVE  Service!Begin
  <1>1. TypeOK /\ TypeOK'
    BY DEF IInv
  <1>2. /\ UNCHANGED <<rings, codec, shown, frames, discarded>>
        /\ drainer.at = "idle"
    BY DEF DrainBegins
  <1>3. drainer'.at \in {"flush", "check"}
    BY <1>1, Begins
  <1>4. /\ Phase = "idle" /\ Phase' = "begun" /\ FramesDue = {} /\ FramesDue' = {}
    BY <1>2, <1>3, PhaseNow, PhaseNext DEF PhaseOfThread
  <1>5. UNCHANGED UpstreamFrames /\ UNCHANGED OnScreen
    BY <1>2 DEF UpstreamFrames, OnScreen, rings
  <1>6. ToDiscard' \in BOOLEAN
    BY DEF ToDiscard
  <1> QED BY <1>2, <1>4, <1>5, <1>6 DEF Service!Begin, ToDiscard, OnScreen

\* ReleaseQueuedDecodeBuffers clears the screen for a drain that discards.
LEMMA Flushes ==
  ASSUME OneAtATime, IInv, IInv', DrainFlushes
  PROVE  Service!Flush
  <1>1. /\ TypeOK /\ Status /\ CollatedFrameRing \in Seq(Of(Kinds)) /\ codec \in Codecs
    BY Rings DEF IInv, TypeOK
  <1>2. /\ UNCHANGED <<drains, frames, discarded, ParsedFrameRing, DecodedFrameRing>>
        /\ drainer.at = "flush" /\ drainer'.at = "check" /\ shown' = << >>
        /\ codec' = [codec EXCEPT !.DiscardUntil = codec.Prepared]
        /\ CollatedFrameRing' = Append(CollatedFrameRing, Buffer("jump", drain, 0))
    BY <1>1 DEF DrainFlushes, input, Goes, TypeOK
  <1>3. /\ Phase = "begun" /\ Phase' = "begun" /\ drain \in 1 .. drain
        /\ FramesDue = {} /\ FramesDue' = {}
    BY <1>2, PhaseNow, PhaseNext DEF PhaseOfThread
  <1>4. UNCHANGED UpstreamFrames
    <2>1. /\ Buffer("jump", drain, 0) \in Of(Kinds) /\ Buffer("jump", drain, 0).kind # "frame"
      BY <1>1, Others DEF Buffer, Of, Kinds
    <2>2. FramesOf(ToSet(CollatedFrameRing')) = FramesOf(ToSet(CollatedFrameRing))
      BY <1>1, <1>2, <2>1, NotAFrame
    <2>3. codec'.decoding = codec.decoding
      BY <1>1, <1>2 DEF Codecs
    <2> QED BY <1>2, <2>2, <2>3, UpstreamIs, UpstreamNext
  <1>5. OnScreen' = {}
    BY <1>2, NoneHeld DEF OnScreen
  <1>6. ToDiscard /\ ToDiscard'
    BY <1>1, <1>2, <1>3 DEF ToDiscard, Status, drain
  <1> QED BY <1>2, <1>3, <1>4, <1>5, <1>6 DEF Service!Flush, ToDiscard, OnScreen

\* Every frame in the chain was injected before the marker.
LEMMA Marks ==
  ASSUME OneAtATime, IInv, IInv', DrainLaunches
  PROVE  Service!Mark
  <1>1. /\ TypeOK /\ Status /\ CollatedFrameRing \in Seq(Of(Kinds)) /\ drain \in Nat
        /\ TypeOK' /\ frames \in Nat
    BY Rings, Others DEF IInv
  <1>2. /\ UNCHANGED <<frames, discarded, shown, codec, ParsedFrameRing, DecodedFrameRing>>
        /\ drainer.at = "launch" /\ drainer'.at = "reset"
        /\ CollatedFrameRing' = Append(CollatedFrameRing,
                                  Buffer("marker", drain, DrainSequenceNumber))
    BY <1>1 DEF DrainLaunches, Goes, TypeOK
  <1>3. /\ drain \in 1 .. drain /\ drain' = drain
        /\ drains'[drain].behind = frames
        /\ drains'[drain].discard = drains[drain].discard
    BY <1>1, Launches
  <1>4. Phase = "begun" /\ Phase' = "marked"
    BY <1>2, PhaseNow, PhaseNext DEF PhaseOfThread
  <1>5. UNCHANGED UpstreamFrames
    <2>1. /\ Buffer("marker", drain, DrainSequenceNumber) \in Of(Kinds)
          /\ Buffer("marker", drain, DrainSequenceNumber).kind # "frame"
      BY <1>1, <1>3, Others DEF Buffer, Of, Kinds, DrainSequenceNumber
    <2>2. FramesOf(ToSet(CollatedFrameRing')) = FramesOf(ToSet(CollatedFrameRing))
      BY <1>1, <1>2, <2>1, NotAFrame
    <2> QED BY <1>2, <2>2, UpstreamIs, UpstreamNext
  <1>6. \A f \in UpstreamFrames : f <= frames
    BY DEF UpstreamFrames, FramesOf, Numbered, Behind, IInv, Injected
  <1>7. FramesDue' = UpstreamFrames
    BY <1>3, <1>4, <1>5, <1>6 DEF FramesDue
  <1>8. UNCHANGED OnScreen /\ UNCHANGED ToDiscard
    BY <1>2, <1>3 DEF OnScreen, ToDiscard
  <1> QED BY <1>2, <1>4, <1>5, <1>7, <1>8 DEF Service!Mark, ToDiscard, OnScreen

\* A drain that returns has nothing left to wait for.
LEMMA ReturnsServed ==
  ASSUME OneAtATime, IInv, IInv', DrainWaits
  PROVE  Service!Return
  <1>1. TypeOK /\ Status /\ frames \in Nat /\ frames < Never /\ Never \in Nat
    BY Others DEF IInv
  <1>2. /\ drain \in 1 .. drain /\ drain' = drain
        /\ drainer.at = "wait" /\ drainer'.at = "idle"
        /\ drains'[drain].back = frames
        /\ drains'[drain].discard = drains[drain].discard
        /\ drains'[drain].behind = drains[drain].behind
    BY <1>1, ReturnsAtLast
  <1>3. UNCHANGED <<rings, codec, shown, frames, discarded>>
    BY DEF DrainWaits
  <1>4. UNCHANGED UpstreamFrames /\ UNCHANGED OnScreen
    BY <1>3 DEF UpstreamFrames, OnScreen, rings
  <1>5. Phase = "marked" /\ Phase' = "idle" /\ FramesDue' = {}
    BY <1>2, PhaseNow, PhaseNext DEF PhaseOfThread
  <1>6. FramesDue = {}
    <2>1. \A f \in UpstreamFrames : f > drains[drain].behind
      BY <1>1, <1>2, <1>4, PhaseNow, PhaseNext DEF NoneLeft
    <2>2. \A f \in UpstreamFrames : f \in Nat
      BY <1>1, InChain DEF UpstreamFrames, FramesOf, Numbered, Behind
    <2>3. drains[drain].behind \in Nat
      BY <1>1, <1>2, Others
    <2> QED BY <2>1, <2>2, <2>3 DEF FramesDue
  <1>7. UNCHANGED ToDiscard
    BY <1>2 DEF ToDiscard
  <1> QED BY <1>3, <1>4, <1>5, <1>6, <1>7 DEF Service!Return, ToDiscard, OnScreen

\* Every step is one of the store's, or is not seen.
LEMMA ServesStep ==
  ASSUME OneAtATime, IInv, IInv', InOrder, [Next]_vars
  PROVE  [Service!Next]_(Service!vars)
  <1>1. CASE Inject
    BY <1>1, Collates DEF Service!Next
  <1>2. CASE CtoPFrame
    BY <1>2, Parses DEF Service!Next
  <1>3. CASE PtoDFrame
    BY <1>3, Decodes DEF Service!Next
  <1>4. CASE DecodeCompletes
    BY <1>4, Completes DEF Service!Next
  <1>5. CASE DtoMFrame
    BY <1>5, Manifests DEF Service!Next
  <1>6. CASE Show
    BY <1>6, Shows DEF Service!Next
  <1>7. CASE DrainBegins
    BY <1>7, BeginsAsAsked DEF Service!Next
  <1>8. CASE DrainFlushes
    BY <1>8, Flushes DEF Service!Next
  <1>9. CASE DrainLaunches
    BY <1>9, Marks DEF Service!Next
  <1>10. CASE DrainWaits
    BY <1>10, ReturnsServed DEF Service!Next
  <1>11. CASE DrainChecks \/ DrainNumbers \/ DrainCalls
    BY <1>11, ThreadGoesOn
  <1>12. CASE \/ CtoPMarker \/ PtoDMarker \/ PtoDMarkerTest \/ MarkerInput
              \/ CallbackCounts
              \/ TestMarkerFramePassOn("input") \/ TestMarkerFramePassOn("callback")
              \/ DtoMMarker \/ DtoMMarkerClear \/ DtoMCall \/ PostM
    BY <1>12, OthersPass
  <1>13. CASE UNCHANGED vars
    <2>1. /\ UNCHANGED <<frames, drains, drainer, discarded, shown>>
          /\ UNCHANGED <<rings, codec>>
      BY <1>13 DEF vars, input
    <2>2. UNCHANGED <<UpstreamFrames, OnScreen>>
      BY <2>1 DEF UpstreamFrames, OnScreen, rings
    <2> QED BY <2>1, <2>2, Stays
  <1> QED BY <1>1, <1>2, <1>3, <1>4, <1>5, <1>6, <1>7, <1>8, <1>9, <1>10, <1>11,
             <1>12, <1>13 DEF Next, CtoP, PtoD, Callback, DtoM, Drain

\* And so is the beginning.
LEMMA ServesInit ==
  ASSUME Init
  PROVE  InOrder /\ Service!Init
  <1>1. /\ CollatedFrameRing = << >> /\ ParsedFrameRing = << >>
        /\ DecodedFrameRing = << >> /\ codec.decoding = << >> /\ shown = << >>
        /\ codec.Marker = NoBuffer /\ codec.input = "idle"
        /\ frames = 0 /\ drains = << >> /\ discarded = {} /\ drainer.at = "idle"
    BY DEF Init
  <1>2. << >> \in Seq(Nat) /\ Len(<< >>) = 0
    BY EmptySeq
  <1>3. \A x : x \in ToSet(<< >>) <=> \E i \in 1 .. Len(<< >>) : << >>[i] = x
    BY <1>2, Holding, Zenon
  <1>4. ToSet(<< >>) = {}
    BY <1>2, <1>3
  <1>5. \A x \in Numbered : x.kind # "frame"
    BY <1>1, <1>4 DEF Numbered, Behind, AtCodec, NoBuffer, Buffer
  <1>6. InOrder
    BY <1>1, <1>2, <1>4, <1>5 DEF InOrder
  <1>7. UpstreamFrames = {} /\ OnScreen = {}
    BY <1>1, NoneHeld, UpstreamIs DEF OnScreen
  <1>8. Phase = "idle" /\ FramesDue = {} /\ ToDiscard = FALSE
    BY <1>1, <1>2 DEF Phase, FramesDue, ToDiscard, drain
  <1> QED BY <1>1, <1>6, <1>7, <1>8 DEF Service!Init, OnScreen, ToDiscard

\* For the thread that calls InternalDrainStream and waits, and for whoever
\* watches the screen, the chain of processes is the store that DrainService
\* describes.
THEOREM DrainsAreServed == ASSUME OneAtATime PROVE Spec => ServesDrains
  <1>1. Init => InOrder /\ Service!Init
    BY ServesInit
  <1>2. IInv /\ InOrder /\ [Next]_vars => InOrder'
    BY InOrderStep
  <1>3. IInv /\ IInv' /\ InOrder /\ [Next]_vars => [Service!Next]_(Service!vars)
    BY ServesStep
  <1>4. QED BY DrainInvariant, <1>1, <1>2, <1>3, PTL
            DEF Spec, ServesDrains, Service!Spec
=============================================================================
