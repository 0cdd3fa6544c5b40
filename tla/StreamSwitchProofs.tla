-------------------------- MODULE StreamSwitchProofs --------------------------
(* StreamSwitch, for any number of switches, of frames of every collator   *)
(* and any size of the rings: nothing is replaced in use, every frame goes *)
(* back through its own codec, and no process waits for what nobody does.  *)
EXTENDS StreamSwitch, SequenceTheorems, TLAPS

\* The drains are those of the switches, whoever injects frames waits until
\* SwitchStream has returned, and the waits for the last decode are long
\* enough.  Threads may be preempted inside TestMarkerFramePassOn.
SwitchesAlone ==
  OtherDrains = {} /\ WriterWaits = TRUE /\ LastDecodeLate = FALSE

-----------------------------------------------------------------------------
(* The inductive invariant.                                                *)

Of(kinds) == [kind : kinds, id : Nat, seq : Nat]
MarkerOrNone == Of({"marker"}) \cup {NoBuffer}
CodecCalls == {"idle", "flag", "at", "hold", "test", "take"}
Codecs == [decoding : Seq(Of({"frame"})), Prepared : Nat, Completed : Nat,
           DiscardUntil : Nat, Marker : MarkerOrNone, PassOnAt : Nat,
           input : CodecCalls, callback : {"idle", "count", "test", "take"}]
Asked == [discard : BOOLEAN, parseAll : BOOLEAN, seq : Nat, behind : Nat,
          back : Nat]

\* What each ring may hold, and the switch's tables.
SwitchTypes ==
  /\ CollatedFrameRing \in Seq(Of({"frame", "jump", "marker", "parser"}))
  /\ ParsedFrameRing \in Seq(Of({"frame", "marker", "codec"}))
  /\ DecodedFrameRing \in Seq(Of({"frame", "marker", "reset", "timer"}))
  /\ ManifestedBufferRing \in Seq(Of({"frame", "marker", "drained",
                                      "complete"}))
  /\ shown \in Seq(Of({"frame"}))
  /\ busy \in [{"PtoD", "DtoM"} -> MarkerOrNone]
  /\ seen \in [{"DtoM", "PostM"} -> Nat]
  /\ NextBufferSequenceNumber \in Nat /\ MarkerInCodedFrameIndex \in Nat
  /\ codec \in Codecs
  /\ drains \in Seq(Asked) /\ drain <= MaxDrains
  /\ frames \in 0 .. MaxFrames
  /\ SwitchStreamInProgress \in BOOLEAN /\ CodecReset \in BOOLEAN
  /\ LastOneOut \in BOOLEAN
  /\ Stream \in [Collator : Nat, FrameParser : Nat, Codec : Nat]
  /\ calls \in [Stages -> SUBSET Of({"parser", "codec", "timer", "complete"})]
  /\ passed \in [{"CtoP", "PtoD"} -> Nat]
  /\ performing \in SUBSET {"CtoP", "PtoD", "halted"}
  /\ streamOf \in Seq(Nat) /\ Len(streamOf) = frames

\* How far the thread that calls SwitchStream is.  It waits in no drain.
Preparing == drainer.at \in {"flush", "check", "number", "launch"}
Thread ==
  /\ drainer \in [at : {"idle", "flush", "check", "number", "launch", "reset",
                        "event"},
                  nonBlocking : BOOLEAN]
  /\ switcher \in {"idle", "drain"} \cup Stages
  /\ drainer.at # "idle" => switcher = "drain" /\ drainer.nonBlocking
  /\ switcher \in Stages => SwitchStreamInProgress
  /\ switcher = "drain" => ~SwitchStreamInProgress /\ drain > 0
  /\ Stream.Collator = IF switcher = "drain" THEN drain - 1 ELSE drain

\* From the marker's launch until the switch is complete; the calls that have
\* been sent; and whether the last of the old stream's is out of the codec.
Underway == SwitchStreamInProgress \/ (switcher = "drain" /\ ~Preparing)
Before(stage) == CASE stage = "CtoP" -> {"drain", "CtoP"}
                   [] stage = "PtoD" -> {"drain", "CtoP", "PtoD"}
                   [] stage = "DtoM" -> {"drain", "CtoP", "PtoD", "DtoM"}
                   [] stage = "PostM" -> {"drain"} \cup Stages
Sent(stage) == Underway /\ switcher \notin Before(stage)
Out == ~Underway \/ (LastOneOut /\ switcher # "drain")

-----------------------------------------------------------------------------
(* The contents of a ring, in a world: the stream of each frame, the last  *)
(* switch whose marker was launched, and the marker's number.  The stream  *)
(* which that switch ends is the one before.                               *)

Newest == IF Preparing THEN drain - 1 ELSE drain
Number == IF Newest = 0 THEN 0 ELSE drains[Newest].seq
World == [streams |-> streamOf, newest |-> Newest, number |-> Number]

New(b, w) == b.kind = "frame" /\ w.streams[b.id] = w.newest
Old(b, w) == b.kind = "frame" /\ w.streams[b.id] # w.newest
Has(ring, kind) == \E i \in 1 .. Len(ring) : ring[i].kind = kind
NoOld(ring, w) == \A i \in 1 .. Len(ring) : ~Old(ring[i], w)
NoNew(ring, w) == \A i \in 1 .. Len(ring) : ~New(ring[i], w)

\* There are frames of two streams at most, with numbers below and above the
\* marker's.
InWorld(b, w) == b.kind = "frame" =>
  /\ b.id \in DOMAIN w.streams
  /\ w.streams[b.id] <= w.newest /\ w.newest <= w.streams[b.id] + 1
TwoStreams(ring, w) == \A i \in 1 .. Len(ring) : InWorld(ring[i], w)
Beside(b, w) == /\ Old(b, w) => b.seq < w.number
                /\ New(b, w) => b.seq > w.number
Around(ring, w) == \A i \in 1 .. Len(ring) : Beside(ring[i], w)
Below(ring, next) == \A i \in 1 .. Len(ring) :
                       ring[i].kind \in {"frame", "marker"} => ring[i].seq < next

\* One marker, between the streams; and one call, ahead of the new one.
TheMarker(w) == Buffer("marker", w.newest, w.number)
OneMarker(ring, w) == \A i \in 1 .. Len(ring) : ring[i].kind = "marker" =>
  /\ ring[i] = TheMarker(w)
  /\ \A j \in 1 .. Len(ring) :
       /\ ring[j].kind = "marker" => i = j
       /\ j < i => ~New(ring[j], w)
       /\ i < j => ~Old(ring[j], w)
OneCall(ring, call, w) ==
  \A i \in 1 .. Len(ring) : ring[i].kind = call.kind =>
    /\ ring[i] = call
    /\ \A j \in 1 .. Len(ring) :
         /\ ring[j].kind = call.kind => i = j
         /\ j < i => ~New(ring[j], w)
TheCall(kind, w) ==
  Buffer(kind, w.newest, w.number + (IF kind = "complete" THEN 1 ELSE 0))

\* CollatedFrameRing: room ahead of the marker for what is ahead of it, and
\* only what is new behind the call.  ManifestedBufferRing: the streams in
\* their order, and markers only of this switch and those before it.
Spaced(ring, next, w) ==
  \A i \in 1 .. Len(ring) :
    ring[i].kind = "marker" => next + i <= w.number + 1
ParserLast(ring, w) ==
  \A i, j \in 1 .. Len(ring) : i < j /\ ring[i].kind = "parser" =>
    ~Old(ring[j], w) /\ ring[j].kind # "marker"
InTurn(ring, w) == \A i, j \in 1 .. Len(ring) :
                     i < j /\ New(ring[i], w) => ~Old(ring[j], w)
MarkersUpTo(ring, w) == \A i \in 1 .. Len(ring) :
                          ring[i].kind = "marker" => ring[i].seq <= w.number

\* The contents of CollatedFrameRing, of the line from there to the manifestor,
\* and of what the manifestor holds and gives back.
Collated(ring, next, w) ==
  /\ TwoStreams(ring, w) /\ OneMarker(ring, w) /\ Spaced(ring, next, w)
  /\ OneCall(ring, TheCall("parser", w), w) /\ ParserLast(ring, w)
Line(ring, kind, next, w) ==
  /\ TwoStreams(ring, w) /\ Around(ring, w) /\ Below(ring, next)
  /\ OneMarker(ring, w) /\ OneCall(ring, TheCall(kind, w), w)
OnScreen(ring, next, w) ==
  /\ TwoStreams(ring, w) /\ Around(ring, w) /\ Below(ring, next)
  /\ MarkersUpTo(ring, w) /\ OneCall(ring, TheCall("complete", w), w)
  /\ InTurn(ring, w)

Contents ==
  /\ Collated(CollatedFrameRing, NextBufferSequenceNumber, World)
  /\ Line(ParsedFrameRing, "codec", NextBufferSequenceNumber, World)
  /\ Line(codec.decoding, "codec", NextBufferSequenceNumber, World)
  /\ Line(DecodedFrameRing, "timer", NextBufferSequenceNumber, World)
  /\ OnScreen(shown, NextBufferSequenceNumber, World)
  /\ OnScreen(ManifestedBufferRing, NextBufferSequenceNumber, World)

\* The frames of the last stream were collected after SwitchStream returned.
Streams ==
  \A f \in 1 .. frames :
    streamOf[f] <= IF switcher = "idle" \/ Preparing THEN Newest
                   ELSE drain - 1

-----------------------------------------------------------------------------
(* The marker: where it is, and what it has left behind.                   *)

InC == Has(CollatedFrameRing, "marker")
InP == Has(ParsedFrameRing, "marker")
InQ == codec.input \in {"flag", "at", "hold"}
InK == codec.Marker # NoBuffer
InD == Has(DecodedFrameRing, "marker")

Marker ==
  /\ Underway \/ ~(InC \/ InP \/ InQ \/ InK \/ InD)
  /\ InC => ~(InP \/ InQ \/ InK \/ InD)
  /\ InP => ~(InQ \/ InK \/ InD)
  /\ InQ => ~(InK \/ InD)
  /\ InK => ~InD
  /\ codec.Marker \in {NoBuffer, TheMarker(World)}
  /\ busy["PtoD"] \in {NoBuffer, TheMarker(World)}
  /\ MarkerInCodedFrameIndex = IF InC THEN Newest ELSE INVALID
  /\ ~InC => NoOld(CollatedFrameRing, World)
  /\ ~(InC \/ InP) => NoOld(ParsedFrameRing, World)
  /\ ~(InC \/ InP \/ InQ \/ InK) => NoOld(codec.decoding, World)
  /\ ~(InC \/ InP \/ InQ \/ InK \/ InD) => NoOld(DecodedFrameRing, World)

\* The number of the marker, and how far the processes have got.
Numbers ==
  /\ passed["CtoP"] + 1 = NextBufferSequenceNumber
  /\ passed["PtoD"] < NextBufferSequenceNumber
  /\ seen["DtoM"] < NextBufferSequenceNumber
  /\ seen["PostM"] < NextBufferSequenceNumber
  /\ Number < NextBufferSequenceNumber <=> ~InC
  /\ \A d \in 1 .. Newest - 1 : /\ drains[d].seq < NextBufferSequenceNumber
                                /\ drains[d].seq < Number
  /\ drainer.at = "launch" =>
       NextBufferSequenceNumber + Len(CollatedFrameRing) <= drains[drain].seq
  /\ passed["PtoD"] < Number <=> InC \/ InP \/ busy["PtoD"] # NoBuffer
  /\ seen["DtoM"] < Number <=> InC \/ InP \/ InQ \/ InK \/ InD
  /\ Underway => seen["PostM"] <= Number

\* The drains find room for their numbers ahead of the ring's size.
Room == Len(CollatedFrameRing) + (IF drainer.at = "flush" THEN 1 ELSE 0)
          <= frames + drain + (IF InC THEN 1 ELSE 0)
               + (IF Has(CollatedFrameRing, "parser") THEN 1 ELSE 0)

\* The codec's counts: the marker leaves it behind all that was sent to it.
Uncounted == IF codec.callback = "count" THEN 1 ELSE 0
Counts ==
  /\ codec.Prepared = codec.Completed + Len(codec.decoding) + Uncounted
  /\ codec.input = "idle" <=> busy["PtoD"] = NoBuffer
  /\ codec.input # "idle" => ~(InC \/ InP)
  /\ codec.input \in {"hold", "test", "take"} \/ InK =>
       codec.PassOnAt = codec.Prepared
  /\ codec.input = "take" \/ codec.callback = "take" =>
       /\ ~(InC \/ InP \/ InQ)
       /\ codec.Completed >= codec.Prepared
       /\ Underway /\ Stream.Codec # Newest

-----------------------------------------------------------------------------
(* The calls.                                                              *)

ParserCall ==
  /\ calls["CtoP"] = {}
  /\ Has(CollatedFrameRing, "parser") =>
       /\ Sent("CtoP") /\ Stream.FrameParser # Newest
       /\ "CtoP" \notin performing
  /\ "CtoP" \in performing =>
       Sent("CtoP") /\ Stream.FrameParser # Newest /\ ~InC
  /\ Stream.FrameParser = Newest => Out /\ (Underway => Sent("CtoP"))
  /\ Stream.FrameParser # Newest =>
       /\ Stream.FrameParser + 1 = Newest
       /\ Underway
       /\ NoNew(ParsedFrameRing, World) /\ NoNew(codec.decoding, World)
       /\ NoNew(DecodedFrameRing, World) /\ NoNew(shown, World)
       /\ NoNew(ManifestedBufferRing, World)
       /\ \/ ~Sent("CtoP") /\ NoNew(CollatedFrameRing, World)
          \/ Has(CollatedFrameRing, "parser") \/ "CtoP" \in performing

CodecCall ==
  /\ calls["PtoD"] \subseteq {TheCall("codec", World)}
  /\ Has(ParsedFrameRing, "codec") =>
       /\ Sent("PtoD") /\ Stream.Codec # Newest
       /\ calls["PtoD"] = {} /\ performing \cap {"PtoD", "halted"} = {}
  /\ calls["PtoD"] # {} =>
       /\ Sent("PtoD") /\ Stream.Codec # Newest
       /\ passed["PtoD"] < Number /\ performing \cap {"PtoD", "halted"} = {}
  /\ "PtoD" \in performing =>
       /\ Sent("PtoD") /\ Stream.Codec # Newest
       /\ passed["PtoD"] >= Number /\ "halted" \notin performing
  /\ "halted" \in performing =>
       /\ Sent("PtoD") /\ Stream.Codec # Newest /\ Out
       /\ codec.decoding = <<>> /\ codec.callback # "count"
       /\ passed["PtoD"] >= Number
  /\ Stream.Codec = Newest =>
       Out /\ passed["PtoD"] >= Number /\ (Underway => Sent("PtoD"))
  /\ Stream.Codec # Newest =>
       /\ Stream.Codec + 1 = Newest /\ Underway
       /\ NoNew(codec.decoding, World) /\ NoNew(DecodedFrameRing, World)
       /\ NoNew(shown, World) /\ NoNew(ManifestedBufferRing, World)
       /\ \/ ~Sent("PtoD") /\ NoNew(ParsedFrameRing, World)
          \/ Has(ParsedFrameRing, "codec") \/ calls["PtoD"] # {}
          \/ performing \cap {"PtoD", "halted"} # {}
  /\ CodecReset <=>
       Underway /\ ("halted" \in performing \/ Stream.Codec = Newest)

TimerCall ==
  /\ calls["DtoM"] \subseteq {TheCall("timer", World)}
  /\ Has(DecodedFrameRing, "timer") =>
       Sent("DtoM") /\ ~Out /\ calls["DtoM"] = {}
  /\ calls["DtoM"] # {} => Sent("DtoM") /\ ~Out /\ seen["DtoM"] < Number
  /\ Out => (Underway => Sent("DtoM")) /\ seen["DtoM"] >= Number
  /\ ~Out => ~Sent("DtoM") \/ Has(DecodedFrameRing, "timer")
               \/ calls["DtoM"] # {}

CompleteCall ==
  /\ calls["PostM"] \subseteq {TheCall("complete", World)}
  /\ Has(ManifestedBufferRing, "complete") =>
       Sent("PostM") /\ calls["PostM"] = {}
  /\ calls["PostM"] # {} => Sent("PostM")
  /\ Sent("PostM") => Has(ManifestedBufferRing, "complete")
                        \/ calls["PostM"] # {}

\* The manifestor keeps the order of the streams; when a switch is complete
\* nothing is left of the old one.
Screen ==
  /\ NoNew(ManifestedBufferRing, World) \/ NoOld(shown, World)
  /\ ~Underway => /\ NoOld(shown, World) /\ NoOld(ManifestedBufferRing, World)
                  /\ performing = {}

SwitchIInv ==
  /\ SwitchTypes /\ Thread /\ Contents /\ Streams /\ Marker /\ Numbers
  /\ Room /\ Counts
  /\ ParserCall /\ CodecCall /\ TimerCall /\ CompleteCall /\ Screen

\* No drain begins while a marker is between clearing the flag of PtoD and
\* being tested against it.
Cleared ==
  /\ Discarding \in [Stages -> BOOLEAN]
  /\ codec.input = "flag" => ~Discarding["PtoD"]

-----------------------------------------------------------------------------
(* What is said of a ring when a buffer leaves or enters it.               *)

LEMMA TailIs ==
  ASSUME NEW K, NEW r \in Seq(Of(K)), r # <<>>
  PROVE  /\ Tail(r) \in Seq(Of(K)) /\ Head(r) \in Of(K) /\ Head(r) = r[1]
         /\ Len(r) \in Nat \ {0} /\ Len(Tail(r)) = Len(r) - 1
         /\ \A i \in 1 .. Len(r) : r[i] \in Of(K)
         /\ \A i \in 1 .. Len(Tail(r)) : Tail(r)[i] = r[i + 1]
         /\ \A i \in 2 .. Len(r) : r[i] = Tail(r)[i - 1]
  <1>1. /\ Tail(r) \in Seq(Of(K)) /\ Head(r) \in Of(K) /\ Head(r) = r[1]
        /\ Len(r) \in Nat \ {0} /\ Len(Tail(r)) = Len(r) - 1
        /\ \A i \in 1 .. Len(Tail(r)) : Tail(r)[i] = r[i + 1]
    BY HeadTailProperties, LenProperties, EmptySeq
  <1>2. \A i \in 1 .. Len(r) : r[i] \in Of(K)
    BY ElementOfSeq
  <1>3. ASSUME NEW i \in 2 .. Len(r) PROVE r[i] = Tail(r)[i - 1]
    <2>1. i - 1 \in 1 .. Len(Tail(r)) /\ (i - 1) + 1 = i
      BY <1>1
    <2> QED BY <2>1, <1>1
  <1> QED BY <1>1, <1>2, <1>3

LEMMA AppendIs ==
  ASSUME NEW K, NEW r \in Seq(Of(K)), NEW b \in Of(K)
  PROVE  /\ Append(r, b) \in Seq(Of(K)) /\ Append(r, b) # <<>>
         /\ Len(r) \in Nat /\ Len(Append(r, b)) = Len(r) + 1
         /\ \A i \in 1 .. Len(r) : r[i] \in Of(K)
         /\ \A i \in 1 .. Len(r) : Append(r, b)[i] = r[i]
         /\ Append(r, b)[Len(r) + 1] = b
  <1>1. \A i \in 1 .. Len(r) : r[i] \in Of(K)
    BY ElementOfSeq
  <1> QED BY <1>1, AppendProperties, LenProperties

LEMMA EmptyRing ==
  ASSUME NEW w, NEW call, NEW next, NEW kind
  PROVE  /\ ~Has(<<>>, kind) /\ NoOld(<<>>, w) /\ NoNew(<<>>, w)
         /\ TwoStreams(<<>>, w) /\ Around(<<>>, w) /\ Below(<<>>, next)
         /\ OneMarker(<<>>, w) /\ OneCall(<<>>, call, w)
         /\ Spaced(<<>>, next, w) /\ ParserLast(<<>>, w)
         /\ InTurn(<<>>, w) /\ MarkersUpTo(<<>>, w)
  <1>1. Len(<<>>) = 0 /\ \A i : ~(i \in 1 .. 0)
    BY EmptySeq
  <1> QED BY <1>1 DEF Has, NoOld, NoNew, TwoStreams, Around, Below, OneMarker,
            OneCall, Spaced, ParserLast, InTurn, MarkersUpTo

\* What holds of a ring holds of it without its head.
LEMMA TailKeeps ==
  ASSUME NEW K, NEW r \in Seq(Of(K)), r # <<>>, NEW w
  PROVE  /\ NoOld(r, w) => NoOld(Tail(r), w)
         /\ NoNew(r, w) => NoNew(Tail(r), w)
         /\ TwoStreams(r, w) => TwoStreams(Tail(r), w)
         /\ Around(r, w) => Around(Tail(r), w)
         /\ OneMarker(r, w) => OneMarker(Tail(r), w)
         /\ ParserLast(r, w) => ParserLast(Tail(r), w)
         /\ InTurn(r, w) => InTurn(Tail(r), w)
         /\ MarkersUpTo(r, w) => MarkersUpTo(Tail(r), w)
         /\ \A next : Below(r, next) => Below(Tail(r), next)
         /\ \A call : OneCall(r, call, w) => OneCall(Tail(r), call, w)
         /\ \A kind : Has(r, kind) <=>
              Head(r).kind = kind \/ Has(Tail(r), kind)
  <1>1. /\ Len(r) \in Nat \ {0} /\ Len(Tail(r)) = Len(r) - 1 /\ Head(r) = r[1]
        /\ \A i \in 1 .. Len(Tail(r)) :
             i + 1 \in 1 .. Len(r) /\ Tail(r)[i] = r[i + 1]
        /\ \A i \in 2 .. Len(r) :
             i - 1 \in 1 .. Len(Tail(r)) /\ r[i] = Tail(r)[i - 1]
    BY TailIs
  <1> DEFINE t == Tail(r)
  <1> HIDE DEF t
  <1>2. /\ Len(r) \in Nat \ {0} /\ Len(t) = Len(r) - 1
        /\ \A i \in 1 .. Len(t) : i + 1 \in 1 .. Len(r) /\ t[i] = r[i + 1]
        /\ \A i, j \in 1 .. Len(t) :
             (i < j <=> i + 1 < j + 1) /\ (i = j <=> i + 1 = j + 1)
    BY <1>1 DEF t
  <1>3. /\ NoOld(r, w) => NoOld(t, w)
        /\ NoNew(r, w) => NoNew(t, w)
        /\ TwoStreams(r, w) => TwoStreams(t, w)
        /\ Around(r, w) => Around(t, w)
        /\ MarkersUpTo(r, w) => MarkersUpTo(t, w)
    BY <1>2 DEF NoOld, NoNew, TwoStreams, Around, MarkersUpTo
  <1>4. /\ ParserLast(r, w) => ParserLast(t, w)
        /\ InTurn(r, w) => InTurn(t, w)
    <2>1. ASSUME ParserLast(r, w), NEW i \in 1 .. Len(t), NEW j \in 1 .. Len(t),
                 i < j, t[i].kind = "parser"
          PROVE  ~Old(t[j], w) /\ t[j].kind # "marker"
      <3>1. /\ i + 1 \in 1 .. Len(r) /\ j + 1 \in 1 .. Len(r) /\ i + 1 < j + 1
            /\ t[i] = r[i + 1] /\ t[j] = r[j + 1]
        BY <1>2, <2>1
      <3> HIDE DEF t
      <3>2. r[i + 1].kind = "parser"
        BY <3>1, <2>1
      <3> QED BY <3>1, <3>2, <2>1 DEF ParserLast
    <2>2. ASSUME InTurn(r, w), NEW i \in 1 .. Len(t), NEW j \in 1 .. Len(t),
                 i < j, New(t[i], w)
          PROVE  ~Old(t[j], w)
      BY <1>2, <2>2 DEF InTurn
    <2> QED BY <2>1, <2>2 DEF ParserLast, InTurn
  <1>5. OneMarker(r, w) => OneMarker(t, w)
    <2> SUFFICES ASSUME OneMarker(r, w), NEW i \in 1 .. Len(t),
                        t[i].kind = "marker"
                 PROVE  /\ t[i] = TheMarker(w)
                        /\ \A j \in 1 .. Len(t) :
                             /\ t[j].kind = "marker" => i = j
                             /\ j < i => ~New(t[j], w)
                             /\ i < j => ~Old(t[j], w)
      BY DEF OneMarker
    <2>1. i + 1 \in 1 .. Len(r) /\ r[i + 1].kind = "marker"
      BY <1>2
    <2>2. /\ r[i + 1] = TheMarker(w)
          /\ \A j \in 1 .. Len(r) :
               /\ r[j].kind = "marker" => i + 1 = j
               /\ j < i + 1 => ~New(r[j], w)
               /\ i + 1 < j => ~Old(r[j], w)
      BY <2>1 DEF OneMarker
    <2>3. ASSUME NEW j \in 1 .. Len(t)
          PROVE  /\ t[j].kind = "marker" => i = j
                 /\ j < i => ~New(t[j], w)
                 /\ i < j => ~Old(t[j], w)
      <3>1. /\ j + 1 \in 1 .. Len(r) /\ t[j] = r[j + 1]
            /\ (j < i <=> j + 1 < i + 1) /\ (i = j <=> i + 1 = j + 1)
            /\ (i < j <=> i + 1 < j + 1)
        BY <1>2
      <3> QED BY <3>1, <2>2
    <2> QED BY <2>2, <2>3, <1>2
  <1>6. ASSUME NEW next, Below(r, next) PROVE Below(t, next)
    BY <1>2, <1>6 DEF Below
  <1>7. ASSUME NEW call, OneCall(r, call, w) PROVE OneCall(t, call, w)
    <2> SUFFICES ASSUME NEW i \in 1 .. Len(t), t[i].kind = call.kind
                 PROVE  /\ t[i] = call
                        /\ \A j \in 1 .. Len(t) :
                             /\ t[j].kind = call.kind => i = j
                             /\ j < i => ~New(t[j], w)
      BY DEF OneCall
    <2>1. i + 1 \in 1 .. Len(r) /\ r[i + 1].kind = call.kind
      BY <1>2
    <2>2. /\ r[i + 1] = call
          /\ \A j \in 1 .. Len(r) :
               /\ r[j].kind = call.kind => i + 1 = j
               /\ j < i + 1 => ~New(r[j], w)
      BY <2>1, <1>7 DEF OneCall
    <2>3. ASSUME NEW j \in 1 .. Len(t)
          PROVE  (t[j].kind = call.kind => i = j) /\ (j < i => ~New(t[j], w))
      <3>1. /\ j + 1 \in 1 .. Len(r) /\ t[j] = r[j + 1]
            /\ (j < i <=> j + 1 < i + 1) /\ (i = j <=> i + 1 = j + 1)
        BY <1>2
      <3> QED BY <3>1, <2>2
    <2> QED BY <2>2, <2>3, <1>2
  <1>8. ASSUME NEW kind
        PROVE  Has(r, kind) <=> Head(r).kind = kind \/ Has(t, kind)
    <2>1. ASSUME Has(r, kind), Head(r).kind # kind PROVE Has(t, kind)
      <3>1. PICK i \in 1 .. Len(r) : r[i].kind = kind
        BY <2>1 DEF Has
      <3>2. i \in 2 .. Len(r)
        BY <3>1, <2>1, <1>1
      <3> QED BY <3>1, <3>2, <1>1 DEF Has, t
    <2>2. ASSUME Has(t, kind) PROVE Has(r, kind)
      BY <2>2, <1>2 DEF Has
    <2>3. ASSUME Head(r).kind = kind PROVE Has(r, kind)
      BY <2>3, <1>1 DEF Has
    <2> QED BY <2>1, <2>2, <2>3
  <1> QED BY <1>3, <1>4, <1>5, <1>6, <1>7, <1>8 DEF t

\* What the head of a ring tells of the rest.
LEMMA HeadTells ==
  ASSUME NEW K, NEW r \in Seq(Of(K)), r # <<>>, NEW w
  PROVE  /\ NoOld(r, w) => ~Old(Head(r), w)
         /\ NoNew(r, w) => ~New(Head(r), w)
         /\ TwoStreams(r, w) => InWorld(Head(r), w)
         /\ Around(r, w) => Beside(Head(r), w)
         /\ \A next : Below(r, next) /\ Head(r).kind \in {"frame", "marker"}
              => Head(r).seq < next
         /\ MarkersUpTo(r, w) /\ Head(r).kind = "marker"
              => Head(r).seq <= w.number
         /\ OneMarker(r, w) /\ Head(r).kind = "marker" =>
              /\ Head(r) = TheMarker(w)
              /\ ~Has(Tail(r), "marker") /\ NoOld(Tail(r), w)
         /\ OneMarker(r, w) /\ Has(Tail(r), "marker") => ~New(Head(r), w)
         /\ InTurn(r, w) /\ New(Head(r), w) => NoOld(Tail(r), w)
         /\ ParserLast(r, w) /\ Head(r).kind = "parser" =>
              NoOld(Tail(r), w) /\ ~Has(Tail(r), "marker")
         /\ \A call : OneCall(r, call, w) =>
              /\ Head(r).kind = call.kind =>
                   Head(r) = call /\ ~Has(Tail(r), call.kind)
              /\ Has(Tail(r), call.kind) => ~New(Head(r), w)
  <1> DEFINE t == Tail(r)
  <1>1. /\ Len(r) \in Nat \ {0} /\ Len(t) = Len(r) - 1 /\ Head(r) = r[1]
        /\ 1 \in 1 .. Len(r)
        /\ \A i \in 1 .. Len(t) :
             i + 1 \in 1 .. Len(r) /\ 1 < i + 1 /\ i + 1 # 1
               /\ t[i] = r[i + 1]
    BY TailIs
  <1> HIDE DEF t
  <1>2. /\ NoOld(r, w) => ~Old(Head(r), w)
        /\ NoNew(r, w) => ~New(Head(r), w)
        /\ TwoStreams(r, w) => InWorld(Head(r), w)
        /\ Around(r, w) => Beside(Head(r), w)
        /\ \A next : Below(r, next) /\ Head(r).kind \in {"frame", "marker"}
             => Head(r).seq < next
        /\ MarkersUpTo(r, w) /\ Head(r).kind = "marker"
             => Head(r).seq <= w.number
    BY <1>1 DEF NoOld, NoNew, TwoStreams, Around, Below, MarkersUpTo
  <1>3. OneMarker(r, w) /\ Head(r).kind = "marker" =>
          Head(r) = TheMarker(w) /\ ~Has(t, "marker") /\ NoOld(t, w)
    <2> SUFFICES ASSUME OneMarker(r, w), r[1].kind = "marker"
                 PROVE  r[1] = TheMarker(w) /\ ~Has(t, "marker") /\ NoOld(t, w)
      BY <1>1
    <2>1. /\ r[1] = TheMarker(w)
          /\ \A j \in 1 .. Len(r) : /\ r[j].kind = "marker" => 1 = j
                                    /\ 1 < j => ~Old(r[j], w)
      BY <1>1 DEF OneMarker
    <2> QED BY <2>1, <1>1 DEF Has, NoOld
  <1>4. OneMarker(r, w) /\ Has(t, "marker") => ~New(Head(r), w)
    BY <1>1 DEF OneMarker, Has
  <1>5. InTurn(r, w) /\ New(Head(r), w) => NoOld(t, w)
    BY <1>1 DEF InTurn, NoOld
  <1>6. ParserLast(r, w) /\ Head(r).kind = "parser" =>
          NoOld(t, w) /\ ~Has(t, "marker")
    BY <1>1 DEF ParserLast, NoOld, Has
  <1>7. ASSUME NEW call, OneCall(r, call, w)
        PROVE  /\ Head(r).kind = call.kind =>
                    Head(r) = call /\ ~Has(t, call.kind)
               /\ Has(t, call.kind) => ~New(Head(r), w)
    BY <1>1, <1>7 DEF OneCall, Has
  <1> QED BY <1>2, <1>3, <1>4, <1>5, <1>6, <1>7 DEF t

\* What holds of a ring and of a buffer that enters it.
LEMMA AppendKeeps ==
  ASSUME NEW K, NEW r \in Seq(Of(K)), NEW b \in Of(K), NEW w
  PROVE  /\ NoOld(Append(r, b), w) <=> NoOld(r, w) /\ ~Old(b, w)
         /\ NoNew(Append(r, b), w) <=> NoNew(r, w) /\ ~New(b, w)
         /\ TwoStreams(r, w) /\ InWorld(b, w) => TwoStreams(Append(r, b), w)
         /\ Around(r, w) /\ Beside(b, w) => Around(Append(r, b), w)
         /\ \A next : Below(r, next)
              /\ (b.kind \in {"frame", "marker"} => b.seq < next)
              => Below(Append(r, b), next)
         /\ MarkersUpTo(r, w) /\ (b.kind = "marker" => b.seq <= w.number)
              => MarkersUpTo(Append(r, b), w)
         /\ \A kind : Has(Append(r, b), kind) <=>
              Has(r, kind) \/ b.kind = kind
  <1> DEFINE t == Append(r, b)
  <1>1. /\ Len(r) \in Nat /\ Len(t) = Len(r) + 1
        /\ \A i \in 1 .. Len(r) : i \in 1 .. Len(t) /\ t[i] = r[i]
        /\ Len(t) \in 1 .. Len(t) /\ t[Len(t)] = b
        /\ \A i \in 1 .. Len(t) : i = Len(t) \/ i \in 1 .. Len(r)
    BY AppendIs
  <1> HIDE DEF t
  <1>2. NoOld(t, w) <=> NoOld(r, w) /\ ~Old(b, w)
    BY <1>1 DEF NoOld
  <1>3. NoNew(t, w) <=> NoNew(r, w) /\ ~New(b, w)
    BY <1>1 DEF NoNew
  <1>4. /\ TwoStreams(r, w) /\ InWorld(b, w) => TwoStreams(t, w)
        /\ Around(r, w) /\ Beside(b, w) => Around(t, w)
    BY <1>1 DEF TwoStreams, Around
  <1>5. /\ \A next : Below(r, next)
             /\ (b.kind \in {"frame", "marker"} => b.seq < next)
             => Below(t, next)
        /\ MarkersUpTo(r, w) /\ (b.kind = "marker" => b.seq <= w.number)
             => MarkersUpTo(t, w)
    BY <1>1 DEF Below, MarkersUpTo
  <1>6. \A kind : Has(t, kind) <=> Has(r, kind) \/ b.kind = kind
    BY <1>1 DEF Has
  <1> QED BY <1>2, <1>3, <1>4, <1>5, <1>6 DEF t

\* The order in a ring, when a buffer enters it.
LEMMA AppendOrders ==
  ASSUME NEW K, NEW r \in Seq(Of(K)), NEW b \in Of(K), NEW w,
         w.number \in Nat
  PROVE  /\ /\ OneMarker(r, w) /\ b.kind # "marker"
            /\ Has(r, "marker") => ~Old(b, w)
            => OneMarker(Append(r, b), w)
         /\ b = TheMarker(w) /\ ~Has(r, "marker") /\ NoNew(r, w)
              => OneMarker(Append(r, b), w)
         /\ \A call : OneCall(r, call, w) /\ b.kind # call.kind
              => OneCall(Append(r, b), call, w)
         /\ \A call : b = call /\ ~Has(r, call.kind) /\ NoNew(r, w)
              => OneCall(Append(r, b), call, w)
         /\ /\ ParserLast(r, w)
            /\ Has(r, "parser") => ~Old(b, w) /\ b.kind # "marker"
            => ParserLast(Append(r, b), w)
         /\ InTurn(r, w) /\ (NoNew(r, w) \/ ~Old(b, w))
              => InTurn(Append(r, b), w)
         /\ \A next \in Nat : Spaced(r, next, w)
              /\ (b.kind = "marker" => next + Len(r) <= w.number)
              => Spaced(Append(r, b), next, w)
  <1> DEFINE t == Append(r, b)
  <1>1. /\ Len(r) \in Nat /\ Len(t) = Len(r) + 1
        /\ \A i \in 1 .. Len(r) : i \in 1 .. Len(t) /\ t[i] = r[i]
        /\ \A i \in 1 .. Len(r) : i < Len(t) /\ i # Len(t)
        /\ Len(t) \in 1 .. Len(t) /\ t[Len(t)] = b
        /\ \A i \in 1 .. Len(t) : i = Len(t) \/ i \in 1 .. Len(r)
        /\ \A i \in 1 .. Len(t) : ~(Len(t) < i)
    BY AppendIs
  <1> HIDE DEF t
  <1>2. ASSUME OneMarker(r, w), b.kind # "marker", Has(r, "marker") => ~Old(b, w)
        PROVE  OneMarker(t, w)
    BY <1>1, <1>2 DEF OneMarker, Has
  <1>3. ASSUME b = TheMarker(w), ~Has(r, "marker"), NoNew(r, w)
        PROVE  OneMarker(t, w)
    BY <1>1, <1>3 DEF OneMarker, Has, NoNew
  <1>4. ASSUME NEW call, OneCall(r, call, w), b.kind # call.kind
        PROVE  OneCall(t, call, w)
    BY <1>1, <1>4 DEF OneCall
  <1>5. ASSUME NEW call, b = call, ~Has(r, call.kind), NoNew(r, w)
        PROVE  OneCall(t, call, w)
    BY <1>1, <1>5 DEF OneCall, Has, NoNew
  <1>6. ASSUME ParserLast(r, w),
               Has(r, "parser") => ~Old(b, w) /\ b.kind # "marker"
        PROVE  ParserLast(t, w)
    BY <1>1, <1>6 DEF ParserLast, Has
  <1>7. ASSUME InTurn(r, w), NoNew(r, w) \/ ~Old(b, w)
        PROVE  InTurn(t, w)
    BY <1>1, <1>7 DEF InTurn, NoNew
  <1>8. ASSUME NEW next \in Nat, Spaced(r, next, w),
               b.kind = "marker" => next + Len(r) <= w.number
        PROVE  Spaced(t, next, w)
    <2> SUFFICES ASSUME NEW i \in 1 .. Len(t), t[i].kind = "marker"
                 PROVE  next + i <= w.number + 1
      BY DEF Spaced
    <2>1. CASE i \in 1 .. Len(r)
      BY <2>1, <1>1, <1>8 DEF Spaced
    <2>2. CASE i = Len(t)
      BY <2>2, <1>1, <1>8
    <2> QED BY <2>1, <2>2, <1>1
  <1> QED BY <1>2, <1>3, <1>4, <1>5, <1>6, <1>7, <1>8 DEF t

\* A ring without a marker, or a call, has nothing of what is said of them.
LEMMA Lacking ==
  ASSUME NEW r, NEW w
  PROVE  /\ ~Has(r, "marker") => OneMarker(r, w) /\ MarkersUpTo(r, w)
         /\ ~Has(r, "marker") => \A next : Spaced(r, next, w)
         /\ ~Has(r, "parser") => ParserLast(r, w)
         /\ \A call : ~Has(r, call.kind) => OneCall(r, call, w)
         /\ NoOld(r, w) \/ NoNew(r, w) => InTurn(r, w)
  BY DEF Has, OneMarker, MarkersUpTo, Spaced, ParserLast, OneCall, NoOld,
         NoNew, InTurn

\* The numbers that are left for what is ahead of the marker.
LEMMA SpacedTail ==
  ASSUME NEW K, NEW r \in Seq(Of(K)), r # <<>>, NEW w, w.number \in Nat,
         NEW next \in Nat, Spaced(r, next, w)
  PROVE  /\ Spaced(Tail(r), next + 1, w)
         /\ Has(r, "marker") => next <= w.number
         /\ Has(Tail(r), "marker") => next < w.number
  <1>1. /\ Len(r) \in Nat \ {0} /\ Len(Tail(r)) = Len(r) - 1
        /\ \A i \in 1 .. Len(Tail(r)) :
             i + 1 \in 1 .. Len(r) /\ Tail(r)[i] = r[i + 1]
    BY TailIs
  <1> DEFINE t == Tail(r)
  <1> HIDE DEF t
  <1>2. ASSUME NEW i \in 1 .. Len(t), t[i].kind = "marker"
        PROVE  (next + 1) + i <= w.number + 1
    <2>1. i + 1 \in 1 .. Len(r) /\ r[i + 1].kind = "marker" /\ i \in Nat
      BY <1>1, <1>2 DEF t
    <2>2. next + (i + 1) <= w.number + 1
      BY <2>1 DEF Spaced
    <2> QED BY <2>1, <2>2
  <1>3. Spaced(t, next + 1, w)
    BY <1>2 DEF Spaced
  <1>4. ASSUME Has(r, "marker") PROVE next <= w.number
    <2>1. PICK i \in 1 .. Len(r) : r[i].kind = "marker"
      BY <1>4 DEF Has
    <2>2. next + i <= w.number + 1
      BY <2>1 DEF Spaced
    <2> QED BY <2>2, <1>1
  <1>5. ASSUME Has(t, "marker") PROVE next < w.number
    <2>1. PICK i \in 1 .. Len(t) : t[i].kind = "marker"
      BY <1>5 DEF Has
    <2>2. (next + 1) + i <= w.number + 1
      BY <2>1, <1>2
    <2> QED BY <2>2, <1>1 DEF t
  <1> QED BY <1>3, <1>4, <1>5 DEF t

LEMMA BelowMore ==
  ASSUME NEW K, NEW r \in Seq(Of(K)), NEW n \in Nat, NEW m \in Nat, n <= m,
         Below(r, n)
  PROVE  Below(r, m)
  <1>1. \A i \in 1 .. Len(r) : r[i].seq \in Nat
    <2>1. \A i \in 1 .. Len(r) : r[i] \in Of(K)
      BY ElementOfSeq
    <2> QED BY <2>1 DEF Of
  <1> QED BY <1>1 DEF Below

\* One ring behind the other, when nothing in them is of the old stream.
LEMMA JoinKeeps ==
  ASSUME NEW K, NEW r \in Seq(Of(K)), NEW s \in Seq(Of(K)), NEW w
  PROVE  /\ r \o s \in Seq(Of(K)) /\ Len(r \o s) = Len(r) + Len(s)
         /\ NoOld(r, w) /\ NoOld(s, w) => NoOld(r \o s, w)
         /\ TwoStreams(r, w) /\ TwoStreams(s, w) => TwoStreams(r \o s, w)
         /\ Around(r, w) /\ Around(s, w) => Around(r \o s, w)
         /\ MarkersUpTo(r, w) /\ MarkersUpTo(s, w) => MarkersUpTo(r \o s, w)
         /\ \A next : Below(r, next) /\ Below(s, next) => Below(r \o s, next)
         /\ \A kind : Has(r \o s, kind) => Has(r, kind) \/ Has(s, kind)
  <1> DEFINE u == r \o s
  <1>1. /\ u \in Seq(Of(K)) /\ Len(u) = Len(r) + Len(s)
        /\ Len(r) \in Nat /\ Len(s) \in Nat
        /\ \A i \in 1 .. Len(r) : u[i] = r[i]
        /\ \A i \in Len(r) + 1 .. Len(r) + Len(s) : u[i] = s[i - Len(r)]
    BY ConcatProperties, LenProperties
  <1> HIDE DEF u
  <1>2. ASSUME NEW i \in 1 .. Len(u)
        PROVE  \/ i \in 1 .. Len(r) /\ u[i] = r[i]
               \/ \E j \in 1 .. Len(s) : u[i] = s[j]
    <2>1. CASE i <= Len(r)
      BY <2>1, <1>1
    <2>2. CASE i > Len(r)
      <3>1. i - Len(r) \in 1 .. Len(s) /\ u[i] = s[i - Len(r)]
        BY <2>2, <1>1
      <3> QED BY <3>1
    <2> QED BY <2>1, <2>2, <1>1
  <1>3. /\ NoOld(r, w) /\ NoOld(s, w) => NoOld(u, w)
        /\ TwoStreams(r, w) /\ TwoStreams(s, w) => TwoStreams(u, w)
        /\ Around(r, w) /\ Around(s, w) => Around(u, w)
    BY <1>2 DEF NoOld, TwoStreams, Around
  <1>4. /\ MarkersUpTo(r, w) /\ MarkersUpTo(s, w) => MarkersUpTo(u, w)
        /\ \A next : Below(r, next) /\ Below(s, next) => Below(u, next)
        /\ \A kind : Has(u, kind) => Has(r, kind) \/ Has(s, kind)
    BY <1>2 DEF MarkersUpTo, Below, Has
  <1> QED BY <1>1, <1>3, <1>4 DEF u

-----------------------------------------------------------------------------
(* The three kinds of rings, step by step.  Flags are what is told of one  *)
(* ring to the others: whether it has a marker or a call, and frames of    *)
(* the old or of the new stream.                                           *)

FlagsOfTail(r, w) ==
  /\ NoOld(r, w) => NoOld(Tail(r), w) /\ ~Old(Head(r), w)
  /\ NoNew(r, w) => NoNew(Tail(r), w) /\ ~New(Head(r), w)
  /\ \A kind : Has(r, kind) <=> Head(r).kind = kind \/ Has(Tail(r), kind)
FlagsOfAppend(r, b, w) ==
  /\ NoOld(Append(r, b), w) <=> NoOld(r, w) /\ ~Old(b, w)
  /\ NoNew(Append(r, b), w) <=> NoNew(r, w) /\ ~New(b, w)
  /\ \A kind : Has(Append(r, b), kind) <=> Has(r, kind) \/ b.kind = kind

LEMMA Flags ==
  ASSUME NEW K, NEW r \in Seq(Of(K)), NEW w
  PROVE  /\ r # <<>> => FlagsOfTail(r, w)
         /\ \A b \in Of(K) : FlagsOfAppend(r, b, w)
  <1>1. r # <<>> => FlagsOfTail(r, w)
    BY TailKeeps, HeadTells DEF FlagsOfTail
  <1>2. ASSUME NEW b \in Of(K) PROVE FlagsOfAppend(r, b, w)
    BY AppendKeeps DEF FlagsOfAppend
  <1> QED BY <1>1, <1>2

LEMMA CollatedTail ==
  ASSUME NEW K, NEW r \in Seq(Of(K)), r # <<>>, NEW w, w.number \in Nat,
         NEW next \in Nat, Collated(r, next, w)
  PROVE  /\ Tail(r) \in Seq(Of(K)) /\ Head(r) \in Of(K)
         /\ Len(r) \in Nat /\ Len(Tail(r)) \in Nat
         /\ Len(r) = Len(Tail(r)) + 1
         /\ Collated(Tail(r), next + 1, w)
         /\ \A m : ~Has(Tail(r), "marker") => Collated(Tail(r), m, w)
         /\ InWorld(Head(r), w)
         /\ Has(r, "marker") => next <= w.number
         /\ Has(Tail(r), "marker") => next < w.number /\ ~New(Head(r), w)
         /\ Head(r).kind = "marker" =>
              /\ Head(r) = TheMarker(w)
              /\ ~Has(Tail(r), "marker") /\ NoOld(Tail(r), w)
         /\ Head(r).kind = "parser" =>
              /\ Head(r) = TheCall("parser", w)
              /\ ~Has(Tail(r), "parser") /\ ~Has(Tail(r), "marker")
              /\ NoOld(Tail(r), w)
         /\ Has(Tail(r), "parser") => ~New(Head(r), w)
  <1>1. TheCall("parser", w).kind = "parser"
    BY DEF TheCall, Buffer
  <1>2. /\ TwoStreams(r, w) /\ OneMarker(r, w) /\ Spaced(r, next, w)
        /\ OneCall(r, TheCall("parser", w), w) /\ ParserLast(r, w)
    BY DEF Collated
  <1>3. /\ Spaced(Tail(r), next + 1, w)
        /\ Has(r, "marker") => next <= w.number
        /\ Has(Tail(r), "marker") => next < w.number
    BY <1>2, SpacedTail
  <1>4. /\ TwoStreams(Tail(r), w) /\ OneMarker(Tail(r), w)
        /\ OneCall(Tail(r), TheCall("parser", w), w) /\ ParserLast(Tail(r), w)
    BY <1>2, TailKeeps
  <1>5. \A m : ~Has(Tail(r), "marker") => Spaced(Tail(r), m, w)
    BY Lacking
  <1>6. /\ InWorld(Head(r), w)
        /\ Has(Tail(r), "marker") => ~New(Head(r), w)
        /\ Head(r).kind = "marker" =>
             /\ Head(r) = TheMarker(w)
             /\ ~Has(Tail(r), "marker") /\ NoOld(Tail(r), w)
        /\ Head(r).kind = "parser" =>
             NoOld(Tail(r), w) /\ ~Has(Tail(r), "marker")
    BY <1>2, HeadTells
  <1>7. /\ Head(r).kind = "parser" =>
             Head(r) = TheCall("parser", w) /\ ~Has(Tail(r), "parser")
        /\ Has(Tail(r), "parser") => ~New(Head(r), w)
    BY <1>1, <1>2, HeadTells
  <1>0. /\ Tail(r) \in Seq(Of(K)) /\ Head(r) \in Of(K)
        /\ Len(r) \in Nat /\ Len(Tail(r)) \in Nat
        /\ Len(r) = Len(Tail(r)) + 1
    BY TailIs
  <1> QED BY <1>0, <1>3, <1>4, <1>5, <1>6, <1>7 DEF Collated

LEMMA CollatedAppend ==
  ASSUME NEW K, NEW r \in Seq(Of(K)), NEW b \in Of(K), NEW w,
         w.number \in Nat, NEW next \in Nat, Collated(r, next, w),
         InWorld(b, w), ~Old(b, w),
         b.kind = "marker" =>
           /\ b = TheMarker(w) /\ ~Has(r, "marker") /\ NoNew(r, w)
           /\ ~Has(r, "parser") /\ next + Len(r) <= w.number,
         b.kind = "parser" =>
           b = TheCall("parser", w) /\ ~Has(r, "parser") /\ NoNew(r, w)
  PROVE  /\ Append(r, b) \in Seq(Of(K)) /\ Len(Append(r, b)) = Len(r) + 1
         /\ Collated(Append(r, b), next, w)
  <1>1. TheCall("parser", w).kind = "parser"
    BY DEF TheCall, Buffer
  <1>2. /\ TwoStreams(r, w) /\ OneMarker(r, w) /\ Spaced(r, next, w)
        /\ OneCall(r, TheCall("parser", w), w) /\ ParserLast(r, w)
    BY DEF Collated
  <1>3. TwoStreams(Append(r, b), w)
    BY <1>2, AppendKeeps
  <1>4. OneMarker(Append(r, b), w) /\ Spaced(Append(r, b), next, w)
    BY <1>2, AppendOrders
  <1>5. ParserLast(Append(r, b), w)
    BY <1>2, AppendOrders
  <1>6. OneCall(Append(r, b), TheCall("parser", w), w)
    BY <1>1, <1>2, AppendOrders
  <1>0. Append(r, b) \in Seq(Of(K)) /\ Len(Append(r, b)) = Len(r) + 1
    BY AppendIs
  <1> QED BY <1>0, <1>3, <1>4, <1>5, <1>6 DEF Collated

LEMMA LineTail ==
  ASSUME NEW K, NEW r \in Seq(Of(K)), r # <<>>, NEW w, NEW kind, NEW next,
         Line(r, kind, next, w)
  PROVE  /\ Tail(r) \in Seq(Of(K)) /\ Head(r) \in Of(K)
         /\ Len(r) \in Nat /\ Len(Tail(r)) \in Nat
         /\ Len(r) = Len(Tail(r)) + 1
         /\ Line(Tail(r), kind, next, w)
         /\ InWorld(Head(r), w) /\ Beside(Head(r), w)
         /\ Head(r).kind \in {"frame", "marker"} => Head(r).seq < next
         /\ Has(Tail(r), "marker") => ~New(Head(r), w)
         /\ Head(r).kind = "marker" =>
              /\ Head(r) = TheMarker(w)
              /\ ~Has(Tail(r), "marker") /\ NoOld(Tail(r), w)
         /\ Head(r).kind = kind =>
              Head(r) = TheCall(kind, w) /\ ~Has(Tail(r), kind)
         /\ Has(Tail(r), kind) => ~New(Head(r), w)
  <1>1. TheCall(kind, w).kind = kind
    BY DEF TheCall, Buffer
  <1>2. /\ TwoStreams(r, w) /\ Around(r, w) /\ Below(r, next)
        /\ OneMarker(r, w) /\ OneCall(r, TheCall(kind, w), w)
    BY DEF Line
  <1>3. Line(Tail(r), kind, next, w)
    BY <1>2, TailKeeps DEF Line
  <1>4. /\ InWorld(Head(r), w) /\ Beside(Head(r), w)
        /\ Head(r).kind \in {"frame", "marker"} => Head(r).seq < next
        /\ Has(Tail(r), "marker") => ~New(Head(r), w)
        /\ Head(r).kind = "marker" =>
             /\ Head(r) = TheMarker(w)
             /\ ~Has(Tail(r), "marker") /\ NoOld(Tail(r), w)
    BY <1>2, HeadTells
  <1>5. /\ Head(r).kind = kind =>
             Head(r) = TheCall(kind, w) /\ ~Has(Tail(r), kind)
        /\ Has(Tail(r), kind) => ~New(Head(r), w)
    BY <1>1, <1>2, HeadTells
  <1>0. /\ Tail(r) \in Seq(Of(K)) /\ Head(r) \in Of(K)
        /\ Len(r) \in Nat /\ Len(Tail(r)) \in Nat
        /\ Len(r) = Len(Tail(r)) + 1
    BY TailIs
  <1> QED BY <1>0, <1>3, <1>4, <1>5

LEMMA LineAppend ==
  ASSUME NEW K, NEW r \in Seq(Of(K)), NEW b \in Of(K), NEW w, NEW kind,
         w.number \in Nat, NEW next, Line(r, kind, next, w),
         InWorld(b, w), Beside(b, w),
         b.kind \in {"frame", "marker"} => b.seq < next,
         Has(r, "marker") => ~Old(b, w),
         b.kind = "marker" =>
           b = TheMarker(w) /\ ~Has(r, "marker") /\ NoNew(r, w),
         b.kind = kind =>
           b = TheCall(kind, w) /\ ~Has(r, kind) /\ NoNew(r, w)
  PROVE  /\ Append(r, b) \in Seq(Of(K)) /\ Len(Append(r, b)) = Len(r) + 1
         /\ Line(Append(r, b), kind, next, w)
  <1>1. TheCall(kind, w).kind = kind
    BY DEF TheCall, Buffer
  <1>2. /\ TwoStreams(r, w) /\ Around(r, w) /\ Below(r, next)
        /\ OneMarker(r, w) /\ OneCall(r, TheCall(kind, w), w)
    BY DEF Line
  <1>3. /\ TwoStreams(Append(r, b), w) /\ Around(Append(r, b), w)
        /\ Below(Append(r, b), next)
    BY <1>2, AppendKeeps
  <1>4. OneMarker(Append(r, b), w)
    BY <1>2, AppendOrders
  <1>5. OneCall(Append(r, b), TheCall(kind, w), w)
    BY <1>1, <1>2, AppendOrders
  <1>0. Append(r, b) \in Seq(Of(K)) /\ Len(Append(r, b)) = Len(r) + 1
    BY AppendIs
  <1> QED BY <1>0, <1>3, <1>4, <1>5 DEF Line

LEMMA ScreenTail ==
  ASSUME NEW K, NEW r \in Seq(Of(K)), r # <<>>, NEW w, NEW next,
         OnScreen(r, next, w)
  PROVE  /\ Tail(r) \in Seq(Of(K)) /\ Head(r) \in Of(K)
         /\ Len(r) \in Nat /\ Len(Tail(r)) \in Nat
         /\ Len(r) = Len(Tail(r)) + 1
         /\ OnScreen(Tail(r), next, w)
         /\ InWorld(Head(r), w) /\ Beside(Head(r), w)
         /\ Head(r).kind \in {"frame", "marker"} => Head(r).seq < next
         /\ Head(r).kind = "marker" => Head(r).seq <= w.number
         /\ New(Head(r), w) => NoOld(Tail(r), w)
         /\ Head(r).kind = "complete" =>
              Head(r) = TheCall("complete", w) /\ ~Has(Tail(r), "complete")
         /\ Has(Tail(r), "complete") => ~New(Head(r), w)
  <1>1. TheCall("complete", w).kind = "complete"
    BY DEF TheCall, Buffer
  <1>2. /\ TwoStreams(r, w) /\ Around(r, w) /\ Below(r, next)
        /\ MarkersUpTo(r, w) /\ OneCall(r, TheCall("complete", w), w)
        /\ InTurn(r, w)
    BY DEF OnScreen
  <1>3. OnScreen(Tail(r), next, w)
    BY <1>2, TailKeeps DEF OnScreen
  <1>4. /\ InWorld(Head(r), w) /\ Beside(Head(r), w)
        /\ Head(r).kind \in {"frame", "marker"} => Head(r).seq < next
        /\ Head(r).kind = "marker" => Head(r).seq <= w.number
        /\ New(Head(r), w) => NoOld(Tail(r), w)
    BY <1>2, HeadTells
  <1>5. /\ Head(r).kind = "complete" =>
             Head(r) = TheCall("complete", w) /\ ~Has(Tail(r), "complete")
        /\ Has(Tail(r), "complete") => ~New(Head(r), w)
    BY <1>1, <1>2, HeadTells
  <1>0. /\ Tail(r) \in Seq(Of(K)) /\ Head(r) \in Of(K)
        /\ Len(r) \in Nat /\ Len(Tail(r)) \in Nat
        /\ Len(r) = Len(Tail(r)) + 1
    BY TailIs
  <1> QED BY <1>0, <1>3, <1>4, <1>5

LEMMA ScreenAppend ==
  ASSUME NEW K, NEW r \in Seq(Of(K)), NEW b \in Of(K), NEW w,
         w.number \in Nat, NEW next, OnScreen(r, next, w),
         InWorld(b, w), Beside(b, w),
         b.kind \in {"frame", "marker"} => b.seq < next,
         b.kind = "marker" => b.seq <= w.number,
         NoNew(r, w) \/ ~Old(b, w),
         b.kind = "complete" =>
           b = TheCall("complete", w) /\ ~Has(r, "complete") /\ NoNew(r, w)
  PROVE  /\ Append(r, b) \in Seq(Of(K)) /\ Len(Append(r, b)) = Len(r) + 1
         /\ OnScreen(Append(r, b), next, w)
  <1>1. TheCall("complete", w).kind = "complete"
    BY DEF TheCall, Buffer
  <1>2. /\ TwoStreams(r, w) /\ Around(r, w) /\ Below(r, next)
        /\ MarkersUpTo(r, w) /\ OneCall(r, TheCall("complete", w), w)
        /\ InTurn(r, w)
    BY DEF OnScreen
  <1>3. /\ TwoStreams(Append(r, b), w) /\ Around(Append(r, b), w)
        /\ Below(Append(r, b), next) /\ MarkersUpTo(Append(r, b), w)
    BY <1>2, AppendKeeps
  <1>4. InTurn(Append(r, b), w)
    BY <1>2, AppendOrders
  <1>5. OneCall(Append(r, b), TheCall("complete", w), w)
    BY <1>1, <1>2, AppendOrders
  <1>0. Append(r, b) \in Seq(Of(K)) /\ Len(Append(r, b)) = Len(r) + 1
    BY AppendIs
  <1> QED BY <1>0, <1>3, <1>4, <1>5 DEF OnScreen

LEMMA NothingIn ==
  ASSUME NEW w, NEW next, NEW kind
  PROVE  /\ Collated(<<>>, next, w) /\ Line(<<>>, kind, next, w)
         /\ OnScreen(<<>>, next, w)
         /\ ~Has(<<>>, kind) /\ NoOld(<<>>, w) /\ NoNew(<<>>, w)
  BY EmptyRing DEF Collated, Line, OnScreen

\* A higher number for the next frame.
LEMMA MoreNumbers ==
  ASSUME NEW K, NEW r \in Seq(Of(K)), NEW n \in Nat, NEW m \in Nat, n <= m,
         NEW w, NEW kind
  PROVE  /\ Line(r, kind, n, w) => Line(r, kind, m, w)
         /\ OnScreen(r, n, w) => OnScreen(r, m, w)
  BY BelowMore DEF Line, OnScreen

-----------------------------------------------------------------------------
(* What is said of a ring when the world changes.                          *)

\* A frame more, which is in no ring yet.
LEMMA WorldGrows ==
  ASSUME NEW K, NEW r \in Seq(Of(K)), NEW w, NEW w1, TwoStreams(r, w),
         w1.newest = w.newest, w1.number = w.number,
         \A f \in DOMAIN w.streams :
           f \in DOMAIN w1.streams /\ w1.streams[f] = w.streams[f]
  PROVE  /\ NoOld(r, w) => NoOld(r, w1)
         /\ NoNew(r, w) => NoNew(r, w1)
         /\ TwoStreams(r, w1)
         /\ Around(r, w) => Around(r, w1)
         /\ OneMarker(r, w) => OneMarker(r, w1)
         /\ \A call : OneCall(r, call, w) => OneCall(r, call, w1)
         /\ \A next : Spaced(r, next, w) => Spaced(r, next, w1)
         /\ ParserLast(r, w) => ParserLast(r, w1)
         /\ InTurn(r, w) => InTurn(r, w1)
         /\ MarkersUpTo(r, w) => MarkersUpTo(r, w1)
  <1>1. \A i \in 1 .. Len(r) :
          /\ Old(r[i], w) <=> Old(r[i], w1)
          /\ New(r[i], w) <=> New(r[i], w1)
          /\ InWorld(r[i], w1)
    BY DEF TwoStreams, InWorld, Old, New
  <1>2. TheMarker(w1) = TheMarker(w)
    BY DEF TheMarker
  <1>3. /\ NoOld(r, w) => NoOld(r, w1)
        /\ NoNew(r, w) => NoNew(r, w1)
        /\ TwoStreams(r, w1)
        /\ Around(r, w) => Around(r, w1)
    BY <1>1 DEF NoOld, NoNew, TwoStreams, Around, Beside
  <1>4. OneMarker(r, w) => OneMarker(r, w1)
    BY <1>1, <1>2 DEF OneMarker
  <1>5. \A call : OneCall(r, call, w) => OneCall(r, call, w1)
    BY <1>1 DEF OneCall
  <1>6. /\ \A next : Spaced(r, next, w) => Spaced(r, next, w1)
        /\ MarkersUpTo(r, w) => MarkersUpTo(r, w1)
    BY DEF Spaced, MarkersUpTo
  <1>7. /\ ParserLast(r, w) => ParserLast(r, w1)
        /\ InTurn(r, w) => InTurn(r, w1)
    BY <1>1 DEF ParserLast, InTurn
  <1> QED BY <1>3, <1>4, <1>5, <1>6, <1>7

\* A marker more: what was new is old.
LEMMA WorldTurns ==
  ASSUME NEW K, NEW r \in Seq(Of(K)), NEW w, NEW w1, NoOld(r, w),
         TwoStreams(r, w), w.newest \in Nat, w1.number \in Nat,
         w1.streams = w.streams, w1.newest = w.newest + 1
  PROVE  /\ NoNew(r, w1) /\ TwoStreams(r, w1) /\ InTurn(r, w1)
         /\ Below(r, w1.number) => Around(r, w1) /\ MarkersUpTo(r, w1)
  <1>1. \A i \in 1 .. Len(r) : r[i].kind = "frame" =>
          r[i].id \in DOMAIN w.streams /\ w.streams[r[i].id] = w.newest
    BY DEF NoOld, TwoStreams, Old, InWorld
  <1>2. NoNew(r, w1)
    BY <1>1 DEF NoNew, New
  <1>3. TwoStreams(r, w1)
    BY <1>1 DEF TwoStreams, InWorld
  <1>4. InTurn(r, w1)
    BY <1>2, Lacking
  <1>5. ASSUME Below(r, w1.number) PROVE Around(r, w1) /\ MarkersUpTo(r, w1)
    <2>1. \A i \in 1 .. Len(r) : r[i].seq \in Nat
      <3>1. \A i \in 1 .. Len(r) : r[i] \in Of(K)
        BY ElementOfSeq
      <3> QED BY <3>1 DEF Of
    <2>2. Around(r, w1)
      BY <1>2, <1>5 DEF Around, Beside, Below, NoNew, Old
    <2>3. MarkersUpTo(r, w1)
      BY <1>5, <2>1 DEF MarkersUpTo, Below
    <2> QED BY <2>2, <2>3
  <1> QED BY <1>2, <1>3, <1>4, <1>5

LEMMA RingsInGrownWorld ==
  ASSUME NEW K, NEW r \in Seq(Of(K)), NEW w, NEW w1, NEW next, NEW kind,
         w1.newest = w.newest, w1.number = w.number,
         \A f \in DOMAIN w.streams :
           f \in DOMAIN w1.streams /\ w1.streams[f] = w.streams[f],
         TwoStreams(r, w)
  PROVE  /\ Collated(r, next, w) => Collated(r, next, w1)
         /\ Line(r, kind, next, w) => Line(r, kind, next, w1)
         /\ OnScreen(r, next, w) => OnScreen(r, next, w1)
         /\ NoOld(r, w) => NoOld(r, w1)
         /\ NoNew(r, w) => NoNew(r, w1)
  <1>1. \A any : TheCall(any, w1) = TheCall(any, w)
    BY DEF TheCall
  <1>2. Collated(r, next, w) => Collated(r, next, w1)
    BY <1>1, WorldGrows DEF Collated
  <1>3. Line(r, kind, next, w) => Line(r, kind, next, w1)
    BY <1>1, WorldGrows DEF Line
  <1>4. OnScreen(r, next, w) => OnScreen(r, next, w1)
    BY <1>1, WorldGrows DEF OnScreen
  <1> QED BY <1>2, <1>3, <1>4, WorldGrows

LEMMA RingsInTurnedWorld ==
  ASSUME NEW K, NEW r \in Seq(Of(K)), NEW w, NEW w1, NEW next \in Nat,
         NEW kind, w.newest \in Nat, w1.number \in Nat, next <= w1.number,
         w1.streams = w.streams, w1.newest = w.newest + 1,
         NoOld(r, w), ~Has(r, kind)
  PROVE  /\ Collated(r, next, w) /\ ~Has(r, "marker") /\ kind = "parser"
              => Collated(r, next, w1)
         /\ Line(r, kind, next, w) /\ ~Has(r, "marker")
              => Line(r, kind, next, w1)
         /\ OnScreen(r, next, w) /\ kind = "complete" => OnScreen(r, next, w1)
         /\ TwoStreams(r, w) => NoNew(r, w1)
  <1>1. TheCall(kind, w1).kind = kind
    BY DEF TheCall, Buffer
  <1>2. OneCall(r, TheCall(kind, w1), w1)
    BY <1>1, Lacking
  <1>3. TwoStreams(r, w) =>
          /\ NoNew(r, w1) /\ TwoStreams(r, w1) /\ InTurn(r, w1)
          /\ Below(r, w1.number) => Around(r, w1) /\ MarkersUpTo(r, w1)
    BY WorldTurns
  <1>4. Below(r, next) => Below(r, w1.number)
    BY BelowMore
  <1>5. ASSUME Collated(r, next, w), ~Has(r, "marker"), kind = "parser"
        PROVE  Collated(r, next, w1)
    BY <1>2, <1>3, <1>5, Lacking DEF Collated
  <1>6. ASSUME Line(r, kind, next, w), ~Has(r, "marker")
        PROVE  Line(r, kind, next, w1)
    BY <1>2, <1>3, <1>4, <1>6, Lacking DEF Line
  <1>7. ASSUME OnScreen(r, next, w), kind = "complete"
        PROVE  OnScreen(r, next, w1)
    BY <1>2, <1>3, <1>4, <1>7 DEF OnScreen
  <1> QED BY <1>3, <1>5, <1>6, <1>7

-----------------------------------------------------------------------------
LEMMA Basics ==
  ASSUME SwitchTypes, Thread
  PROVE  /\ drain \in Nat /\ Newest \in Nat /\ Number \in Nat /\ Newest <= drain
         /\ World.streams = streamOf /\ World.newest = Newest
         /\ World.number = Number
         /\ \A d \in 1 .. drain : drains[d].seq \in Nat
         /\ Preparing => Newest + 1 = drain
         /\ ~Preparing => Newest = drain
         /\ DOMAIN streamOf = 1 .. frames
  <1>1. drain \in Nat /\ \A d \in 1 .. drain : drains[d].seq \in Nat
    <2>1. drain \in Nat
      BY LenProperties DEF SwitchTypes, drain
    <2>2. \A d \in 1 .. drain : drains[d] \in Asked
      BY ElementOfSeq DEF SwitchTypes, drain
    <2> QED BY <2>1, <2>2 DEF Asked
  <1>2. Preparing => drain > 0
    BY DEF Thread, Preparing
  <1>3. /\ Newest \in Nat /\ Newest <= drain /\ (Preparing => Newest + 1 = drain)
        /\ (~Preparing => Newest = drain)
    BY <1>1, <1>2 DEF Newest
  <1>4. Number \in Nat
    BY <1>1, <1>3 DEF Number
  <1>5. DOMAIN streamOf = 1 .. frames
    BY LenProperties DEF SwitchTypes
  <1> QED BY <1>1, <1>3, <1>4, <1>5 DEF World

\* While the thread stands, the world is the same.
Standing == UNCHANGED <<drainer, drains, frames, switcher, Stream,
                        SwitchStreamInProgress, streamOf>>

SameWorld ==
  /\ World' = World /\ Newest' = Newest /\ Number' = Number /\ drain' = drain
  /\ (Underway' <=> Underway) /\ (Preparing' <=> Preparing)
  /\ (Sent("CtoP")' <=> Sent("CtoP")) /\ (Sent("PtoD")' <=> Sent("PtoD"))
  /\ (Sent("DtoM")' <=> Sent("DtoM")) /\ (Sent("PostM")' <=> Sent("PostM"))

LEMMA Stands ==
  ASSUME Standing
  PROVE  /\ SameWorld
         /\ LastOneOut' = LastOneOut => (Out' <=> Out)
         /\ Thread => Thread'
         /\ Streams => Streams'
  <1>1. drain' = drain /\ (Preparing' <=> Preparing)
    BY DEF Standing, drain, Preparing
  <1>2. Newest' = Newest
    BY <1>1 DEF Newest
  <1>3. Number' = Number
    BY <1>2 DEF Number, Standing
  <1>4. World' = World
    BY <1>2, <1>3 DEF World, Standing
  <1>5. Underway' <=> Underway
    BY <1>1 DEF Underway, Standing
  <1>6. /\ (Sent("CtoP")' <=> Sent("CtoP")) /\ (Sent("PtoD")' <=> Sent("PtoD"))
        /\ (Sent("DtoM")' <=> Sent("DtoM"))
        /\ (Sent("PostM")' <=> Sent("PostM"))
    BY <1>5 DEF Sent, Before, Standing
  <1>7. (LastOneOut' = LastOneOut => (Out' <=> Out)) /\ (Thread => Thread')
    BY <1>1, <1>5 DEF Out, Thread, Standing
  <1>8. Streams => Streams'
    BY <1>1, <1>2 DEF Streams, Standing
  <1> QED BY <1>1, <1>2, <1>3, <1>4, <1>5, <1>6, <1>7, <1>8 DEF SameWorld

MarkerStays ==
  /\ (InC' <=> InC) /\ (InP' <=> InP) /\ (InQ' <=> InQ) /\ (InK' <=> InK)
  /\ (InD' <=> InD)

\* A new frame was collected when the last switch's thread had gone.
LEMMA NewIsLate ==
  ASSUME SwitchTypes, Thread, Streams, NEW b, New(b, World), InWorld(b, World),
         Underway
  PROVE  switcher = "idle" /\ Sent("CtoP") /\ Sent("PtoD") /\ Sent("DtoM")
           /\ Sent("PostM")
  <1>1. b.id \in 1 .. frames /\ streamOf[b.id] = Newest
    BY Basics DEF New, InWorld
  <1>2. ~Preparing
    BY DEF Thread, Underway, Preparing
  <1>3. switcher = "idle"
    <2>1. CASE switcher # "idle"
      <3>1. Newest <= drain - 1 /\ Newest = drain /\ drain \in Nat
        BY <1>1, <1>2, <2>1, Basics DEF Streams
      <3> QED BY <3>1
    <2> QED BY <2>1
  <1> QED BY <1>3 DEF Sent, Before, Stages

\* When the last of the old stream is out of the codec, so is all of it.
LEMMA NothingUpstream ==
  ASSUME SwitchIInv
  PROVE  /\ Out => /\ ~InC /\ ~InP /\ ~InQ /\ ~InK /\ ~InD
                   /\ NoOld(CollatedFrameRing, World)
                   /\ NoOld(ParsedFrameRing, World)
                   /\ NoOld(codec.decoding, World)
                   /\ NoOld(DecodedFrameRing, World)
         /\ ~Out => /\ Stream.FrameParser # Newest /\ Stream.Codec # Newest
                    /\ Underway
  <1>1. seen["DtoM"] \in Nat /\ Number \in Nat
    BY Basics DEF SwitchIInv, SwitchTypes
  <1>2. Out => ~InC /\ ~InP /\ ~InQ /\ ~InK /\ ~InD
    BY <1>1 DEF SwitchIInv, TimerCall, Numbers
  <1>3. ~Out => Stream.FrameParser # Newest /\ Stream.Codec # Newest /\ Underway
    BY DEF SwitchIInv, ParserCall, CodecCall, Out
  <1> QED BY <1>2, <1>3 DEF SwitchIInv, Marker

LEMMA CtoPFrameStep ==
  ASSUME SwitchIInv, "CtoP" \notin performing, CtoPFrame,
         Head(CollatedFrameRing).kind # "parser",
         Passes("CtoP", NextBufferSequenceNumber' - 1),
         UNCHANGED <<SwitchStreamInProgress, CodecReset, LastOneOut, switcher,
                     Stream, streamOf>>
  PROVE  SwitchIInv'
  <1> DEFINE C == CollatedFrameRing
             P == ParsedFrameRing
             n == NextBufferSequenceNumber
             h == Head(C)
             b == [h EXCEPT !.seq = n]
             KC == {"frame", "jump", "marker", "parser"}
             KP == {"frame", "marker", "codec"}
  <1>1. /\ Number \in Nat /\ n \in Nat /\ C \in Seq(Of(KC)) /\ P \in Seq(Of(KP))
        /\ World.number = Number /\ World.newest = Newest
        /\ World.streams = streamOf
    BY Basics DEF SwitchIInv, SwitchTypes
  <1>2. /\ C # <<>> /\ C' = Tail(C) /\ h \in Of(KC)
        /\ h.kind \in {"frame", "jump"} /\ n' = n + 1
        /\ \/ P' = P
           \/ h.kind = "frame" /\ P' = Append(P, b) /\ b \in Of(KP)
    <2>1. C # <<>> /\ h \in Of(KC)
      BY <1>1, TailIs DEF CtoPFrame
    <2> QED BY <1>1, <2>1 DEF CtoPFrame, Of
  <1>3. b.kind = h.kind /\ b.id = h.id /\ b.seq = n
    BY <1>2 DEF Of
  <1>4. /\ UNCHANGED <<DecodedFrameRing, ManifestedBufferRing, shown, codec,
                       busy, seen, calls, performing, CodecReset, LastOneOut,
                       MarkerInCodedFrameIndex>>
        /\ passed' = [passed EXCEPT !["CtoP"] = n]
        /\ Standing
    <2>1. /\ calls["CtoP"] = {} /\ passed["CtoP"] + 1 = n
          /\ passed["CtoP"] \in Nat
          /\ calls \in [Stages -> SUBSET Of({"parser", "codec", "timer", "complete"})]
      BY DEF SwitchIInv, SwitchTypes, ParserCall, Numbers
    <2>2. DueCalls("CtoP", n' - 1) = {}
      BY <2>1 DEF DueCalls
    <2>3. calls' = calls /\ performing' = performing
      BY <2>1, <2>2 DEF Passes, Performs
    <2>4. n' - 1 = n /\ n > passed["CtoP"]
      BY <1>1, <1>2, <2>1
    <2>5. passed' = [passed EXCEPT !["CtoP"] = n]
      BY <2>4 DEF Passes
    <2>6. Standing
      BY DEF Standing, CtoPFrame
    <2> QED BY <2>3, <2>5, <2>6 DEF CtoPFrame, processes, player
  <1>5. SameWorld /\ (Out' <=> Out) /\ Thread' /\ Streams'
    BY <1>4, Stands DEF SwitchIInv
  <1>6. /\ Collated(Tail(C), n + 1, World)
        /\ InWorld(h, World)
        /\ Has(Tail(C), "marker") => n < Number /\ ~New(h, World)
        /\ Has(Tail(C), "parser") => ~New(h, World)
        /\ FlagsOfTail(C, World)
        /\ Tail(C) \in Seq(Of(KC)) /\ Len(Tail(C)) \in Nat
        /\ Len(C) = Len(Tail(C)) + 1
    BY <1>1, <1>2, CollatedTail, Flags DEF SwitchIInv, Contents
  <1>7. (New(b, World) <=> New(h, World)) /\ (Old(b, World) <=> Old(h, World))
    BY <1>3 DEF New, Old
  <1>8. Old(h, World) => InC /\ n < Number
    BY <1>2, <1>6 DEF FlagsOfTail, InC, SwitchIInv, Marker
  <1>9. ASSUME New(h, World)
        PROVE  /\ Stream.FrameParser = Newest /\ Number < n /\ ~InP
               /\ (Underway => Sent("PtoD"))
    <2>1. ~InC /\ ~Has(C, "parser") /\ ~NoNew(C, World)
      BY <1>2, <1>6, <1>9 DEF FlagsOfTail, InC
    <2>2. Underway => Sent("PtoD") /\ Sent("CtoP")
      BY <1>6, <1>9, NewIsLate DEF SwitchIInv
    <2>3. Stream.FrameParser = Newest
      BY <2>1, <2>2 DEF SwitchIInv, ParserCall
    <2> QED BY <2>1, <2>2, <2>3, NothingUpstream DEF SwitchIInv, ParserCall, Numbers
  <1>10. /\ Line(P', "codec", n + 1, World) /\ P' \in Seq(Of(KP))
         /\ InP' <=> InP
         /\ Has(P', "codec") <=> Has(P, "codec")
         /\ NoOld(P', World) <=> NoOld(P, World) /\ (P' = P \/ ~Old(h, World))
         /\ NoNew(P', World) <=> NoNew(P, World) /\ (P' = P \/ ~New(h, World))
    <2>1. Line(P, "codec", n + 1, World)
      BY <1>1, MoreNumbers DEF SwitchIInv, Contents
    <2>2. CASE P' = P
      BY <1>1, <2>1, <2>2 DEF InP
    <2>3. CASE h.kind = "frame" /\ P' = Append(P, b) /\ b \in Of(KP)
      <3>1. FlagsOfAppend(P, b, World)
        BY <1>1, <2>3, Flags
      <3>2. InWorld(b, World)
        BY <1>3, <1>6 DEF InWorld
      <3>3. Beside(b, World)
        BY <1>1, <1>3, <1>7, <1>8, <1>9 DEF Beside
      <3>4. Has(P, "marker") => ~Old(b, World)
        BY <1>7, <1>8 DEF SwitchIInv, Marker, InP
      <3>5. /\ b.kind = "frame" /\ b.seq < n + 1 /\ World.number \in Nat
        BY <1>1, <1>3, <2>3
      <3>6. /\ Line(Append(P, b), "codec", n + 1, World)
            /\ Append(P, b) \in Seq(Of(KP))
        BY <1>1, <2>1, <2>3, <3>2, <3>3, <3>4, <3>5, LineAppend
      <3> QED BY <1>3, <1>7, <2>3, <3>1, <3>6 DEF FlagsOfAppend, InP
    <2> QED BY <1>2, <2>2, <2>3
  <1>11. /\ MarkerStays
         /\ Has(C', "parser") <=> Has(C, "parser")
         /\ NoOld(C, World) => NoOld(C', World)
         /\ NoNew(C, World) => NoNew(C', World)
    BY <1>2, <1>4, <1>6, <1>10 DEF FlagsOfTail, MarkerStays, InC, InQ, InK, InD
  <1>12. SwitchTypes'
    <2>1. C' \in Seq(Of(KC)) /\ P' \in Seq(Of(KP)) /\ n' \in Nat
      BY <1>1, <1>2, <1>6, <1>10
    <2>2. passed' \in [{"CtoP", "PtoD"} -> Nat]
      BY <1>1, <1>4 DEF SwitchIInv, SwitchTypes
    <2> QED BY <2>1, <2>2, <1>4, <1>5
        DEF SwitchIInv, SwitchTypes, Standing, SameWorld
  <1>13. Contents'
    <2>1. /\ Line(codec.decoding, "codec", n + 1, World)
          /\ Line(DecodedFrameRing, "timer", n + 1, World)
          /\ OnScreen(shown, n + 1, World)
          /\ OnScreen(ManifestedBufferRing, n + 1, World)
      <3>1. /\ codec.decoding \in Seq(Of({"frame"}))
            /\ DecodedFrameRing \in Seq(Of({"frame", "marker", "reset", "timer"}))
            /\ shown \in Seq(Of({"frame"}))
            /\ ManifestedBufferRing \in
                 Seq(Of({"frame", "marker", "drained", "complete"}))
            /\ n <= n + 1 /\ n + 1 \in Nat
        BY <1>1 DEF SwitchIInv, SwitchTypes, Codecs
      <3> QED BY <3>1, <1>1, MoreNumbers DEF SwitchIInv, Contents
    <2> QED BY <1>2, <1>4, <1>5, <1>6, <1>10, <2>1 DEF Contents, SameWorld
  <1>14. Marker'
    BY <1>4, <1>5, <1>8, <1>10, <1>11 DEF SwitchIInv, Marker, SameWorld, MarkerStays
  <1>15. Numbers'
    <2>1. passed'["CtoP"] = n /\ passed'["PtoD"] = passed["PtoD"]
      BY <1>4 DEF SwitchIInv, SwitchTypes
    <2>2. Number < n' <=> ~InC'
      BY <1>1, <1>2, <1>6, <1>11 DEF SwitchIInv, Numbers, InC, FlagsOfTail
    <2>3. /\ passed["PtoD"] \in Nat /\ seen["DtoM"] \in Nat /\ seen["PostM"] \in Nat
          /\ \A d \in 1 .. drain : drains[d].seq \in Nat
          /\ Newest \in Nat /\ drain \in Nat /\ Newest <= drain
      BY Basics DEF SwitchIInv, SwitchTypes
    <2>4. drainer'.at = "launch" => n' + Len(C') <= drains'[drain'].seq
      BY <1>1, <1>2, <1>4, <1>5, <1>6 DEF SwitchIInv, Numbers, Standing, SameWorld
    <2>5. \A d \in 1 .. Newest - 1 : drains[d].seq < n'
      <3>1. ASSUME NEW d \in 1 .. Newest - 1 PROVE drains[d].seq < n'
        <4>1. d \in 1 .. drain /\ drains[d].seq < n
          BY <2>3 DEF SwitchIInv, Numbers
        <4>2. drains[d].seq \in Nat
          BY <4>1, <2>3
        <4>3. n \in Nat /\ n' = n + 1
          BY <1>1, <1>2
        <4> HIDE DEF n
        <4> QED BY <4>1, <4>2, <4>3
      <3> QED BY <3>1
    <2>6. \A d \in 1 .. Newest' - 1 : /\ drains'[d].seq < n'
                                      /\ drains'[d].seq < Number'
      BY <1>4, <1>5, <2>5 DEF SwitchIInv, Numbers, Standing, SameWorld
    <2>7. passed["PtoD"] < n' /\ seen["DtoM"] < n' /\ seen["PostM"] < n'
      BY <1>1, <1>2, <2>3 DEF SwitchIInv, Numbers
    <2> QED BY <1>1, <1>2, <1>4, <1>5, <1>10, <1>11, <2>1, <2>2, <2>4, <2>6, <2>7
        DEF SwitchIInv, Numbers, Standing, SameWorld, MarkerStays
  <1>16. Room' /\ Counts'
    <2>1. frames \in Nat /\ drain \in Nat
      BY Basics DEF SwitchIInv, SwitchTypes
    <2>2. Room'
      BY <1>2, <1>4, <1>5, <1>6, <1>11, <2>1
      DEF SwitchIInv, Room, Standing, SameWorld, MarkerStays
    <2>3. Counts'
      BY <1>4, <1>5, <1>10, <1>11 DEF SwitchIInv, Counts, Uncounted, Standing,
          SameWorld, MarkerStays
    <2> QED BY <2>2, <2>3
  <1>17. ParserCall' /\ CodecCall'
    <2>1. passed'["PtoD"] = passed["PtoD"]
      BY <1>4 DEF SwitchIInv, SwitchTypes
    <2>2. ParserCall'
      BY <1>4, <1>5, <1>9, <1>10, <1>11
      DEF SwitchIInv, ParserCall, Standing, SameWorld, MarkerStays
    <2>3. CodecCall'
      BY <1>4, <1>5, <1>9, <1>10, <1>11, <2>1
      DEF SwitchIInv, CodecCall, Standing, SameWorld
    <2> QED BY <2>2, <2>3
  <1>18. TimerCall' /\ CompleteCall' /\ Screen'
    BY <1>4, <1>5 DEF SwitchIInv, TimerCall, CompleteCall, Screen, SameWorld
  <1> QED BY <1>5, <1>12, <1>13, <1>14, <1>15, <1>16, <1>17, <1>18 DEF SwitchIInv

\* Where the marker is, only one place is.
LEMMA MarkerIs ==
  ASSUME SwitchIInv
  PROVE  /\ InC \/ InP \/ InQ \/ InK \/ InD =>
              /\ Underway /\ ~Out
              /\ Stream.FrameParser # Newest /\ Stream.Codec # Newest
              /\ NoNew(ParsedFrameRing, World) /\ NoNew(codec.decoding, World)
              /\ NoNew(DecodedFrameRing, World) /\ NoNew(shown, World)
              /\ NoNew(ManifestedBufferRing, World)
         /\ busy["PtoD"] # NoBuffer =>
              Underway /\ Stream.Codec # Newest /\ codec.input # "idle"
         /\ codec.input # "idle" => busy["PtoD"] = TheMarker(World)
         /\ TheMarker(World).kind = "marker" /\ TheMarker(World).seq = Number
         /\ TheMarker(World).id = Newest /\ TheMarker(World) # NoBuffer
         /\ \A b : b.kind = "marker" =>
              InWorld(b, World) /\ Beside(b, World) /\ ~Old(b, World)
                /\ ~New(b, World)
  <1>1. InC \/ InP \/ InQ \/ InK \/ InD => ~Out
    BY NothingUpstream
  <1>2. ~Out => /\ Underway
                /\ Stream.FrameParser # Newest /\ Stream.Codec # Newest
                /\ NoNew(ParsedFrameRing, World) /\ NoNew(codec.decoding, World)
                /\ NoNew(DecodedFrameRing, World) /\ NoNew(shown, World)
                /\ NoNew(ManifestedBufferRing, World)
    BY NothingUpstream DEF SwitchIInv, ParserCall
  <1>3. busy["PtoD"] # NoBuffer => Stream.Codec # Newest
    <2>1. passed["PtoD"] \in Nat /\ Number \in Nat
      BY Basics DEF SwitchIInv, SwitchTypes
    <2> QED BY <2>1 DEF SwitchIInv, CodecCall, Numbers
  <1>4. Stream.Codec # Newest => Underway
    BY DEF SwitchIInv, CodecCall
  <1>5. /\ TheMarker(World).kind = "marker" /\ TheMarker(World).seq = Number
        /\ TheMarker(World).id = Newest /\ TheMarker(World) # NoBuffer
    BY Basics DEF SwitchIInv, TheMarker, Buffer, NoBuffer
  <1>6. \A b : b.kind = "marker" =>
          InWorld(b, World) /\ Beside(b, World) /\ ~Old(b, World)
            /\ ~New(b, World)
    BY DEF InWorld, Beside, Old, New
  <1>7. /\ codec.input # "idle" => busy["PtoD"] = TheMarker(World)
        /\ busy["PtoD"] # NoBuffer => codec.input # "idle"
    BY DEF SwitchIInv, Counts, Marker
  <1> QED BY <1>1, <1>2, <1>3, <1>4, <1>5, <1>6, <1>7

LEMMA CtoPMarkerStep ==
  ASSUME SwitchIInv, "CtoP" \notin performing, CtoPMarker,
         Passes("CtoP", NextBufferSequenceNumber' - 1),
         UNCHANGED <<SwitchStreamInProgress, CodecReset, LastOneOut, switcher,
                     Stream, streamOf>>
  PROVE  SwitchIInv'
  <1> DEFINE C == CollatedFrameRing
             P == ParsedFrameRing
             n == NextBufferSequenceNumber
             h == Head(C)
             KC == {"frame", "jump", "marker", "parser"}
             KP == {"frame", "marker", "codec"}
  <1>1. /\ Number \in Nat /\ n \in Nat /\ C \in Seq(Of(KC)) /\ P \in Seq(Of(KP))
        /\ World.number = Number /\ World.newest = Newest
        /\ World.streams = streamOf
    BY Basics DEF SwitchIInv, SwitchTypes
  <1>2. /\ C # <<>> /\ C' = Tail(C) /\ h.kind = "marker" /\ n' = h.seq + 1
        /\ P' = Append(P, h) /\ MarkerInCodedFrameIndex' = INVALID
    BY DEF CtoPMarker
  <1>3. /\ Tail(C) \in Seq(Of(KC)) /\ h \in Of(KC)
        /\ Len(Tail(C)) \in Nat /\ Len(C) = Len(Tail(C)) + 1
        /\ \A m : ~Has(Tail(C), "marker") => Collated(Tail(C), m, World)
        /\ h = TheMarker(World) /\ ~Has(Tail(C), "marker")
        /\ NoOld(Tail(C), World) /\ (Has(C, "marker") => n <= Number)
        /\ FlagsOfTail(C, World)
    BY <1>1, <1>2, CollatedTail, Flags DEF SwitchIInv, Contents
  <1>4. /\ InC /\ n <= Number /\ h.seq = Number /\ n' = Number + 1
        /\ ~Has(P, "marker")
    <2>1. InC
      BY <1>2, <1>3 DEF FlagsOfTail, InC
    <2> QED BY <2>1, <1>2, <1>3, MarkerIs DEF SwitchIInv, Marker, InP, InC
  <1>5. /\ UNCHANGED <<DecodedFrameRing, ManifestedBufferRing, shown, codec,
                       busy, seen, calls, performing, CodecReset, LastOneOut>>
        /\ passed' = [passed EXCEPT !["CtoP"] = Number]
        /\ Standing
    <2>1. /\ calls["CtoP"] = {} /\ passed["CtoP"] + 1 = n
          /\ passed["CtoP"] \in Nat
          /\ calls \in [Stages -> SUBSET Of({"parser", "codec", "timer", "complete"})]
      BY DEF SwitchIInv, SwitchTypes, ParserCall, Numbers
    <2>2. DueCalls("CtoP", n' - 1) = {}
      BY <2>1 DEF DueCalls
    <2>3. calls' = calls /\ performing' = performing
      BY <2>1, <2>2 DEF Passes, Performs
    <2>4. n' - 1 = Number /\ Number > passed["CtoP"]
      BY <1>1, <1>4, <2>1
    <2>5. passed' = [passed EXCEPT !["CtoP"] = Number]
      BY <2>4 DEF Passes
    <2>6. Standing
      BY DEF Standing, CtoPMarker, input
    <2> QED BY <2>3, <2>5, <2>6 DEF CtoPMarker, processes
  <1>6. SameWorld /\ (Out' <=> Out) /\ Thread' /\ Streams'
    BY <1>5, Stands DEF SwitchIInv
  <1>7. /\ Line(Append(P, h), "codec", Number + 1, World)
        /\ Append(P, h) \in Seq(Of(KP)) /\ FlagsOfAppend(P, h, World)
    <2>1. Line(P, "codec", Number + 1, World)
      BY <1>1, <1>4, MoreNumbers DEF SwitchIInv, Contents
    <2>2. /\ h \in Of(KP) /\ h.seq < Number + 1 /\ NoNew(P, World)
          /\ InWorld(h, World) /\ Beside(h, World)
      BY <1>1, <1>2, <1>3, <1>4, MarkerIs DEF Of
    <2>3. Line(Append(P, h), "codec", Number + 1, World)
            /\ Append(P, h) \in Seq(Of(KP))
      BY <1>1, <1>2, <1>3, <1>4, <2>1, <2>2, MarkerIs, LineAppend
    <2> QED BY <1>1, <2>2, <2>3, Flags
  <1>8. /\ ~InC' /\ InP' /\ ~InQ' /\ ~InK' /\ ~InD'
        /\ Has(C', "parser") <=> Has(C, "parser")
        /\ Has(P', "codec") <=> Has(P, "codec")
        /\ NoNew(C, World) => NoNew(C', World)
        /\ NoNew(P, World) => NoNew(P', World)
        /\ NoOld(C', World)
    <2>1. ~InQ /\ ~InK /\ ~InD
      BY <1>4 DEF SwitchIInv, Marker
    <2> QED BY <1>2, <1>3, <1>5, <1>7, <2>1, MarkerIs
        DEF FlagsOfTail, FlagsOfAppend, InC, InP, InQ, InK, InD
  <1>9. SwitchTypes'
    <2>1. /\ C' \in Seq(Of(KC)) /\ P' \in Seq(Of(KP)) /\ n' \in Nat
          /\ MarkerInCodedFrameIndex' \in Nat
      BY <1>1, <1>2, <1>3, <1>4, <1>7 DEF INVALID
    <2>2. passed' \in [{"CtoP", "PtoD"} -> Nat]
      BY <1>1, <1>5 DEF SwitchIInv, SwitchTypes
    <2> QED BY <2>1, <2>2, <1>5, <1>6
        DEF SwitchIInv, SwitchTypes, Standing, SameWorld
  <1>10. Contents'
    <2>1. /\ Line(codec.decoding, "codec", n', World)
          /\ Line(DecodedFrameRing, "timer", n', World)
          /\ OnScreen(shown, n', World)
          /\ OnScreen(ManifestedBufferRing, n', World)
      <3>1. /\ codec.decoding \in Seq(Of({"frame"}))
            /\ DecodedFrameRing \in Seq(Of({"frame", "marker", "reset", "timer"}))
            /\ shown \in Seq(Of({"frame"}))
            /\ ManifestedBufferRing \in
                 Seq(Of({"frame", "marker", "drained", "complete"}))
            /\ n <= n' /\ n' \in Nat
        BY <1>1, <1>4 DEF SwitchIInv, SwitchTypes, Codecs
      <3> QED BY <3>1, <1>1, MoreNumbers DEF SwitchIInv, Contents
    <2> QED BY <1>2, <1>3, <1>4, <1>5, <1>6, <1>7, <2>1 DEF Contents, SameWorld
  <1>11. Marker'
    BY <1>2, <1>4, <1>5, <1>6, <1>8, MarkerIs DEF SwitchIInv, Marker, SameWorld
  <1>12. Numbers'
    <2>1. passed'["CtoP"] = Number /\ passed'["PtoD"] = passed["PtoD"]
      BY <1>5 DEF SwitchIInv, SwitchTypes
    <2>2. /\ passed["PtoD"] \in Nat /\ seen["DtoM"] \in Nat /\ seen["PostM"] \in Nat
          /\ \A d \in 1 .. drain : drains[d].seq \in Nat
          /\ Newest \in Nat /\ drain \in Nat /\ Newest <= drain
      BY Basics DEF SwitchIInv, SwitchTypes
    <2>3. drainer'.at # "launch"
      <3>1. ~Preparing
        BY <1>4, MarkerIs DEF SwitchIInv, Thread, Underway, Preparing
      <3> QED BY <3>1, <1>5 DEF Preparing, Standing
    <2>4. ASSUME NEW d \in 1 .. Newest' - 1
          PROVE  drains'[d].seq < n' /\ drains'[d].seq < Number'
      <3>1. d \in 1 .. drain /\ drains[d].seq < Number
        BY <1>6, <2>2, <2>4 DEF SwitchIInv, Numbers, SameWorld
      <3> QED BY <3>1, <1>1, <1>4, <1>5, <1>6, <2>2 DEF Standing, SameWorld
    <2>5. passed["PtoD"] < n' /\ seen["DtoM"] < n' /\ seen["PostM"] < n'
      BY <1>1, <1>4, <2>2 DEF SwitchIInv, Numbers
    <2>6. passed["PtoD"] < Number /\ seen["DtoM"] < Number
      BY <1>4 DEF SwitchIInv, Numbers
    <2> QED BY <1>1, <1>4, <1>5, <1>6, <1>8, <2>1, <2>2, <2>3, <2>4, <2>5, <2>6
        DEF SwitchIInv, Numbers, SameWorld
  <1>13. Room' /\ Counts'
    <2>1. frames \in Nat /\ drain \in Nat
      BY Basics DEF SwitchIInv, SwitchTypes
    <2>2. Room'
      BY <1>2, <1>3, <1>4, <1>5, <1>6, <1>8, <2>1
      DEF SwitchIInv, Room, Standing, SameWorld
    <2>3. Counts'
      BY <1>4, <1>5, <1>6, <1>8 DEF SwitchIInv, Counts, Uncounted, Standing, SameWorld
    <2> QED BY <2>2, <2>3
  <1>14. ParserCall' /\ CodecCall'
    <2>1. passed'["PtoD"] = passed["PtoD"]
      BY <1>5 DEF SwitchIInv, SwitchTypes
    <2>2. ParserCall'
      BY <1>4, <1>5, <1>6, <1>8 DEF SwitchIInv, ParserCall, Standing, SameWorld
    <2>3. CodecCall'
      BY <1>4, <1>5, <1>6, <1>8, <2>1 DEF SwitchIInv, CodecCall, Standing, SameWorld
    <2> QED BY <2>2, <2>3
  <1>15. TimerCall' /\ CompleteCall' /\ Screen'
    BY <1>5, <1>6 DEF SwitchIInv, TimerCall, CompleteCall, Screen, SameWorld
  <1> QED BY <1>6, <1>9, <1>10, <1>11, <1>12, <1>13, <1>14, <1>15 DEF SwitchIInv

\* One of the four rings changes.
LEMMA OneRing ==
  ASSUME NEW x
  PROVE  /\ RingsAre([Ring EXCEPT !["CtoP"] = x]) =>
              CollatedFrameRing' = x
                /\ UNCHANGED <<ParsedFrameRing, DecodedFrameRing,
                               ManifestedBufferRing>>
         /\ RingsAre([Ring EXCEPT !["PtoD"] = x]) =>
              ParsedFrameRing' = x
                /\ UNCHANGED <<CollatedFrameRing, DecodedFrameRing,
                               ManifestedBufferRing>>
         /\ RingsAre([Ring EXCEPT !["DtoM"] = x]) =>
              DecodedFrameRing' = x
                /\ UNCHANGED <<CollatedFrameRing, ParsedFrameRing,
                               ManifestedBufferRing>>
         /\ RingsAre([Ring EXCEPT !["PostM"] = x]) =>
              ManifestedBufferRing' = x
                /\ UNCHANGED <<CollatedFrameRing, ParsedFrameRing,
                               DecodedFrameRing>>
         /\ Ring["CtoP"] = CollatedFrameRing /\ Ring["PtoD"] = ParsedFrameRing
         /\ Ring["DtoM"] = DecodedFrameRing
         /\ Ring["PostM"] = ManifestedBufferRing
  BY DEF RingsAre, Ring

LEMMA ParserArrivesStep ==
  ASSUME SwitchIInv, "CtoP" \notin performing,
         Arrives("CtoP", passed["CtoP"]),
         Performs("CtoP", IF ArrivedDue("CtoP", passed["CtoP"])
                          THEN {Head(CollatedFrameRing)} ELSE {}),
         UNCHANGED <<SwitchStreamInProgress, CodecReset, LastOneOut>>
  PROVE  SwitchIInv'
  <1> DEFINE C == CollatedFrameRing
             n == NextBufferSequenceNumber
             h == Head(C)
             KC == {"frame", "jump", "marker", "parser"}
  <1>1. /\ Number \in Nat /\ n \in Nat /\ C \in Seq(Of(KC))
        /\ World.number = Number /\ World.newest = Newest
    BY Basics DEF SwitchIInv, SwitchTypes
  <1>2. C # <<>> /\ h.kind = "parser" /\ C' = Tail(C)
    BY OneRing DEF Arrives, Messages
  <1>3. /\ Tail(C) \in Seq(Of(KC)) /\ Len(Tail(C)) \in Nat
        /\ Len(C) = Len(Tail(C)) + 1
        /\ Collated(Tail(C), n, World)
        /\ h = TheCall("parser", World) /\ FlagsOfTail(C, World)
        /\ ~Has(Tail(C), "parser") /\ ~Has(Tail(C), "marker")
    BY <1>1, <1>2, CollatedTail, Flags DEF SwitchIInv, Contents
  <1>4. /\ ~InC /\ Has(C, "parser") /\ h.seq = Number /\ Number < n
        /\ passed["CtoP"] + 1 = n /\ passed["CtoP"] \in Nat
    <2>1. ~InC /\ Has(C, "parser")
      BY <1>2, <1>3 DEF FlagsOfTail, InC
    <2>2. h.seq = Number
      BY <1>1, <1>3 DEF TheCall, Buffer
    <2> QED BY <2>1, <2>2 DEF SwitchIInv, SwitchTypes, Numbers
  <1>5. /\ UNCHANGED <<ParsedFrameRing, DecodedFrameRing, ManifestedBufferRing,
                       shown, codec, busy, seen, calls, CodecReset, LastOneOut,
                       NextBufferSequenceNumber, MarkerInCodedFrameIndex,
                       passed>>
        /\ performing' = performing \cup {"CtoP"}
        /\ Standing
    <2>0. h.seq <= passed["CtoP"]
      BY <1>1, <1>4
    <2>1. ArrivedDue("CtoP", passed["CtoP"]) /\ h.seq <= passed["CtoP"]
      BY <2>0 DEF ArrivedDue, Ring
    <2>2. performing' = performing \cup {"CtoP"}
      BY <2>1 DEF Performs
    <2>3. calls' = calls
      BY <2>1, OneRing DEF Arrives
    <2>4. UNCHANGED <<ParsedFrameRing, DecodedFrameRing, ManifestedBufferRing>>
      BY OneRing DEF Arrives
    <2> QED BY <2>2, <2>3, <2>4
        DEF Arrives, Standing, processes, player, input
  <1>6. SameWorld /\ (Out' <=> Out) /\ Thread' /\ Streams'
    BY <1>5, Stands DEF SwitchIInv
  <1>7. /\ MarkerStays /\ ~Has(C', "parser") /\ ~InC'
        /\ NoOld(C, World) => NoOld(C', World)
        /\ NoNew(C, World) => NoNew(C', World)
    BY <1>2, <1>3, <1>4, <1>5
    DEF FlagsOfTail, MarkerStays, InC, InP, InQ, InK, InD
  <1>8. SwitchTypes' /\ Contents'
    <2>1. C' \in Seq(Of(KC)) /\ performing' \in SUBSET {"CtoP", "PtoD", "halted"}
      BY <1>2, <1>3, <1>5 DEF SwitchIInv, SwitchTypes
    <2>2. SwitchTypes'
      BY <2>1, <1>5, <1>6 DEF SwitchIInv, SwitchTypes, Standing, SameWorld
    <2> QED BY <2>2, <1>2, <1>3, <1>5, <1>6 DEF SwitchIInv, Contents, SameWorld
  <1>9. Marker' /\ Numbers'
    <2>1. drainer.at # "launch"
      BY <1>4 DEF SwitchIInv, ParserCall, Sent, Underway, Thread, Preparing
    <2> QED BY <2>1, <1>5, <1>6, <1>7
        DEF SwitchIInv, Marker, Numbers, Standing, SameWorld, MarkerStays
  <1>10. Room' /\ Counts'
    <2>1. frames \in Nat /\ drain \in Nat
      BY Basics DEF SwitchIInv, SwitchTypes
    <2>2. Room'
      BY <1>2, <1>3, <1>4, <1>5, <1>6, <1>7, <2>1
      DEF SwitchIInv, Room, Standing, SameWorld
    <2>3. Counts'
      BY <1>5, <1>6, <1>7
      DEF SwitchIInv, Counts, Uncounted, Standing, SameWorld, MarkerStays
    <2> QED BY <2>2, <2>3
  <1>11. ParserCall' /\ CodecCall'
    BY <1>4, <1>5, <1>6, <1>7
    DEF SwitchIInv, ParserCall, CodecCall, Standing, SameWorld
  <1>12. TimerCall' /\ CompleteCall' /\ Screen'
    <2>1. Underway
      BY <1>4 DEF SwitchIInv, ParserCall, Sent
    <2> QED BY <2>1, <1>5, <1>6
        DEF SwitchIInv, TimerCall, CompleteCall, Screen, SameWorld
  <1> QED BY <1>6, <1>8, <1>9, <1>10, <1>11, <1>12 DEF SwitchIInv

\* Replacing the frame parser, or the codec, is no change of the world.
LEMMA StandsBut ==
  ASSUME UNCHANGED <<drainer, drains, frames, switcher, SwitchStreamInProgress,
                     streamOf>>,
         Stream'.Collator = Stream.Collator
  PROVE  /\ SameWorld
         /\ LastOneOut' = LastOneOut => (Out' <=> Out)
         /\ Thread => Thread'
         /\ Streams => Streams'
  <1>1. drain' = drain /\ (Preparing' <=> Preparing)
    BY DEF drain, Preparing
  <1>2. Newest' = Newest
    BY <1>1 DEF Newest
  <1>3. Number' = Number
    BY <1>2 DEF Number
  <1>4. World' = World
    BY <1>2, <1>3 DEF World
  <1>5. Underway' <=> Underway
    BY <1>1 DEF Underway
  <1>6. /\ (Sent("CtoP")' <=> Sent("CtoP")) /\ (Sent("PtoD")' <=> Sent("PtoD"))
        /\ (Sent("DtoM")' <=> Sent("DtoM"))
        /\ (Sent("PostM")' <=> Sent("PostM"))
    BY <1>5 DEF Sent, Before
  <1>7. (LastOneOut' = LastOneOut => (Out' <=> Out)) /\ (Thread => Thread')
    BY <1>1, <1>5 DEF Out, Thread
  <1>8. Streams => Streams'
    BY <1>1, <1>2 DEF Streams
  <1> QED BY <1>1, <1>2, <1>3, <1>4, <1>5, <1>6, <1>7, <1>8 DEF SameWorld

LEMMA SwitchFrameParserStep ==
  ASSUME SwitchIInv, SwitchesAlone, SwitchFrameParser
  PROVE  SwitchIInv'
  <1>1. /\ Stream \in [Collator : Nat, FrameParser : Nat, Codec : Nat]
        /\ Stream' = [Stream EXCEPT !.FrameParser = Stream.Collator]
        /\ "CtoP" \in performing /\ LastOneOut
        /\ performing' = performing \ {"CtoP"}
        /\ UNCHANGED <<vars, switcher, SwitchStreamInProgress, CodecReset,
                       LastOneOut, calls, passed, streamOf>>
    BY DEF SwitchFrameParser, LastDecodeIsOut, SwitchesAlone, SwitchIInv,
           SwitchTypes
  <1>2. /\ Stream'.Collator = Stream.Collator /\ Stream'.Codec = Stream.Codec
        /\ Stream'.FrameParser = Stream.Collator
        /\ Stream' \in [Collator : Nat, FrameParser : Nat, Codec : Nat]
    BY <1>1
  <1>3. /\ UNCHANGED <<CollatedFrameRing, ParsedFrameRing, DecodedFrameRing,
                       ManifestedBufferRing, shown, codec, busy, seen,
                       NextBufferSequenceNumber, MarkerInCodedFrameIndex>>
        /\ UNCHANGED <<drainer, drains, frames>>
    BY <1>1 DEF vars, rings, processes, player, input
  <1>4. Sent("CtoP") /\ Underway /\ switcher # "drain" /\ ~InC
    BY <1>1 DEF SwitchIInv, ParserCall, Sent, Before
  <1>5. Stream.Collator = Newest /\ Out /\ ~Preparing
    BY <1>1, <1>4 DEF SwitchIInv, Thread, Newest, Out, Preparing
  <1>6. SameWorld /\ (Out' <=> Out) /\ Thread' /\ Streams'
    BY <1>1, <1>2, <1>3, StandsBut DEF SwitchIInv
  <1>7. MarkerStays
    BY <1>3 DEF MarkerStays, InC, InP, InQ, InK, InD
  <1>8. SwitchTypes' /\ Contents' /\ Marker' /\ Numbers'
    <2>1. SwitchTypes'
      BY <1>1, <1>2, <1>3, <1>6 DEF SwitchIInv, SwitchTypes, SameWorld
    <2> QED BY <2>1, <1>1, <1>3, <1>6, <1>7
        DEF SwitchIInv, Contents, Marker, Numbers, SameWorld, MarkerStays
  <1>9. Room' /\ Counts'
    BY <1>2, <1>3, <1>6, <1>7
    DEF SwitchIInv, Room, Counts, Uncounted, SameWorld, MarkerStays
  <1>10. ParserCall'
    <2>1. ~Has(CollatedFrameRing, "parser")
      BY <1>1 DEF SwitchIInv, ParserCall
    <2> QED BY <2>1, <1>1, <1>2, <1>3, <1>4, <1>5, <1>6, <1>7
        DEF SwitchIInv, ParserCall, SameWorld, MarkerStays
  <1>11. CodecCall'
    BY <1>1, <1>2, <1>3, <1>6 DEF SwitchIInv, CodecCall, SameWorld
  <1>12. TimerCall' /\ CompleteCall' /\ Screen'
    BY <1>1, <1>3, <1>4, <1>6
    DEF SwitchIInv, TimerCall, CompleteCall, Screen, SameWorld
  <1> QED BY <1>6, <1>8, <1>9, <1>10, <1>11, <1>12 DEF SwitchIInv

\* A frame is collected, with SwitchStream not in progress in its thread.
LEMMA WritesStep ==
  ASSUME SwitchIInv, SwitchesAlone, Writes
  PROVE  SwitchIInv'
  <1> DEFINE C == CollatedFrameRing
             n == NextBufferSequenceNumber
             b == Buffer("frame", frames + 1, 0)
             KC == {"frame", "jump", "marker", "parser"}
  <1>1. /\ Number \in Nat /\ Newest \in Nat /\ n \in Nat /\ C \in Seq(Of(KC))
        /\ drain \in Nat /\ frames \in Nat
        /\ World.number = Number /\ World.newest = Newest
        /\ World.streams = streamOf /\ DOMAIN streamOf = 1 .. frames
        /\ streamOf \in Seq(Nat) /\ Len(streamOf) = frames
    BY Basics DEF SwitchIInv, SwitchTypes
  <1>2. /\ switcher = "idle" /\ frames' = frames + 1 /\ frames < MaxFrames
        /\ C' = Append(C, b)
        /\ UNCHANGED <<ParsedFrameRing, DecodedFrameRing, ManifestedBufferRing,
                       shown, codec, busy, seen, calls, passed, performing,
                       CodecReset, LastOneOut, NextBufferSequenceNumber,
                       MarkerInCodedFrameIndex, drainer, drains, switcher,
                       SwitchStreamInProgress, Stream>>
        /\ streamOf' = Append(streamOf, Stream.Collator)
    BY DEF Writes, Inject, SwitchesAlone, processes, player
  <1>3. /\ drainer.at = "idle" /\ ~Preparing /\ Stream.Collator = Newest
        /\ Newest = drain
    BY <1>1, <1>2 DEF SwitchIInv, Thread, Preparing, Newest
  <1>4. /\ drain' = drain /\ (Preparing' <=> Preparing) /\ Newest' = Newest
        /\ Number' = Number /\ (Underway' <=> Underway) /\ (Out' <=> Out)
        /\ (Sent("CtoP")' <=> Sent("CtoP")) /\ (Sent("PtoD")' <=> Sent("PtoD"))
        /\ (Sent("DtoM")' <=> Sent("DtoM"))
        /\ (Sent("PostM")' <=> Sent("PostM"))
    <2>1. drain' = drain /\ (Preparing' <=> Preparing)
      BY <1>2 DEF drain, Preparing
    <2>2. Newest' = Newest
      BY <2>1 DEF Newest
    <2>3. Number' = Number
      BY <1>2, <2>2 DEF Number
    <2>4. Underway' <=> Underway
      BY <1>2, <2>1 DEF Underway
    <2> QED BY <1>2, <2>1, <2>2, <2>3, <2>4 DEF Out, Sent, Before
  <1>5. /\ streamOf' \in Seq(Nat) /\ Len(streamOf') = frames + 1
        /\ DOMAIN streamOf' = 1 .. frames + 1
        /\ \A f \in 1 .. frames : streamOf'[f] = streamOf[f]
        /\ streamOf'[frames + 1] = Newest
    <2>1. Stream.Collator \in Nat
      BY DEF SwitchIInv, SwitchTypes
    <2> QED BY <1>1, <1>2, <1>3, <2>1, AppendProperties, LenProperties
  <1>6. /\ World'.newest = World.newest /\ World'.number = World.number
        /\ World'.streams = streamOf'
        /\ \A f \in DOMAIN World.streams : /\ f \in DOMAIN World'.streams
                                           /\ World'.streams[f] = World.streams[f]
    <2>1. /\ World'.newest = World.newest /\ World'.number = World.number
          /\ World'.streams = streamOf'
      BY <1>4 DEF World
    <2> QED BY <1>1, <1>5, <2>1
  <1> DEFINE w == World'
  <1> HIDE DEF w
  <1>7. /\ w = World' /\ w.newest = Newest /\ w.number = Number
        /\ w.streams = streamOf'
    BY <1>1, <1>6 DEF w
  <1>8. /\ TwoStreams(C, World) /\ TwoStreams(ParsedFrameRing, World)
        /\ TwoStreams(codec.decoding, World)
        /\ TwoStreams(DecodedFrameRing, World) /\ TwoStreams(shown, World)
        /\ TwoStreams(ManifestedBufferRing, World)
    BY DEF SwitchIInv, Contents, Collated, Line, OnScreen
  <1>9. /\ ParsedFrameRing \in Seq(Of({"frame", "marker", "codec"}))
        /\ codec.decoding \in Seq(Of({"frame"}))
        /\ DecodedFrameRing \in Seq(Of({"frame", "marker", "reset", "timer"}))
        /\ shown \in Seq(Of({"frame"}))
        /\ ManifestedBufferRing \in
             Seq(Of({"frame", "marker", "drained", "complete"}))
    BY DEF SwitchIInv, SwitchTypes, Codecs
  <1>10. /\ Collated(C, n, w)
         /\ NoOld(C, World) => NoOld(C, w)
    BY <1>1, <1>6, <1>7, <1>8, RingsInGrownWorld DEF SwitchIInv, Contents
  <1>11. /\ Line(ParsedFrameRing, "codec", n, w)
         /\ NoOld(ParsedFrameRing, World) => NoOld(ParsedFrameRing, w)
         /\ NoNew(ParsedFrameRing, World) => NoNew(ParsedFrameRing, w)
    BY <1>6, <1>7, <1>8, <1>9, RingsInGrownWorld DEF SwitchIInv, Contents
  <1>12. /\ Line(codec.decoding, "codec", n, w)
         /\ NoOld(codec.decoding, World) => NoOld(codec.decoding, w)
         /\ NoNew(codec.decoding, World) => NoNew(codec.decoding, w)
    BY <1>6, <1>7, <1>8, <1>9, RingsInGrownWorld DEF SwitchIInv, Contents
  <1>13. /\ Line(DecodedFrameRing, "timer", n, w)
         /\ NoOld(DecodedFrameRing, World) => NoOld(DecodedFrameRing, w)
         /\ NoNew(DecodedFrameRing, World) => NoNew(DecodedFrameRing, w)
    BY <1>6, <1>7, <1>8, <1>9, RingsInGrownWorld DEF SwitchIInv, Contents
  <1>14. /\ OnScreen(shown, n, w)
         /\ NoOld(shown, World) => NoOld(shown, w)
         /\ NoNew(shown, World) => NoNew(shown, w)
    BY <1>6, <1>7, <1>8, <1>9, RingsInGrownWorld DEF SwitchIInv, Contents
  <1>15. /\ OnScreen(ManifestedBufferRing, n, w)
         /\ NoOld(ManifestedBufferRing, World) => NoOld(ManifestedBufferRing, w)
         /\ NoNew(ManifestedBufferRing, World) => NoNew(ManifestedBufferRing, w)
    BY <1>6, <1>7, <1>8, <1>9, RingsInGrownWorld DEF SwitchIInv, Contents
  <1>16. /\ b \in Of(KC) /\ b.kind = "frame" /\ b.id = frames + 1
         /\ ~Old(b, w) /\ InWorld(b, w)
    <2>1. b \in Of(KC) /\ b.kind = "frame" /\ b.id = frames + 1
      BY <1>1 DEF Buffer, Of
    <2>2. b.id \in DOMAIN w.streams /\ w.streams[b.id] = w.newest
      BY <1>1, <1>5, <1>7, <2>1
    <2> QED BY <1>1, <1>7, <2>1, <2>2 DEF Old, InWorld
  <1>17. /\ C' \in Seq(Of(KC)) /\ Len(C') = Len(C) + 1 /\ Collated(C', n, w)
         /\ FlagsOfAppend(C, b, w)
    BY <1>1, <1>2, <1>7, <1>10, <1>16, CollatedAppend, Flags
  <1>18. /\ MarkerStays /\ (Has(C', "parser") <=> Has(C, "parser"))
         /\ NoOld(C, World) => NoOld(C', w)
    BY <1>2, <1>10, <1>16, <1>17
    DEF FlagsOfAppend, MarkerStays, InC, InP, InQ, InK, InD
  <1>19. TheMarker(World') = TheMarker(World)
           /\ \A kind : TheCall(kind, World') = TheCall(kind, World)
    BY <1>6 DEF TheMarker, TheCall
  <1>20. SwitchTypes'
    <2>1. frames' \in 0 .. MaxFrames
      BY <1>1, <1>2, BoundsAssumption
    <2> QED BY <2>1, <1>2, <1>4, <1>5, <1>17 DEF SwitchIInv, SwitchTypes
  <1>21. Thread' /\ Contents' /\ Streams'
    <2>1. Thread'
      BY <1>2, <1>4 DEF SwitchIInv, Thread
    <2>2. Contents'
      BY <1>2, <1>7, <1>11, <1>12, <1>13, <1>14, <1>15, <1>17 DEF Contents
    <2>3. ASSUME NEW f \in 1 .. frames + 1 PROVE streamOf'[f] <= Newest
      <3>1. CASE f \in 1 .. frames
        BY <3>1, <1>2, <1>5 DEF SwitchIInv, Streams
      <3>2. CASE f = frames + 1
        BY <3>2, <1>1, <1>5
      <3> QED BY <3>1, <3>2, <1>1
    <2> QED BY <2>1, <2>2, <2>3, <1>2, <1>3, <1>4 DEF Streams
  <1>22. Marker'
    BY <1>2, <1>4, <1>7, <1>11, <1>12, <1>13, <1>18, <1>19
    DEF SwitchIInv, Marker, MarkerStays
  <1>23. Numbers' /\ Room' /\ Counts'
    <2>1. Numbers'
      BY <1>2, <1>3, <1>4, <1>18 DEF SwitchIInv, Numbers, MarkerStays
    <2>2. Len(C) \in Nat
      BY <1>1, LenProperties
    <2>3. Room'
      BY <2>2, <1>1, <1>2, <1>3, <1>4, <1>17, <1>18 DEF SwitchIInv, Room, MarkerStays
    <2>4. Counts'
      BY <1>2, <1>4, <1>18 DEF SwitchIInv, Counts, Uncounted, MarkerStays
    <2> QED BY <2>1, <2>3, <2>4
  <1>24. ParserCall' /\ CodecCall'
    <2>1. Underway => Sent("CtoP")
      BY <1>2 DEF Sent, Before
    <2>2. ParserCall'
      BY <2>1, <1>2, <1>4, <1>7, <1>11, <1>12, <1>13, <1>14, <1>15, <1>18
      DEF SwitchIInv, ParserCall, MarkerStays
    <2>3. CodecCall'
      BY <1>2, <1>4, <1>7, <1>11, <1>12, <1>13, <1>14, <1>15, <1>19
      DEF SwitchIInv, CodecCall
    <2> QED BY <2>2, <2>3
  <1>25. TimerCall' /\ CompleteCall' /\ Screen'
    BY <1>2, <1>4, <1>7, <1>14, <1>15, <1>19
    DEF SwitchIInv, TimerCall, CompleteCall, Screen
  <1> QED BY <1>20, <1>21, <1>22, <1>23, <1>24, <1>25 DEF SwitchIInv

LEMMA PtoDFrameStep ==
  ASSUME SwitchIInv, performing \intersect {"PtoD", "halted"} = {}, PtoDFrame,
         Passes("PtoD", Head(ParsedFrameRing).seq),
         UNCHANGED <<SwitchStreamInProgress, CodecReset, LastOneOut, switcher,
                     Stream, streamOf>>
  PROVE  SwitchIInv'
  <1> DEFINE P == ParsedFrameRing
             D == codec.decoding
             n == NextBufferSequenceNumber
             h == Head(P)
             KP == {"frame", "marker", "codec"}
  <1>1. /\ Number \in Nat /\ n \in Nat /\ P \in Seq(Of(KP))
        /\ D \in Seq(Of({"frame"})) /\ codec \in Codecs
        /\ World.number = Number /\ World.newest = Newest
        /\ passed \in [{"CtoP", "PtoD"} -> Nat]
        /\ calls \in [Stages -> SUBSET Of({"parser", "codec", "timer", "complete"})]
    BY Basics DEF SwitchIInv, SwitchTypes, Codecs
  <1>2. /\ P # <<>> /\ P' = Tail(P) /\ h.kind = "frame"
        /\ busy["PtoD"] = NoBuffer
        /\ \/ codec' = codec
           \/ codec' = [codec EXCEPT !.decoding = Append(@, h), !.Prepared = @ + 1]
    BY DEF PtoDFrame, Idle
  <1>3. /\ Tail(P) \in Seq(Of(KP)) /\ h \in Of(KP) /\ Line(Tail(P), "codec", n, World)
        /\ InWorld(h, World) /\ Beside(h, World) /\ h.seq < n /\ h.seq \in Nat
        /\ Has(Tail(P), "codec") => ~New(h, World)
        /\ FlagsOfTail(P, World)
    <2>1. /\ Tail(P) \in Seq(Of(KP)) /\ h \in Of(KP)
          /\ Line(Tail(P), "codec", n, World)
          /\ InWorld(h, World) /\ Beside(h, World)
          /\ h.kind \in {"frame", "marker"} => h.seq < n
          /\ Has(Tail(P), "codec") => ~New(h, World)
          /\ FlagsOfTail(P, World)
      BY <1>1, <1>2, LineTail, Flags DEF SwitchIInv, Contents
    <2> QED BY <2>1, <1>2 DEF Of
  <1>4. /\ Old(h, World) \/ New(h, World)
        /\ InC \/ InP => Old(h, World) /\ h.seq < Number
        /\ ~(InC \/ InP) => New(h, World)
        /\ Stream.Codec # Newest => InC \/ InP
    <2>1. Old(h, World) \/ New(h, World)
      BY <1>2 DEF Old, New
    <2>2. InC \/ InP => ~New(h, World)
      BY <1>3, MarkerIs DEF FlagsOfTail
    <2>3. ~(InC \/ InP) => ~Old(h, World)
      BY <1>3 DEF FlagsOfTail, SwitchIInv, Marker
    <2>4. ASSUME Stream.Codec # Newest, ~(InC \/ InP) PROVE FALSE
      <3>1. New(h, World) /\ ~NoNew(P, World)
        BY <2>1, <2>3, <2>4, <1>3 DEF FlagsOfTail
      <3>2. ~Has(P, "codec")
        BY <3>1, <1>2, <1>3 DEF FlagsOfTail
      <3>3. calls["PtoD"] # {} => passed["PtoD"] < Number
        BY DEF SwitchIInv, CodecCall
      <3>4. ~(passed["PtoD"] < Number)
        BY <2>4, <1>2 DEF SwitchIInv, Numbers
      <3> QED BY <3>1, <3>2, <3>3, <3>4, <2>4 DEF SwitchIInv, CodecCall
    <2>5. Old(h, World) => h.seq < Number
      BY <1>1, <1>3 DEF Beside
    <2> QED BY <2>1, <2>2, <2>3, <2>4, <2>5
  <1>5. /\ UNCHANGED <<CollatedFrameRing, DecodedFrameRing,
                       ManifestedBufferRing, shown, busy, seen, calls,
                       performing, CodecReset, LastOneOut,
                       NextBufferSequenceNumber, MarkerInCodedFrameIndex>>
        /\ Standing
    <2>1. DueCalls("PtoD", h.seq) = {}
      <3>1. CASE calls["PtoD"] = {}
        BY <3>1 DEF DueCalls
      <3>2. CASE calls["PtoD"] # {}
        <4>1. /\ calls["PtoD"] \subseteq {TheCall("codec", World)}
              /\ Stream.Codec # Newest
          BY <3>2 DEF SwitchIInv, CodecCall
        <4>2. TheCall("codec", World).seq = Number
          BY <1>1 DEF TheCall, Buffer
        <4>3. h.seq < Number
          BY <4>1, <1>4
        <4> QED BY <4>1, <4>2, <4>3, <1>1, <1>3 DEF DueCalls
      <3> QED BY <3>1, <3>2
    <2>2. calls' = calls /\ performing' = performing
      BY <1>1, <2>1 DEF Passes, Performs
    <2>3. Standing
      BY DEF Standing, PtoDFrame
    <2> QED BY <2>2, <2>3 DEF PtoDFrame, processes, player
  <1>6. /\ passed' \in [{"CtoP", "PtoD"} -> Nat]
        /\ passed'["CtoP"] = passed["CtoP"]
        /\ passed'["PtoD"] < Number <=> passed["PtoD"] < Number
        /\ passed'["PtoD"] < n
        /\ passed'["PtoD"] >= Number <=> passed["PtoD"] >= Number
    <2>1. passed["PtoD"] < n /\ passed["PtoD"] \in Nat
      BY <1>1 DEF SwitchIInv, Numbers
    <2>2. /\ passed' \in [{"CtoP", "PtoD"} -> Nat]
          /\ passed'["CtoP"] = passed["CtoP"]
          /\ passed'["PtoD"] = IF h.seq > passed["PtoD"] THEN h.seq ELSE passed["PtoD"]
      BY <1>1, <1>3 DEF Passes
    <2>3. passed["PtoD"] < Number => h.seq < Number
      BY <1>2, <1>4 DEF SwitchIInv, Numbers
    <2> QED BY <2>1, <2>2, <2>3, <1>1, <1>3
  <1>7. SameWorld /\ (Out' <=> Out) /\ Thread' /\ Streams'
    BY <1>5, Stands DEF SwitchIInv
  <1>8. /\ codec' \in Codecs
        /\ codec'.input = codec.input /\ codec'.callback = codec.callback
        /\ codec'.Marker = codec.Marker /\ codec'.PassOnAt = codec.PassOnAt
        /\ codec'.Completed = codec.Completed
        /\ Line(codec'.decoding, "codec", n, World)
        /\ codec.Prepared = codec.Completed + Len(codec.decoding) + Uncounted
             => codec'.Prepared = codec.Completed + Len(codec'.decoding) + Uncounted
        /\ NoOld(D, World) /\ ~(InC \/ InP) => NoOld(codec'.decoding, World)
        /\ NoNew(D, World) /\ Stream.Codec # Newest => NoNew(codec'.decoding, World)
    <2>1. Line(D, "codec", n, World)
      BY DEF SwitchIInv, Contents
    <2>2. CASE codec' = codec
      BY <2>1, <2>2, <1>1
    <2>3. CASE codec' = [codec EXCEPT !.decoding = Append(@, h), !.Prepared = @ + 1]
      <3>1. h \in Of({"frame"})
        BY <1>2, <1>3 DEF Of
      <3>2. ~Has(D, "marker")
        <4>1. \A i \in 1 .. Len(D) : D[i] \in Of({"frame"})
          BY <1>1, ElementOfSeq
        <4> QED BY <4>1 DEF Has, Of
      <3>3. /\ Append(D, h) \in Seq(Of({"frame"})) /\ Len(Append(D, h)) = Len(D) + 1
            /\ Line(Append(D, h), "codec", n, World)
        BY <1>1, <1>2, <1>3, <2>1, <3>1, <3>2, LineAppend
      <3>4. FlagsOfAppend(D, h, World)
        BY <1>1, <3>1, Flags
      <3>5. /\ codec'.decoding = Append(D, h) /\ codec'.Prepared = codec.Prepared + 1
            /\ codec'.input = codec.input /\ codec'.callback = codec.callback
            /\ codec'.Marker = codec.Marker /\ codec'.PassOnAt = codec.PassOnAt
            /\ codec'.Completed = codec.Completed /\ codec' \in Codecs
        <4>1. /\ codec'.decoding = Append(D, h)
              /\ codec'.Prepared = codec.Prepared + 1
              /\ codec'.input = codec.input /\ codec'.callback = codec.callback
              /\ codec'.Marker = codec.Marker /\ codec'.PassOnAt = codec.PassOnAt
              /\ codec'.Completed = codec.Completed
          BY <1>1, <2>3 DEF Codecs
        <4>2. codec.Prepared + 1 \in Nat /\ Append(D, h) \in Seq(Of({"frame"}))
          BY <1>1, <3>3 DEF Codecs
        <4>3. codec' \in Codecs
          BY <1>1, <2>3, <4>2 DEF Codecs
        <4> QED BY <4>1, <4>3
      <3>6. /\ Len(D) \in Nat /\ codec.Prepared \in Nat /\ codec.Completed \in Nat
            /\ Uncounted \in Nat
        BY <1>1, LenProperties DEF Codecs, Uncounted
      <3>7. /\ NoOld(D, World) /\ ~(InC \/ InP) => NoOld(codec'.decoding, World)
            /\ NoNew(D, World) /\ Stream.Codec # Newest
                 => NoNew(codec'.decoding, World)
        <4>1. ~(InC \/ InP) => ~Old(h, World)
          BY <1>4 DEF Old, New
        <4>2. Stream.Codec # Newest => ~New(h, World)
          BY <1>4 DEF Old, New
        <4> QED BY <4>1, <4>2, <3>4, <3>5 DEF FlagsOfAppend
      <3> QED BY <3>3, <3>5, <3>6, <3>7
    <2> QED BY <1>2, <2>2, <2>3
  <1>9. /\ MarkerStays
        /\ Has(P', "codec") <=> Has(P, "codec")
        /\ NoOld(P, World) => NoOld(P', World)
        /\ NoNew(P, World) => NoNew(P', World)
    BY <1>2, <1>3, <1>5, <1>8 DEF FlagsOfTail, MarkerStays, InC, InP, InQ, InK, InD
  <1>10. SwitchTypes'
    BY <1>2, <1>3, <1>5, <1>6, <1>7, <1>8
    DEF SwitchIInv, SwitchTypes, Standing, SameWorld
  <1>11. Contents'
    BY <1>2, <1>3, <1>5, <1>7, <1>8 DEF SwitchIInv, Contents, SameWorld
  <1>12. Marker'
    BY <1>5, <1>7, <1>8, <1>9 DEF SwitchIInv, Marker, SameWorld, MarkerStays
  <1>13. Numbers'
    BY <1>5, <1>6, <1>7, <1>9 DEF SwitchIInv, Numbers, Standing, SameWorld, MarkerStays
  <1>14. Room' /\ Counts'
    <2>1. Room'
      BY <1>5, <1>7, <1>9 DEF SwitchIInv, Room, Standing, SameWorld, MarkerStays
    <2>2. Uncounted' = Uncounted
      BY <1>8 DEF Uncounted
    <2>3. codec'.input = "idle"
      BY <1>2, <1>8 DEF SwitchIInv, Counts
    <2>4. ~InK
      BY <1>4, MarkerIs DEF SwitchIInv, Marker
    <2>5. codec.callback # "take"
      BY <1>4 DEF SwitchIInv, Counts
    <2>6. Counts'
      BY <1>2, <1>5, <1>8, <1>9, <2>2, <2>3, <2>4, <2>5
      DEF SwitchIInv, Counts, MarkerStays
    <2> QED BY <2>1, <2>6
  <1>15. ParserCall'
    <2>1. Stream.FrameParser # Newest => Stream.Codec # Newest
      BY NothingUpstream, <1>3, <1>4 DEF SwitchIInv, ParserCall, FlagsOfTail
    <2> QED BY <2>1, <1>2, <1>5, <1>7, <1>8, <1>9
      DEF SwitchIInv, ParserCall, Standing, SameWorld, MarkerStays
  <1>16. CodecCall'
    BY <1>2, <1>5, <1>6, <1>7, <1>8, <1>9
    DEF SwitchIInv, CodecCall, Standing, SameWorld, MarkerStays
  <1>17. TimerCall' /\ CompleteCall' /\ Screen'
    BY <1>5, <1>7 DEF SwitchIInv, TimerCall, CompleteCall, Screen, SameWorld
  <1> QED BY <1>7, <1>10, <1>11, <1>12, <1>13, <1>14, <1>15, <1>16, <1>17
      DEF SwitchIInv

LEMMA PtoDMarkerStep ==
  ASSUME SwitchIInv, PtoDMarker,
         UNCHANGED <<passed, performing, calls, SwitchStreamInProgress,
                     CodecReset, LastOneOut, switcher, Stream, streamOf>>
  PROVE  SwitchIInv'
  <1> DEFINE P == ParsedFrameRing
             n == NextBufferSequenceNumber
             h == Head(P)
             KP == {"frame", "marker", "codec"}
  <1>1. /\ Number \in Nat /\ n \in Nat /\ P \in Seq(Of(KP)) /\ codec \in Codecs
        /\ busy \in [{"PtoD", "DtoM"} -> MarkerOrNone]
        /\ World.number = Number /\ World.newest = Newest
    BY Basics DEF SwitchIInv, SwitchTypes
  <1>2. /\ P # <<>> /\ P' = Tail(P) /\ h.kind = "marker"
        /\ busy["PtoD"] = NoBuffer /\ busy' = [busy EXCEPT !["PtoD"] = h]
        /\ codec' = [codec EXCEPT !.input = "flag"]
    BY DEF PtoDMarker, Idle, Holds
  <1>3. /\ Tail(P) \in Seq(Of(KP)) /\ h \in Of(KP) /\ Line(Tail(P), "codec", n, World)
        /\ h = TheMarker(World) /\ ~Has(Tail(P), "marker") /\ NoOld(Tail(P), World)
        /\ FlagsOfTail(P, World)
    BY <1>1, <1>2, LineTail, Flags DEF SwitchIInv, Contents
  <1>4. InP /\ ~InC /\ ~InQ /\ ~InK /\ ~InD
    <2>1. InP
      BY <1>2, <1>3 DEF FlagsOfTail, InP
    <2> QED BY <2>1 DEF SwitchIInv, Marker
  <1>5. /\ codec'.decoding = codec.decoding /\ codec'.Prepared = codec.Prepared
        /\ codec'.Completed = codec.Completed /\ codec'.callback = codec.callback
        /\ codec'.PassOnAt = codec.PassOnAt /\ codec'.Marker = codec.Marker
        /\ codec.Marker = NoBuffer /\ codec'.input = "flag" /\ codec' \in Codecs
    <2>1. /\ codec'.decoding = codec.decoding /\ codec'.Prepared = codec.Prepared
          /\ codec'.Completed = codec.Completed /\ codec'.callback = codec.callback
          /\ codec'.PassOnAt = codec.PassOnAt /\ codec'.Marker = codec.Marker
          /\ codec'.input = "flag"
      BY <1>1, <1>2 DEF Codecs
    <2>2. codec' \in Codecs
      BY <1>1, <1>2 DEF Codecs, CodecCalls, MarkerOrNone
    <2> QED BY <2>1, <2>2, <1>4 DEF InK
  <1>6. /\ busy' \in [{"PtoD", "DtoM"} -> MarkerOrNone]
        /\ busy'["PtoD"] = TheMarker(World)
    <2>1. h \in MarkerOrNone
      BY <1>2, <1>3 DEF MarkerOrNone, Of
    <2> QED BY <1>1, <1>2, <1>3, <2>1
  <1>7. /\ UNCHANGED <<CollatedFrameRing, DecodedFrameRing,
                       ManifestedBufferRing, shown, seen, calls, passed,
                       performing, CodecReset, LastOneOut,
                       NextBufferSequenceNumber, MarkerInCodedFrameIndex>>
        /\ Standing
    BY DEF PtoDMarker, Standing, input
  <1>8. SameWorld /\ (Out' <=> Out) /\ Thread' /\ Streams'
    BY <1>7, Stands DEF SwitchIInv
  <1>9. /\ ~InC' /\ ~InP' /\ InQ' /\ ~InK' /\ ~InD'
        /\ Has(P', "codec") <=> Has(P, "codec")
        /\ NoNew(P, World) => NoNew(P', World)
        /\ NoOld(P', World)
    BY <1>2, <1>3, <1>4, <1>5, <1>7 DEF FlagsOfTail, InC, InP, InQ, InK, InD
  <1>10. SwitchTypes'
    BY <1>2, <1>3, <1>5, <1>6, <1>7, <1>8
    DEF SwitchIInv, SwitchTypes, Standing, SameWorld
  <1>11. Contents'
    BY <1>2, <1>3, <1>5, <1>7, <1>8 DEF SwitchIInv, Contents, SameWorld
  <1>12. Marker'
    BY <1>4, <1>5, <1>6, <1>7, <1>8, <1>9, MarkerIs DEF SwitchIInv, Marker, SameWorld
  <1>13. Numbers'
    BY <1>4, <1>6, <1>7, <1>8, <1>9, MarkerIs
    DEF SwitchIInv, Numbers, Standing, SameWorld
  <1>14. Room' /\ Counts'
    <2>1. Room'
      BY <1>4, <1>7, <1>8, <1>9 DEF SwitchIInv, Room, Standing, SameWorld
    <2>2. codec.callback # "take"
      BY <1>4 DEF SwitchIInv, Counts
    <2>3. Counts'
      BY <1>5, <1>6, <1>7, <1>8, <1>9, <2>2, MarkerIs
      DEF SwitchIInv, Counts, Uncounted, Standing, SameWorld
    <2> QED BY <2>1, <2>3
  <1>15. ParserCall' /\ CodecCall'
    BY <1>4, <1>5, <1>7, <1>8, <1>9, MarkerIs
    DEF SwitchIInv, ParserCall, CodecCall, Standing, SameWorld
  <1>16. TimerCall' /\ CompleteCall' /\ Screen'
    BY <1>7, <1>8 DEF SwitchIInv, TimerCall, CompleteCall, Screen, SameWorld
  <1> QED BY <1>8, <1>10, <1>11, <1>12, <1>13, <1>14, <1>15, <1>16 DEF SwitchIInv

\* The marker is not lost: the flag is still clear.
LEMMA PtoDMarkerTestStep ==
  ASSUME SwitchIInv, Cleared, PtoDMarkerTest,
         UNCHANGED <<passed, performing, calls, SwitchStreamInProgress,
                     CodecReset, LastOneOut, switcher, Stream, streamOf>>
  PROVE  SwitchIInv' /\ UNCHANGED busy
  <1>1. /\ codec \in Codecs /\ InQ /\ ~InC /\ ~InP /\ ~InK /\ ~InD
        /\ codec.Marker = NoBuffer /\ codec.callback # "take"
    <2>1. InQ
      BY DEF PtoDMarkerTest, InQ
    <2> QED BY <2>1 DEF SwitchIInv, SwitchTypes, Marker, Counts, InK
  <1>2. /\ codec' = [codec EXCEPT !.Marker = NoBuffer, !.input = "at"]
        /\ UNCHANGED busy
    BY DEF PtoDMarkerTest, Cleared
  <1>3. /\ codec'.decoding = codec.decoding /\ codec'.Prepared = codec.Prepared
        /\ codec'.Completed = codec.Completed /\ codec'.callback = codec.callback
        /\ codec'.PassOnAt = codec.PassOnAt /\ codec'.Marker = codec.Marker
        /\ codec'.input = "at" /\ codec' \in Codecs
    <2>1. codec' \in Codecs
      BY <1>1, <1>2 DEF Codecs, CodecCalls, MarkerOrNone
    <2> QED BY <2>1, <1>1, <1>2 DEF Codecs
  <1>4. /\ UNCHANGED <<CollatedFrameRing, ParsedFrameRing, DecodedFrameRing,
                       ManifestedBufferRing, shown, seen, calls, passed,
                       performing, CodecReset, LastOneOut,
                       NextBufferSequenceNumber, MarkerInCodedFrameIndex>>
        /\ Standing
    BY DEF PtoDMarkerTest, Standing, rings, player, input
  <1>5. SameWorld /\ (Out' <=> Out) /\ Thread' /\ Streams'
    BY <1>4, Stands DEF SwitchIInv
  <1>6. ~InC' /\ ~InP' /\ InQ' /\ ~InK' /\ ~InD'
    BY <1>1, <1>3, <1>4 DEF InC, InP, InQ, InK, InD
  <1>7. SwitchTypes'
    BY <1>2, <1>3, <1>4, <1>5 DEF SwitchIInv, SwitchTypes, Standing, SameWorld
  <1>8. Contents'
    BY <1>3, <1>4, <1>5 DEF SwitchIInv, Contents, SameWorld
  <1>9. Marker'
    BY <1>1, <1>2, <1>3, <1>4, <1>5, <1>6 DEF SwitchIInv, Marker, SameWorld
  <1>10. Numbers'
    BY <1>1, <1>2, <1>4, <1>5, <1>6 DEF SwitchIInv, Numbers, Standing, SameWorld
  <1>11. Room' /\ Counts'
    <2>1. Room'
      BY <1>1, <1>4, <1>5, <1>6 DEF SwitchIInv, Room, Standing, SameWorld
    <2>2. busy["PtoD"] # NoBuffer
      BY <1>1 DEF SwitchIInv, Counts, InQ
    <2>3. Counts'
      BY <1>1, <1>2, <1>3, <1>4, <1>5, <1>6, <2>2
      DEF SwitchIInv, Counts, Uncounted, Standing, SameWorld
    <2> QED BY <2>1, <2>3
  <1>12. ParserCall' /\ CodecCall'
    BY <1>1, <1>3, <1>4, <1>5, <1>6
    DEF SwitchIInv, ParserCall, CodecCall, Standing, SameWorld
  <1>13. TimerCall' /\ CompleteCall' /\ Screen'
    BY <1>4, <1>5 DEF SwitchIInv, TimerCall, CompleteCall, Screen, SameWorld
  <1> QED BY <1>2, <1>5, <1>7, <1>8, <1>9, <1>10, <1>11, <1>12, <1>13
      DEF SwitchIInv

LEMMA MarkerInputStep ==
  ASSUME SwitchIInv, MarkerInput,
         UNCHANGED <<passed, performing, calls, SwitchStreamInProgress,
                     CodecReset, LastOneOut, switcher, Stream, streamOf>>
  PROVE  SwitchIInv'
  <1>1. /\ codec \in Codecs /\ InQ /\ ~InC /\ ~InP /\ ~InK /\ ~InD
        /\ busy["PtoD"] = TheMarker(World) /\ TheMarker(World) \in MarkerOrNone
        /\ codec.callback # "take"
    <2>1. InQ
      BY DEF MarkerInput, InQ
    <2>2. busy["PtoD"] = TheMarker(World)
      BY <2>1, MarkerIs DEF InQ
    <2>3. busy["PtoD"] \in MarkerOrNone /\ codec \in Codecs
      BY DEF SwitchIInv, SwitchTypes
    <2> QED BY <2>1, <2>2, <2>3 DEF SwitchIInv, Marker, Counts
  <1>2. /\ codec'.decoding = codec.decoding /\ codec'.Prepared = codec.Prepared
        /\ codec'.Completed = codec.Completed /\ codec'.callback = codec.callback
        /\ codec' \in Codecs
        /\ \/ /\ codec'.input = "hold" /\ codec'.Marker = codec.Marker
              /\ codec'.PassOnAt = codec.Prepared
           \/ /\ codec.input = "hold" /\ codec'.input = "test"
              /\ codec'.Marker = TheMarker(World)
              /\ codec'.PassOnAt = codec.PassOnAt
    <2>1. CASE codec.input = "at"
      <3>1. codec' = [codec EXCEPT !.PassOnAt = codec.Prepared, !.input = "hold"]
        BY <2>1 DEF MarkerInput
      <3>2. codec' \in Codecs
        BY <1>1, <3>1 DEF Codecs, CodecCalls
      <3> QED BY <1>1, <3>1, <3>2 DEF Codecs
    <2>2. CASE codec.input = "hold"
      <3>1. codec' = [codec EXCEPT !.Marker = TheMarker(World), !.input = "test"]
        BY <1>1, <2>2 DEF MarkerInput
      <3>2. codec' \in Codecs
        BY <1>1, <3>1 DEF Codecs, CodecCalls
      <3> QED BY <1>1, <2>2, <3>1, <3>2 DEF Codecs
    <2> QED BY <2>1, <2>2 DEF MarkerInput
  <1>3. /\ UNCHANGED <<CollatedFrameRing, ParsedFrameRing, DecodedFrameRing,
                       ManifestedBufferRing, shown, busy, seen, calls, passed,
                       performing, CodecReset, LastOneOut,
                       NextBufferSequenceNumber, MarkerInCodedFrameIndex>>
        /\ Standing
    BY DEF MarkerInput, Standing, rings, processes, player, input
  <1>4. SameWorld /\ (Out' <=> Out) /\ Thread' /\ Streams'
    BY <1>3, Stands DEF SwitchIInv
  <1>5. /\ ~InC' /\ ~InP' /\ ~InD' /\ (InQ' <=> ~InK') /\ codec'.input # "idle"
    <2>1. codec.Marker = NoBuffer
      BY <1>1 DEF InK
    <2> QED BY <1>1, <1>2, <1>3, <2>1, MarkerIs DEF InC, InP, InQ, InK, InD
  <1>6. SwitchTypes'
    BY <1>2, <1>3, <1>4 DEF SwitchIInv, SwitchTypes, Standing, SameWorld
  <1>7. Contents'
    BY <1>2, <1>3, <1>4 DEF SwitchIInv, Contents, SameWorld
  <1>8. Marker'
    BY <1>1, <1>2, <1>3, <1>4, <1>5, MarkerIs DEF SwitchIInv, Marker, SameWorld
  <1>9. Numbers'
    BY <1>1, <1>3, <1>4, <1>5 DEF SwitchIInv, Numbers, Standing, SameWorld
  <1>10. Room' /\ Counts'
    <2>1. Room'
      BY <1>1, <1>3, <1>4, <1>5 DEF SwitchIInv, Room, Standing, SameWorld
    <2>2. Counts'
      BY <1>1, <1>2, <1>3, <1>4, <1>5, MarkerIs
      DEF SwitchIInv, Counts, Uncounted, Standing, SameWorld, InQ
    <2> QED BY <2>1, <2>2
  <1>11. ParserCall' /\ CodecCall'
    BY <1>1, <1>2, <1>3, <1>4, <1>5, MarkerIs
    DEF SwitchIInv, ParserCall, CodecCall, Standing, SameWorld
  <1>12. TimerCall' /\ CompleteCall' /\ Screen'
    BY <1>3, <1>4 DEF SwitchIInv, TimerCall, CompleteCall, Screen, SameWorld
  <1> QED BY <1>4, <1>6, <1>7, <1>8, <1>9, <1>10, <1>11, <1>12 DEF SwitchIInv

\* TestMarkerFramePassOn: the marker goes from the codec to DecodedFrameRing
\* or nothing of it changes its place.
LEMMA PassOnTells ==
  ASSUME SwitchIInv, NEW who \in {"input", "callback"},
         TestMarkerFramePassOn(who)
  PROVE  /\ codec' \in Codecs /\ codec'.decoding = codec.decoding
         /\ codec'.Prepared = codec.Prepared
         /\ codec'.Completed = codec.Completed
         /\ codec'.PassOnAt = codec.PassOnAt
         /\ who = "input" =>
              /\ codec'.callback = codec.callback /\ codec.input # "idle"
              /\ codec'.input \in {"idle", "take"} /\ ~InQ
              /\ codec'.input = "idle" <=> busy'["PtoD"] = NoBuffer
              /\ codec'.input = "take" => busy' = busy
         /\ who = "callback" => /\ codec'.input = codec.input
                                /\ codec.callback # "count"
                                /\ codec'.callback \in {"idle", "take"}
                                /\ busy' = busy
         /\ busy' \in [{"PtoD", "DtoM"} -> MarkerOrNone]
         /\ busy'["DtoM"] = busy["DtoM"]
         /\ codec'[who] = "take" =>
              InK /\ ~InQ /\ codec.Completed >= codec.Prepared
         /\ DecodedFrameRing' \in Seq(Of({"frame", "marker", "reset", "timer"}))
         /\ Line(DecodedFrameRing', "timer", NextBufferSequenceNumber, World)
         /\ Has(DecodedFrameRing', "timer") <=> Has(DecodedFrameRing, "timer")
         /\ NoOld(DecodedFrameRing, World) => NoOld(DecodedFrameRing', World)
         /\ NoNew(DecodedFrameRing, World) => NoNew(DecodedFrameRing', World)
         /\ \/ codec'.Marker = codec.Marker /\ (InK' <=> InK) /\ (InD' <=> InD)
            \/ /\ InK /\ ~InC /\ ~InP /\ ~InQ /\ ~InD
               /\ ~InK' /\ InD' /\ codec'.Marker = NoBuffer
               /\ NoOld(codec.decoding, World)
  <1> DEFINE D == DecodedFrameRing
             n == NextBufferSequenceNumber
             m == codec.Marker
             KD == {"frame", "marker", "reset", "timer"}
  <1>1. /\ Number \in Nat /\ n \in Nat /\ D \in Seq(Of(KD)) /\ codec \in Codecs
        /\ busy \in [{"PtoD", "DtoM"} -> MarkerOrNone]
        /\ World.number = Number /\ NoBuffer \in MarkerOrNone
        /\ Line(D, "timer", n, World)
    BY Basics DEF SwitchIInv, SwitchTypes, MarkerOrNone, Contents
  <1>2. \/ /\ codec[who] = "take" \/ (codec[who] = "test" /\ CanPassOn)
           /\ codec' = [codec EXCEPT ![who] = "idle", !.Marker = NoBuffer]
           /\ D' = IF m = NoBuffer THEN D ELSE Append(D, m)
           /\ Returns(who)
        \/ /\ codec[who] = "test" /\ CanPassOn
           /\ codec' = [codec EXCEPT ![who] = "take"]
           /\ D' = D /\ busy' = busy
        \/ /\ codec[who] = "test" /\ ~CanPassOn
           /\ codec' = [codec EXCEPT ![who] = "idle"]
           /\ D' = D /\ Returns(who)
    BY DEF TestMarkerFramePassOn, Take
  <1>3. /\ codec' \in Codecs /\ codec'.decoding = codec.decoding
        /\ codec'.Prepared = codec.Prepared
        /\ codec'.Completed = codec.Completed
        /\ codec'.PassOnAt = codec.PassOnAt
        /\ who = "input" => codec'.callback = codec.callback
        /\ who = "callback" => codec'.input = codec.input
        /\ codec'[who] \in {"idle", "take"}
    <2>1. CASE who = "input"
      BY <2>1, <1>1, <1>2 DEF Codecs, CodecCalls
    <2>2. CASE who = "callback"
      BY <2>2, <1>1, <1>2 DEF Codecs, CodecCalls
    <2> QED BY <2>1, <2>2
  <1>4. /\ codec[who] = "take" \/ (codec[who] = "test" /\ CanPassOn)
             => /\ codec.Completed >= codec.Prepared
                /\ ~InC /\ ~InP /\ ~InQ
        /\ CanPassOn => InK
        /\ codec[who] \in {"test", "take"}
    <2>1. CanPassOn => InK
      BY DEF CanPassOn, InK
    <2>2. codec[who] \in {"test", "take"}
      BY <1>2
    <2>3. CASE codec[who] = "take"
      <3>1. codec.input = "take" \/ codec.callback = "take"
        BY <2>3
      <3> QED BY <2>1, <2>2, <3>1 DEF SwitchIInv, Counts
    <2>4. CASE codec[who] = "test" /\ CanPassOn
      <3>1. ~InC /\ ~InP /\ ~InQ
        BY <2>1, <2>4 DEF SwitchIInv, Marker
      <3>2. codec.PassOnAt = codec.Prepared
        BY <2>1, <2>4 DEF SwitchIInv, Counts
      <3> QED BY <2>1, <2>2, <2>4, <3>1, <3>2 DEF CanPassOn
    <2> QED BY <2>1, <2>2, <2>3, <2>4
  <1>5. /\ busy' \in [{"PtoD", "DtoM"} -> MarkerOrNone]
        /\ busy'["DtoM"] = busy["DtoM"]
        /\ who = "callback" => busy' = busy /\ codec.callback # "count"
        /\ who = "input" =>
             /\ codec.input # "idle" /\ codec'.input \in {"idle", "take"} /\ ~InQ
             /\ codec'.input = "idle" <=> busy'["PtoD"] = NoBuffer
             /\ codec'.input = "take" => busy' = busy
    <2>1. CASE who = "callback"
      <3>1. busy' = busy
        BY <2>1, <1>2 DEF Returns
      <3>2. codec.callback # "count"
        BY <2>1, <1>4
      <3> QED BY <2>1, <3>1, <3>2, <1>1
    <2>2. CASE who = "input"
      <3>1. codec.input \in {"test", "take"} /\ codec'.input \in {"idle", "take"}
        BY <2>2, <1>3, <1>4
      <3>2. busy["PtoD"] # NoBuffer
        BY <3>1 DEF SwitchIInv, Counts
      <3>3. \/ codec'.input = "idle" /\ busy' = [busy EXCEPT !["PtoD"] = NoBuffer]
            \/ codec'.input = "take" /\ busy' = busy
        BY <2>2, <1>1, <1>2 DEF Returns, LetsGo, Holds, Codecs
      <3> QED BY <2>2, <3>1, <3>2, <3>3, <1>1 DEF InQ
    <2> QED BY <2>1, <2>2
  <1>6. CASE codec'.Marker = m /\ D' = D
    <2>1. codec'[who] = "take" =>
            InK /\ ~InQ /\ codec.Completed >= codec.Prepared
      <3>1. CASE who = "input"
        BY <3>1, <1>1, <1>2, <1>4, <1>6 DEF Codecs, InK, CanPassOn
      <3>2. CASE who = "callback"
        BY <3>2, <1>1, <1>2, <1>4, <1>6 DEF Codecs, InK, CanPassOn
      <3> QED BY <3>1, <3>2
    <2> QED BY <2>1, <1>1, <1>3, <1>5, <1>6 DEF InK, InD
  <1>7. CASE ~(codec'.Marker = m /\ D' = D)
    <2>1. /\ codec[who] = "take" \/ (codec[who] = "test" /\ CanPassOn)
          /\ codec' = [codec EXCEPT ![who] = "idle", !.Marker = NoBuffer]
          /\ D' = IF m = NoBuffer THEN D ELSE Append(D, m)
      <3>1. CASE who = "input"
        BY <3>1, <1>1, <1>2, <1>7 DEF Codecs
      <3>2. CASE who = "callback"
        BY <3>2, <1>1, <1>2, <1>7 DEF Codecs
      <3> QED BY <3>1, <3>2
    <2>2. codec'.Marker = NoBuffer /\ codec'[who] = "idle"
      <3>1. CASE who = "input"
        BY <3>1, <1>1, <2>1 DEF Codecs
      <3>2. CASE who = "callback"
        BY <3>2, <1>1, <2>1 DEF Codecs
      <3> QED BY <3>1, <3>2
    <2>3. InK /\ D' = Append(D, m) /\ ~InK'
      BY <1>7, <2>1, <2>2 DEF InK
    <2>4. /\ ~InC /\ ~InP /\ ~InQ /\ ~InD /\ codec.Completed >= codec.Prepared
          /\ m = TheMarker(World) /\ NoNew(D, World)
      BY <2>1, <2>3, <1>4, MarkerIs DEF SwitchIInv, Marker, InK
    <2>5. codec.decoding = <<>>
      <3>1. /\ Len(codec.decoding) \in Nat /\ codec.decoding \in Seq(Of({"frame"}))
            /\ codec.Prepared \in Nat /\ codec.Completed \in Nat
            /\ Uncounted \in Nat
        BY <1>1, LenProperties DEF Codecs, Uncounted
      <3>2. codec.Prepared = codec.Completed + Len(codec.decoding) + Uncounted
        BY DEF SwitchIInv, Counts
      <3>3. Len(codec.decoding) = 0
        BY <3>1, <3>2, <2>4
      <3> QED BY <3>1, <3>3, EmptySeq
    <2>6. NoOld(codec.decoding, World)
      BY <2>5, NothingIn
    <2>7. m \in Of(KD) /\ m.kind = "marker"
      <3>1. m \in MarkerOrNone /\ m # NoBuffer
        BY <1>1, <2>3 DEF InK, Codecs
      <3> QED BY <3>1 DEF MarkerOrNone, Of
    <2>8. Number < n
      BY <2>4 DEF SwitchIInv, Numbers
    <2>9. /\ D' \in Seq(Of(KD)) /\ Line(D', "timer", n, World)
          /\ FlagsOfAppend(D, m, World)
      <3>1. ~Has(D, "marker")
        BY <2>4 DEF InD
      <3>2. m.seq < n
        BY <2>4, <2>8, MarkerIs
      <3>3. InWorld(m, World) /\ Beside(m, World)
        BY <2>7, MarkerIs
      <3>4. Append(D, m) \in Seq(Of(KD)) /\ Line(Append(D, m), "timer", n, World)
        BY <1>1, <2>4, <2>7, <3>1, <3>2, <3>3, LineAppend
      <3> QED BY <1>1, <2>3, <2>7, <3>4, Flags
    <2>10. /\ InD' /\ (Has(D', "timer") <=> Has(D, "timer"))
           /\ NoOld(D, World) => NoOld(D', World)
           /\ NoNew(D, World) => NoNew(D', World)
      BY <2>3, <2>7, <2>9, MarkerIs DEF FlagsOfAppend, InD
    <2> QED BY <2>2, <2>3, <2>4, <2>6, <2>9, <2>10, <1>3, <1>5
  <1> QED BY <1>6, <1>7

LEMMA PassOnInputStep ==
  ASSUME SwitchIInv, performing \intersect {"PtoD", "halted"} = {},
         TestMarkerFramePassOn("input"),
         IF ~Idle("PtoD") /\ busy'["PtoD"] = NoBuffer
           THEN Passes("PtoD", busy["PtoD"].seq)
           ELSE UNCHANGED <<passed, performing, calls>>,
         UNCHANGED <<SwitchStreamInProgress, CodecReset, LastOneOut, switcher,
                     Stream, streamOf>>
  PROVE  SwitchIInv'
  <1> DEFINE D == DecodedFrameRing
             n == NextBufferSequenceNumber
             KD == {"frame", "marker", "reset", "timer"}
  <1>1. /\ Number \in Nat /\ n \in Nat /\ codec \in Codecs
        /\ World.number = Number
        /\ passed \in [{"CtoP", "PtoD"} -> Nat]
        /\ calls \in [Stages -> SUBSET Of({"parser", "codec", "timer", "complete"})]
    BY Basics DEF SwitchIInv, SwitchTypes
  <1>2. /\ codec' \in Codecs /\ codec'.decoding = codec.decoding
        /\ codec'.Prepared = codec.Prepared
        /\ codec'.Completed = codec.Completed
        /\ codec'.PassOnAt = codec.PassOnAt
        /\ codec'.callback = codec.callback /\ codec.input # "idle"
        /\ codec'.input \in {"idle", "take"} /\ ~InQ
        /\ codec'.input = "idle" <=> busy'["PtoD"] = NoBuffer
        /\ codec'.input = "take" => busy' = busy
        /\ busy' \in [{"PtoD", "DtoM"} -> MarkerOrNone]
        /\ codec'.input = "take" =>
             InK /\ ~InQ /\ codec.Completed >= codec.Prepared
    BY PassOnTells
  <1>3. /\ D' \in Seq(Of(KD)) /\ Line(D', "timer", n, World)
        /\ Has(D', "timer") <=> Has(D, "timer")
        /\ NoOld(D, World) => NoOld(D', World)
        /\ NoNew(D, World) => NoNew(D', World)
        /\ \/ codec'.Marker = codec.Marker /\ (InK' <=> InK) /\ (InD' <=> InD)
           \/ /\ InK /\ ~InC /\ ~InP /\ ~InQ /\ ~InD
              /\ ~InK' /\ InD' /\ codec'.Marker = NoBuffer
              /\ NoOld(codec.decoding, World)
    BY PassOnTells
  <1>4. /\ busy["PtoD"] = TheMarker(World) /\ busy["PtoD"].seq = Number
        /\ busy["PtoD"] # NoBuffer /\ ~InC /\ ~InP /\ passed["PtoD"] < Number
        /\ Number < n /\ Underway /\ Stream.Codec # Newest
    <2>1. /\ busy["PtoD"] = TheMarker(World) /\ busy["PtoD"].seq = Number
          /\ busy["PtoD"] # NoBuffer /\ Underway /\ Stream.Codec # Newest
      BY <1>2, MarkerIs
    <2>2. ~InC /\ ~InP
      BY <1>2 DEF SwitchIInv, Counts
    <2> QED BY <2>1, <2>2 DEF SwitchIInv, Numbers
  <1>5. /\ UNCHANGED <<CollatedFrameRing, ParsedFrameRing, ManifestedBufferRing,
                       shown, seen, CodecReset, LastOneOut,
                       NextBufferSequenceNumber, MarkerInCodedFrameIndex>>
        /\ Standing
    BY DEF TestMarkerFramePassOn, Standing, player, input
  <1>6. SameWorld /\ (Out' <=> Out) /\ Thread' /\ Streams'
    BY <1>5, Stands DEF SwitchIInv
  <1>7. /\ passed' \in [{"CtoP", "PtoD"} -> Nat]
        /\ passed'["CtoP"] = passed["CtoP"]
        /\ calls' \in [Stages -> SUBSET Of({"parser", "codec", "timer", "complete"})]
        /\ calls'["CtoP"] = calls["CtoP"] /\ calls'["DtoM"] = calls["DtoM"]
        /\ calls'["PostM"] = calls["PostM"]
        /\ \/ /\ busy'["PtoD"] = NoBuffer /\ codec'.input = "idle"
              /\ passed'["PtoD"] = Number /\ calls'["PtoD"] = {}
              /\ performing' = IF calls["PtoD"] = {} THEN performing
                               ELSE performing \cup {"PtoD"}
           \/ /\ busy' = busy /\ codec'.input = "take"
              /\ calls'["PtoD"] = calls["PtoD"]
              /\ passed'["PtoD"] = passed["PtoD"] /\ performing' = performing
    <2>1. CASE codec'.input = "take"
      <3>1. busy' = busy /\ UNCHANGED <<passed, performing, calls>>
        BY <2>1, <1>2, <1>4
      <3> QED BY <2>1, <3>1, <1>1
    <2>2. CASE codec'.input = "idle"
      <3>1. busy'["PtoD"] = NoBuffer /\ Passes("PtoD", Number)
        BY <2>2, <1>2, <1>4 DEF Idle
      <3>2. DueCalls("PtoD", Number) = calls["PtoD"]
        <4>1. calls["PtoD"] \subseteq {TheCall("codec", World)}
          BY DEF SwitchIInv, CodecCall
        <4>2. TheCall("codec", World).seq = Number
          BY <1>1 DEF TheCall, Buffer
        <4>3. \A x \in calls["PtoD"] : x.seq <= Number
          BY <4>1, <4>2, <1>1
        <4> QED BY <4>3 DEF DueCalls
      <3>3. /\ passed' = [passed EXCEPT !["PtoD"] = Number]
            /\ calls' = [calls EXCEPT !["PtoD"] = {}]
            /\ performing' = IF calls["PtoD"] = {} THEN performing
                             ELSE performing \cup {"PtoD"}
        <4>1. passed' = [passed EXCEPT !["PtoD"] = Number]
          BY <3>1, <1>1, <1>4 DEF Passes
        <4>2. performing' = IF calls["PtoD"] = {} THEN performing
                            ELSE performing \cup {"PtoD"}
          BY <3>1, <3>2 DEF Passes, Performs
        <4>3. calls["PtoD"] \ calls["PtoD"] = {}
          OBVIOUS
        <4>4. calls' = [calls EXCEPT !["PtoD"] = calls["PtoD"] \ calls["PtoD"]]
          BY <3>1, <3>2 DEF Passes
        <4> QED BY <4>1, <4>2, <4>3, <4>4
      <3>4. "PtoD" \in Stages /\ "CtoP" \in Stages /\ "DtoM" \in Stages
              /\ "PostM" \in Stages
        BY DEF Stages
      <3> QED BY <2>2, <3>1, <3>3, <3>4, <1>1
    <2> QED BY <2>1, <2>2, <1>2
  <1>8. ~InC' /\ ~InP' /\ ~InQ'
    BY <1>2, <1>4, <1>5 DEF InC, InP, InQ
  <1>9. SwitchTypes'
    <2>1. performing' \in SUBSET {"CtoP", "PtoD", "halted"}
      BY <1>7 DEF SwitchIInv, SwitchTypes
    <2> QED BY <2>1, <1>2, <1>3, <1>5, <1>6, <1>7
        DEF SwitchIInv, SwitchTypes, Standing, SameWorld
  <1>10. Contents'
    BY <1>2, <1>3, <1>5, <1>6 DEF SwitchIInv, Contents, SameWorld
  <1>11. Marker'
    BY <1>2, <1>3, <1>4, <1>5, <1>6, <1>7, <1>8 DEF SwitchIInv, Marker, SameWorld
  <1>12. Numbers'
    <2>1. InC' \/ InP' \/ InQ' \/ InK' \/ InD' <=> InC \/ InP \/ InQ \/ InK \/ InD
      BY <1>2, <1>3, <1>4, <1>8
    <2>2. passed'["PtoD"] < n /\ (passed'["PtoD"] < Number <=> busy'["PtoD"] # NoBuffer)
      BY <1>1, <1>4, <1>7 DEF SwitchIInv, Numbers
    <2> QED BY <2>1, <2>2, <1>4, <1>5, <1>6, <1>7, <1>8
        DEF SwitchIInv, Numbers, Standing, SameWorld
  <1>13. Room' /\ Counts'
    <2>1. Room'
      BY <1>4, <1>5, <1>6, <1>8 DEF SwitchIInv, Room, Standing, SameWorld
    <2>2. Uncounted' = Uncounted
      BY <1>2 DEF Uncounted
    <2>3. InK' => codec.PassOnAt = codec.Prepared
      BY <1>3 DEF SwitchIInv, Counts
    <2>4. codec'.input = "take" => codec.PassOnAt = codec.Prepared
      BY <1>2 DEF SwitchIInv, Counts
    <2>5. Counts'
      BY <1>2, <1>4, <1>5, <1>6, <1>7, <1>8, <2>2, <2>3, <2>4
      DEF SwitchIInv, Counts, Standing, SameWorld
    <2> QED BY <2>1, <2>5
  <1>14. ParserCall'
    BY <1>2, <1>3, <1>4, <1>5, <1>6, <1>7, <1>8
    DEF SwitchIInv, ParserCall, Standing, SameWorld
  <1>15. CodecCall'
    <2>1. /\ calls["PtoD"] # {} => Sent("PtoD")
          /\ "PtoD" \notin performing /\ "halted" \notin performing
          /\ "halted" \notin performing'
      BY <1>7 DEF SwitchIInv, CodecCall
    <2>2. Has(ParsedFrameRing, "codec") => calls["PtoD"] = {}
      BY DEF SwitchIInv, CodecCall
    <2> QED BY <2>1, <2>2, <1>1, <1>2, <1>3, <1>4, <1>5, <1>6, <1>7
      DEF SwitchIInv, CodecCall, Standing, SameWorld
  <1>16. TimerCall' /\ CompleteCall'
    BY <1>3, <1>5, <1>6, <1>7 DEF SwitchIInv, TimerCall, CompleteCall, SameWorld
  <1>17. Screen'
    BY <1>4, <1>5, <1>6 DEF SwitchIInv, Screen, SameWorld
  <1> QED BY <1>6, <1>9, <1>10, <1>11, <1>12, <1>13, <1>14, <1>15, <1>16, <1>17
      DEF SwitchIInv

LEMMA PassOnCallbackStep ==
  ASSUME SwitchIInv, TestMarkerFramePassOn("callback"), UNCHANGED switch
  PROVE  SwitchIInv'
  <1> DEFINE D == DecodedFrameRing
             n == NextBufferSequenceNumber
             KD == {"frame", "marker", "reset", "timer"}
  <1>2. /\ codec' \in Codecs /\ codec'.decoding = codec.decoding
        /\ codec'.Prepared = codec.Prepared
        /\ codec'.Completed = codec.Completed
        /\ codec'.PassOnAt = codec.PassOnAt
        /\ codec'.input = codec.input /\ codec.callback # "count"
        /\ codec'.callback \in {"idle", "take"} /\ busy' = busy
        /\ codec'.callback = "take" =>
             InK /\ ~InQ /\ codec.Completed >= codec.Prepared
    BY PassOnTells
  <1>3. /\ D' \in Seq(Of(KD)) /\ Line(D', "timer", n, World)
        /\ Has(D', "timer") <=> Has(D, "timer")
        /\ NoOld(D, World) => NoOld(D', World)
        /\ NoNew(D, World) => NoNew(D', World)
        /\ \/ codec'.Marker = codec.Marker /\ (InK' <=> InK) /\ (InD' <=> InD)
           \/ /\ InK /\ ~InC /\ ~InP /\ ~InQ /\ ~InD
              /\ ~InK' /\ InD' /\ codec'.Marker = NoBuffer
              /\ NoOld(codec.decoding, World)
    BY PassOnTells
  <1>5. /\ UNCHANGED <<CollatedFrameRing, ParsedFrameRing, ManifestedBufferRing,
                       shown, busy, seen, calls, passed, performing,
                       CodecReset, LastOneOut, NextBufferSequenceNumber,
                       MarkerInCodedFrameIndex>>
        /\ Standing
    BY <1>2 DEF TestMarkerFramePassOn, Standing, player, input, switch
  <1>6. SameWorld /\ (Out' <=> Out) /\ Thread' /\ Streams'
    BY <1>5, Stands DEF SwitchIInv
  <1>8. (InC' <=> InC) /\ (InP' <=> InP) /\ (InQ' <=> InQ)
    BY <1>2, <1>5 DEF InC, InP, InQ
  <1>9. SwitchTypes'
    BY <1>2, <1>3, <1>5, <1>6 DEF SwitchIInv, SwitchTypes, Standing, SameWorld
  <1>10. Contents'
    BY <1>2, <1>3, <1>5, <1>6 DEF SwitchIInv, Contents, SameWorld
  <1>11. Marker'
    BY <1>2, <1>3, <1>5, <1>6, <1>8 DEF SwitchIInv, Marker, SameWorld
  <1>12. Numbers'
    <2>1. InC' \/ InP' \/ InQ' \/ InK' \/ InD' <=> InC \/ InP \/ InQ \/ InK \/ InD
      BY <1>3, <1>8
    <2> QED BY <2>1, <1>5, <1>6, <1>8
        DEF SwitchIInv, Numbers, Standing, SameWorld
  <1>13. Room' /\ Counts'
    <2>1. Room'
      BY <1>5, <1>6, <1>8 DEF SwitchIInv, Room, Standing, SameWorld
    <2>2. Uncounted' = 0 /\ Uncounted = 0
      BY <1>2 DEF Uncounted
    <2>3. InK' => codec.PassOnAt = codec.Prepared
      BY <1>3 DEF SwitchIInv, Counts
    <2>4. codec'.callback = "take" =>
            /\ ~InC /\ ~InP /\ ~InQ /\ Underway /\ Stream.Codec # Newest
            /\ codec.Completed >= codec.Prepared
      BY <1>2, MarkerIs DEF SwitchIInv, Marker
    <2>5. Counts'
      BY <1>2, <1>5, <1>6, <1>8, <2>2, <2>3, <2>4
      DEF SwitchIInv, Counts, Standing, SameWorld
    <2> QED BY <2>1, <2>5
  <1>14. ParserCall' /\ CodecCall'
    BY <1>2, <1>3, <1>5, <1>6, <1>8
    DEF SwitchIInv, ParserCall, CodecCall, Standing, SameWorld
  <1>16. TimerCall' /\ CompleteCall' /\ Screen'
    BY <1>3, <1>5, <1>6
    DEF SwitchIInv, TimerCall, CompleteCall, Screen, SameWorld
  <1> QED BY <1>6, <1>9, <1>10, <1>11, <1>12, <1>13, <1>14, <1>16
      DEF SwitchIInv

LEMMA CodecArrivesStep ==
  ASSUME SwitchIInv, performing \intersect {"PtoD", "halted"} = {},
         Idle("PtoD"), Arrives("PtoD", passed["PtoD"]),
         Performs("PtoD", IF ArrivedDue("PtoD", passed["PtoD"])
                          THEN {Head(ParsedFrameRing)} ELSE {}),
         UNCHANGED <<SwitchStreamInProgress, CodecReset, LastOneOut>>
  PROVE  SwitchIInv'
  <1> DEFINE P == ParsedFrameRing
             n == NextBufferSequenceNumber
             h == Head(P)
             KP == {"frame", "marker", "codec"}
  <1>1. /\ Number \in Nat /\ n \in Nat /\ P \in Seq(Of(KP))
        /\ World.number = Number /\ World.newest = Newest
        /\ passed["PtoD"] \in Nat
        /\ calls \in [Stages -> SUBSET Of({"parser", "codec", "timer", "complete"})]
        /\ "PtoD" \in Stages /\ "CtoP" \in Stages /\ "DtoM" \in Stages
        /\ "PostM" \in Stages
    BY Basics DEF SwitchIInv, SwitchTypes, Stages
  <1>2. P # <<>> /\ h.kind = "codec" /\ P' = Tail(P)
    BY OneRing DEF Arrives, Messages
  <1>3. /\ Tail(P) \in Seq(Of(KP)) /\ h \in Of(KP)
        /\ Line(Tail(P), "codec", n, World)
        /\ h = TheCall("codec", World) /\ FlagsOfTail(P, World)
        /\ ~Has(Tail(P), "codec") /\ h.seq = Number
    BY <1>1, <1>2, LineTail, Flags DEF SwitchIInv, Contents, TheCall, Buffer
  <1>4. /\ Has(P, "codec") /\ Sent("PtoD") /\ Stream.Codec # Newest
        /\ calls["PtoD"] = {} /\ Underway
    <2>1. Has(P, "codec")
      BY <1>2, <1>3 DEF FlagsOfTail
    <2> QED BY <2>1 DEF SwitchIInv, CodecCall, Sent
  <1>5. /\ UNCHANGED <<CollatedFrameRing, DecodedFrameRing,
                       ManifestedBufferRing, shown, codec, busy, seen,
                       CodecReset, LastOneOut, NextBufferSequenceNumber,
                       MarkerInCodedFrameIndex, passed>>
        /\ Standing
    <2>1. UNCHANGED <<CollatedFrameRing, DecodedFrameRing, ManifestedBufferRing>>
      BY OneRing DEF Arrives
    <2> QED BY <2>1 DEF Arrives, Standing, processes, player, input
  <1>6. \/ /\ passed["PtoD"] >= Number /\ calls' = calls
           /\ performing' = performing \cup {"PtoD"}
        \/ /\ passed["PtoD"] < Number /\ performing' = performing
           /\ calls' = [calls EXCEPT !["PtoD"] = {TheCall("codec", World)}]
    <2>1. ArrivedDue("PtoD", passed["PtoD"]) <=> Number <= passed["PtoD"]
      BY <1>3 DEF ArrivedDue, Ring
    <2>2. CASE Number <= passed["PtoD"]
      <3>1. calls' = calls
        BY <2>2, <1>3 DEF Arrives, Ring
      <3>2. performing' = performing \cup {"PtoD"}
        BY <2>1, <2>2 DEF Performs
      <3> QED BY <2>2, <3>1, <3>2, <1>1
    <2>3. CASE ~(Number <= passed["PtoD"])
      <3>1. calls' = [calls EXCEPT !["PtoD"] = @ \union {h}]
        BY <2>3, <1>3 DEF Arrives, Ring
      <3>2. calls' = [calls EXCEPT !["PtoD"] = {TheCall("codec", World)}]
        BY <3>1, <1>1, <1>3, <1>4
      <3>3. performing' = performing
        BY <2>1, <2>3 DEF Performs
      <3> QED BY <2>3, <3>2, <3>3, <1>1
    <2> QED BY <2>2, <2>3
  <1>7. SameWorld /\ (Out' <=> Out) /\ Thread' /\ Streams'
    BY <1>5, Stands DEF SwitchIInv
  <1>8. /\ MarkerStays /\ ~Has(P', "codec")
        /\ NoOld(P, World) => NoOld(P', World)
        /\ NoNew(P, World) => NoNew(P', World)
    BY <1>2, <1>3, <1>5 DEF FlagsOfTail, MarkerStays, InC, InP, InQ, InK, InD
  <1>9. /\ calls' \in [Stages -> SUBSET Of({"parser", "codec", "timer", "complete"})]
        /\ calls'["CtoP"] = calls["CtoP"] /\ calls'["DtoM"] = calls["DtoM"]
        /\ calls'["PostM"] = calls["PostM"]
        /\ \/ /\ passed["PtoD"] >= Number /\ calls'["PtoD"] = {}
              /\ performing' = performing \cup {"PtoD"}
           \/ /\ passed["PtoD"] < Number /\ performing' = performing
              /\ calls'["PtoD"] = {TheCall("codec", World)}
    <2>1. TheCall("codec", World) \in Of({"parser", "codec", "timer", "complete"})
      BY <1>2, <1>3 DEF Of
    <2> QED BY <2>1, <1>1, <1>4, <1>6
  <1>10. SwitchTypes'
    <2>1. performing' \in SUBSET {"CtoP", "PtoD", "halted"}
      BY <1>9 DEF SwitchIInv, SwitchTypes
    <2> QED BY <2>1, <1>2, <1>3, <1>5, <1>7, <1>9
        DEF SwitchIInv, SwitchTypes, Standing, SameWorld
  <1>11. Contents' /\ Marker' /\ Numbers'
    <2>1. Contents'
      BY <1>2, <1>3, <1>5, <1>7 DEF SwitchIInv, Contents, SameWorld
    <2>2. Marker'
      BY <1>5, <1>7, <1>8 DEF SwitchIInv, Marker, SameWorld, MarkerStays
    <2>3. Numbers'
      BY <1>5, <1>7, <1>8 DEF SwitchIInv, Numbers, Standing, SameWorld, MarkerStays
    <2> QED BY <2>1, <2>2, <2>3
  <1>12. Room' /\ Counts'
    BY <1>5, <1>7, <1>8
    DEF SwitchIInv, Room, Counts, Uncounted, Standing, SameWorld, MarkerStays
  <1>13. ParserCall'
    BY <1>5, <1>7, <1>8, <1>9
    DEF SwitchIInv, ParserCall, Standing, SameWorld, MarkerStays
  <1>14. CodecCall'
    <2>1. "PtoD" \notin performing /\ "halted" \notin performing
      OBVIOUS
    <2>2. /\ "halted" \notin performing' /\ (CodecReset' <=> CodecReset)
          /\ Stream' = Stream
      BY <2>1, <1>5, <1>9 DEF Standing
    <2>3. CASE /\ passed["PtoD"] >= Number /\ calls'["PtoD"] = {}
               /\ performing' = performing \cup {"PtoD"}
      <3>1. "PtoD" \in performing' /\ performing' \cap {"PtoD", "halted"} # {}
        BY <2>3
      <3> QED BY <2>1, <2>2, <2>3, <3>1, <1>4, <1>5, <1>7, <1>8
        DEF SwitchIInv, CodecCall, SameWorld
    <2>4. CASE /\ passed["PtoD"] < Number /\ performing' = performing
               /\ calls'["PtoD"] = {TheCall("codec", World)}
      BY <2>1, <2>2, <2>4, <1>4, <1>5, <1>7, <1>8
        DEF SwitchIInv, CodecCall, SameWorld
    <2> QED BY <2>3, <2>4, <1>9
  <1>15. TimerCall' /\ CompleteCall' /\ Screen'
    BY <1>4, <1>5, <1>7, <1>9
    DEF SwitchIInv, TimerCall, CompleteCall, Screen, SameWorld
  <1> QED BY <1>7, <1>10, <1>11, <1>12, <1>13, <1>14, <1>15 DEF SwitchIInv

LEMMA SwitchCodecHaltsStep ==
  ASSUME SwitchIInv, SwitchesAlone, SwitchCodecHalts
  PROVE  SwitchIInv'
  <1>1. /\ "PtoD" \in performing /\ LastOneOut
        /\ codec.decoding = <<>> /\ codec.callback # "count"
        /\ performing' = (performing \ {"PtoD"}) \cup {"halted"}
        /\ CodecReset' = TRUE
    BY DEF SwitchCodecHalts, LastDecodeIsOut, SwitchesAlone
  <1>2. /\ UNCHANGED <<CollatedFrameRing, ParsedFrameRing, DecodedFrameRing,
                       ManifestedBufferRing, shown, codec, busy, seen, calls,
                       passed, LastOneOut, NextBufferSequenceNumber,
                       MarkerInCodedFrameIndex>>
        /\ Standing
    BY DEF SwitchCodecHalts, Standing, vars, rings, processes, player, input
  <1>3. /\ Sent("PtoD") /\ Stream.Codec # Newest /\ passed["PtoD"] >= Number
        /\ Underway /\ Out
    <2>1. Sent("PtoD") /\ Stream.Codec # Newest /\ passed["PtoD"] >= Number
      BY <1>1 DEF SwitchIInv, CodecCall
    <2> QED BY <2>1, <1>1 DEF Sent, Before, Out
  <1>4. SameWorld /\ (Out' <=> Out) /\ Thread' /\ Streams'
    BY <1>2, Stands DEF SwitchIInv
  <1>5. MarkerStays
    BY <1>2 DEF MarkerStays, InC, InP, InQ, InK, InD
  <1>6. SwitchTypes'
    <2>1. performing' \in SUBSET {"CtoP", "PtoD", "halted"}
      BY <1>1 DEF SwitchIInv, SwitchTypes
    <2> QED BY <2>1, <1>1, <1>2, <1>4
        DEF SwitchIInv, SwitchTypes, Standing, SameWorld
  <1>7. Contents' /\ Marker' /\ Numbers' /\ Room' /\ Counts'
    BY <1>2, <1>4, <1>5
    DEF SwitchIInv, Contents, Marker, Numbers, Room, Counts, Uncounted, Standing,
        SameWorld, MarkerStays
  <1>8. ParserCall'
    BY <1>1, <1>2, <1>4, <1>5
    DEF SwitchIInv, ParserCall, Standing, SameWorld, MarkerStays
  <1>9. CodecCall'
    <2>1. ~Has(ParsedFrameRing, "codec") /\ calls["PtoD"] = {}
      BY <1>1 DEF SwitchIInv, CodecCall
    <2>2. "PtoD" \notin performing' /\ "halted" \in performing'
      BY <1>1
    <2> QED BY <2>1, <2>2, <1>1, <1>2, <1>3, <1>4
        DEF SwitchIInv, CodecCall, Standing, SameWorld
  <1>10. TimerCall' /\ CompleteCall' /\ Screen'
    BY <1>2, <1>3, <1>4
    DEF SwitchIInv, TimerCall, CompleteCall, Screen, SameWorld
  <1> QED BY <1>4, <1>6, <1>7, <1>8, <1>9, <1>10 DEF SwitchIInv

LEMMA SwitchCodecStep ==
  ASSUME SwitchIInv, SwitchCodec
  PROVE  SwitchIInv'
  <1>1. /\ Stream \in [Collator : Nat, FrameParser : Nat, Codec : Nat]
        /\ Stream' = [Stream EXCEPT !.Codec = Stream.Collator]
        /\ "halted" \in performing /\ performing' = performing \ {"halted"}
        /\ UNCHANGED <<CollatedFrameRing, ParsedFrameRing, DecodedFrameRing,
                       ManifestedBufferRing, shown, busy, seen,
                       NextBufferSequenceNumber, MarkerInCodedFrameIndex,
                       calls, passed, CodecReset, LastOneOut>>
        /\ UNCHANGED <<drainer, drains, frames, switcher,
                       SwitchStreamInProgress, streamOf>>
    BY DEF SwitchCodec, SwitchIInv, SwitchTypes, rings, processes, player, input
  <1>2. /\ Stream'.Collator = Stream.Collator
        /\ Stream'.FrameParser = Stream.FrameParser
        /\ Stream'.Codec = Stream.Collator
        /\ Stream' \in [Collator : Nat, FrameParser : Nat, Codec : Nat]
    BY <1>1
  <1>3. /\ codec'.decoding = <<>> /\ codec'.Prepared = 0 /\ codec'.Completed = 0
        /\ codec'.Marker = NoBuffer /\ codec'.input = "idle"
        /\ codec'.callback = "idle" /\ codec'.PassOnAt = 0 /\ codec' \in Codecs
    <2>1. <<>> \in Seq(Of({"frame"}))
      OBVIOUS
    <2> QED BY <2>1 DEF SwitchCodec, Codecs, CodecCalls, MarkerOrNone
  <1>4. /\ Sent("PtoD") /\ Underway /\ Out /\ passed["PtoD"] >= Number
        /\ "PtoD" \notin performing /\ Number \in Nat /\ passed["PtoD"] \in Nat
        /\ ~(passed["PtoD"] < Number)
    <2>1. /\ Sent("PtoD") /\ Out /\ passed["PtoD"] >= Number
          /\ "PtoD" \notin performing /\ Underway
      BY <1>1 DEF SwitchIInv, CodecCall, Sent
    <2>2. Number \in Nat /\ passed["PtoD"] \in Nat
      BY Basics DEF SwitchIInv, SwitchTypes
    <2> QED BY <2>1, <2>2
  <1>5. /\ busy["PtoD"] = NoBuffer /\ codec.input = "idle"
        /\ ~InC /\ ~InP /\ ~InQ /\ ~InK /\ ~InD
    BY <1>4, NothingUpstream DEF SwitchIInv, Numbers, Counts
  <1>6. Stream.Collator = Newest
    <2>1. switcher # "drain"
      BY <1>4 DEF Sent, Before
    <2> QED BY <2>1 DEF SwitchIInv, Thread, Newest, Preparing
  <1>7. SameWorld /\ (Out' <=> Out) /\ Thread' /\ Streams'
    BY <1>1, <1>2, StandsBut DEF SwitchIInv
  <1>8. ~InC' /\ ~InP' /\ ~InQ' /\ ~InK' /\ ~InD'
    BY <1>1, <1>3, <1>5 DEF InC, InP, InQ, InK, InD
  <1>9. SwitchTypes'
    <2>1. performing' \in SUBSET {"CtoP", "PtoD", "halted"}
      BY <1>1 DEF SwitchIInv, SwitchTypes
    <2> QED BY <2>1, <1>1, <1>2, <1>3, <1>7 DEF SwitchIInv, SwitchTypes, SameWorld
  <1>10. /\ Line(<<>>, "codec", NextBufferSequenceNumber, World)
         /\ NoOld(<<>>, World) /\ NoNew(<<>>, World)
    BY NothingIn
  <1>11. Contents' /\ Marker' /\ Numbers'
    <2>1. Contents'
      BY <1>1, <1>3, <1>7, <1>10 DEF SwitchIInv, Contents, SameWorld
    <2>2. Marker'
      BY <1>1, <1>3, <1>5, <1>7, <1>8, <1>10 DEF SwitchIInv, Marker, SameWorld
    <2>3. Numbers'
      BY <1>1, <1>5, <1>7, <1>8 DEF SwitchIInv, Numbers, SameWorld
    <2> QED BY <2>1, <2>2, <2>3
  <1>12. Room' /\ Counts'
    <2>1. Room'
      BY <1>1, <1>5, <1>7, <1>8 DEF SwitchIInv, Room, SameWorld
    <2>2. Len(<<>>) = 0 /\ Uncounted' = 0
      BY <1>3, EmptySeq DEF Uncounted
    <2>3. Counts'
      BY <1>1, <1>3, <1>5, <1>8, <2>2 DEF Counts
    <2> QED BY <2>1, <2>3
  <1>13. ParserCall'
    BY <1>1, <1>2, <1>3, <1>5, <1>7, <1>8, <1>10
    DEF SwitchIInv, ParserCall, SameWorld
  <1>14. CodecCall'
    <2>1. ~Has(ParsedFrameRing, "codec") /\ calls["PtoD"] = {} /\ CodecReset
      BY <1>1, <1>4 DEF SwitchIInv, CodecCall
    <2> QED BY <2>1, <1>1, <1>2, <1>4, <1>6, <1>7
        DEF SwitchIInv, CodecCall, SameWorld
  <1>15. TimerCall' /\ CompleteCall' /\ Screen'
    BY <1>1, <1>4, <1>7
    DEF SwitchIInv, TimerCall, CompleteCall, Screen, SameWorld
  <1> QED BY <1>7, <1>9, <1>11, <1>12, <1>13, <1>14, <1>15 DEF SwitchIInv

LEMMA DecodeCompletesStep ==
  ASSUME SwitchIInv, DecodeCompletes, UNCHANGED switch
  PROVE  SwitchIInv'
  <1> DEFINE Q == codec.decoding
             D == DecodedFrameRing
             n == NextBufferSequenceNumber
             h == Head(Q)
             KD == {"frame", "marker", "reset", "timer"}
  <1>1. /\ Number \in Nat /\ n \in Nat /\ D \in Seq(Of(KD)) /\ codec \in Codecs
        /\ Q \in Seq(Of({"frame"})) /\ World.number = Number
        /\ codec.Prepared \in Nat /\ codec.Completed \in Nat
        /\ Line(D, "timer", n, World) /\ Line(Q, "codec", n, World)
    BY Basics DEF SwitchIInv, SwitchTypes, Codecs, Contents
  <1>2. /\ Q # <<>> /\ codec.callback = "idle"
        /\ codec' = [codec EXCEPT !.decoding = Tail(@), !.callback = "count"]
        /\ D' = D \/ D' = Append(D, h)
    BY DEF DecodeCompletes
  <1>3. /\ Tail(Q) \in Seq(Of({"frame"})) /\ h \in Of({"frame"})
        /\ Len(Q) \in Nat /\ Len(Tail(Q)) \in Nat /\ Len(Q) = Len(Tail(Q)) + 1
        /\ Line(Tail(Q), "codec", n, World) /\ InWorld(h, World)
        /\ Beside(h, World)
        /\ h.kind \in {"frame", "marker"} => h.seq < n
        /\ FlagsOfTail(Q, World)
    BY <1>1, <1>2, LineTail, Flags
  <1>4. /\ codec'.decoding = Tail(Q) /\ codec'.callback = "count"
        /\ codec'.Prepared = codec.Prepared /\ codec'.Completed = codec.Completed
        /\ codec'.Marker = codec.Marker /\ codec'.PassOnAt = codec.PassOnAt
        /\ codec'.input = codec.input /\ codec' \in Codecs
    BY <1>1, <1>2, <1>3 DEF Codecs
  <1>5. /\ UNCHANGED <<CollatedFrameRing, ParsedFrameRing, ManifestedBufferRing,
                       shown, busy, seen, calls, passed, performing,
                       CodecReset, LastOneOut, NextBufferSequenceNumber,
                       MarkerInCodedFrameIndex>>
        /\ Standing
    BY DEF DecodeCompletes, Standing, processes, player, switch
  <1>6. SameWorld /\ (Out' <=> Out) /\ Thread' /\ Streams'
    BY <1>5, Stands DEF SwitchIInv
  <1>7. /\ D' \in Seq(Of(KD)) /\ Line(D', "timer", n, World)
        /\ (InD' <=> InD) /\ (Has(D', "timer") <=> Has(D, "timer"))
        /\ NoOld(D', World) <=> NoOld(D, World) /\ (D' = D \/ ~Old(h, World))
        /\ NoNew(D', World) <=> NoNew(D, World) /\ (D' = D \/ ~New(h, World))
    <2>1. CASE D' = D
      BY <2>1, <1>1 DEF InD
    <2>2. CASE D' = Append(D, h)
      <3>1. h \in Of(KD) /\ h.kind = "frame" /\ h.seq < n
        BY <1>3 DEF Of
      <3>2. Has(D, "marker") => ~Old(h, World)
        <4>1. InD => NoOld(Q, World)
          BY DEF SwitchIInv, Marker
        <4> QED BY <4>1, <1>3 DEF FlagsOfTail, InD
      <3>3. Append(D, h) \in Seq(Of(KD)) /\ Line(Append(D, h), "timer", n, World)
        BY <1>1, <1>3, <3>1, <3>2, LineAppend
      <3>4. FlagsOfAppend(D, h, World)
        BY <1>1, <3>1, Flags
      <3>5. (InD' <=> InD) /\ (Has(D', "timer") <=> Has(D, "timer"))
        BY <2>2, <3>1, <3>4 DEF FlagsOfAppend, InD
      <3>6. /\ NoOld(D', World) <=> NoOld(D, World) /\ (D' = D \/ ~Old(h, World))
            /\ NoNew(D', World) <=> NoNew(D, World) /\ (D' = D \/ ~New(h, World))
        <4>1. D' # D
          <5>1. Len(D) \in Nat /\ Len(D') = Len(D) + 1
            BY <2>2, <3>1, <1>1, AppendIs
          <5> QED BY <5>1
        <4> QED BY <2>2, <3>4, <4>1 DEF FlagsOfAppend
      <3> QED BY <2>2, <3>3, <3>5, <3>6
    <2> QED BY <1>2, <2>1, <2>2
  <1>8. MarkerStays
    BY <1>4, <1>5, <1>7 DEF MarkerStays, InC, InP, InQ, InK
  <1>9. /\ NoOld(Q, World) => NoOld(codec'.decoding, World) /\ ~Old(h, World)
        /\ NoNew(Q, World) => NoNew(codec'.decoding, World) /\ ~New(h, World)
    BY <1>3, <1>4 DEF FlagsOfTail
  <1>10. SwitchTypes'
    BY <1>4, <1>5, <1>6, <1>7 DEF SwitchIInv, SwitchTypes, Standing, SameWorld
  <1>11. Contents'
    BY <1>3, <1>4, <1>5, <1>6, <1>7 DEF SwitchIInv, Contents, SameWorld
  <1>12. Marker'
    BY <1>4, <1>5, <1>6, <1>7, <1>8, <1>9
    DEF SwitchIInv, Marker, SameWorld, MarkerStays
  <1>13. Numbers'
    BY <1>5, <1>6, <1>8 DEF SwitchIInv, Numbers, Standing, SameWorld, MarkerStays
  <1>14. Room' /\ Counts'
    <2>1. Room'
      BY <1>5, <1>6, <1>8 DEF SwitchIInv, Room, Standing, SameWorld, MarkerStays
    <2>2. Uncounted' = 1 /\ Uncounted = 0
      BY <1>2, <1>4 DEF Uncounted
    <2>3. codec'.Prepared = codec'.Completed + Len(codec'.decoding) + Uncounted'
      BY <2>2, <1>1, <1>3, <1>4 DEF SwitchIInv, Counts
    <2>4. Counts'
      BY <2>3, <1>4, <1>5, <1>6, <1>8
      DEF SwitchIInv, Counts, Standing, SameWorld, MarkerStays
    <2> QED BY <2>1, <2>4
  <1>15. ParserCall'
    BY <1>5, <1>6, <1>7, <1>8, <1>9
    DEF SwitchIInv, ParserCall, Standing, SameWorld, MarkerStays
  <1>16. CodecCall'
    BY <1>2, <1>5, <1>6, <1>7, <1>9
    DEF SwitchIInv, CodecCall, Standing, SameWorld
  <1>17. TimerCall' /\ CompleteCall' /\ Screen'
    BY <1>5, <1>6, <1>7
    DEF SwitchIInv, TimerCall, CompleteCall, Screen, SameWorld
  <1> QED BY <1>6, <1>10, <1>11, <1>12, <1>13, <1>14, <1>15, <1>16, <1>17
      DEF SwitchIInv

LEMMA CallbackCountsStep ==
  ASSUME SwitchIInv, CallbackCounts, UNCHANGED switch
  PROVE  SwitchIInv'
  <1>1. /\ codec \in Codecs /\ codec.Prepared \in Nat /\ codec.Completed \in Nat
        /\ Len(codec.decoding) \in Nat /\ codec.callback = "count"
        /\ codec' = [codec EXCEPT !.Completed = codec.Completed + 1,
                                  !.callback = "test"]
    BY LenProperties DEF SwitchIInv, SwitchTypes, Codecs, CallbackCounts, Counted
  <1>2. /\ codec'.decoding = codec.decoding /\ codec'.callback = "test"
        /\ codec'.Prepared = codec.Prepared
        /\ codec'.Completed = codec.Completed + 1
        /\ codec'.Marker = codec.Marker /\ codec'.PassOnAt = codec.PassOnAt
        /\ codec'.input = codec.input /\ codec' \in Codecs
    <2>1. codec.Completed + 1 \in Nat
      BY <1>1
    <2>2. codec' \in Codecs
      BY <1>1, <2>1 DEF Codecs
    <2> QED BY <1>1, <2>2 DEF Codecs
  <1>3. /\ UNCHANGED <<CollatedFrameRing, ParsedFrameRing, DecodedFrameRing,
                       ManifestedBufferRing, shown, busy, seen, calls, passed,
                       performing, CodecReset, LastOneOut,
                       NextBufferSequenceNumber, MarkerInCodedFrameIndex>>
        /\ Standing
    BY DEF CallbackCounts, Standing, rings, processes, player, input, switch
  <1>4. SameWorld /\ (Out' <=> Out) /\ Thread' /\ Streams'
    BY <1>3, Stands DEF SwitchIInv
  <1>5. MarkerStays
    BY <1>2, <1>3 DEF MarkerStays, InC, InP, InQ, InK, InD
  <1>6. SwitchTypes' /\ Contents'
    <2>1. SwitchTypes'
      BY <1>2, <1>3, <1>4 DEF SwitchIInv, SwitchTypes, Standing, SameWorld
    <2> QED BY <2>1, <1>2, <1>3, <1>4 DEF SwitchIInv, Contents, SameWorld
  <1>7. Marker' /\ Numbers' /\ Room'
    BY <1>2, <1>3, <1>4, <1>5
    DEF SwitchIInv, Marker, Numbers, Room, Standing, SameWorld, MarkerStays
  <1>8. Counts'
    <2>1. Uncounted' = 0 /\ Uncounted = 1
      BY <1>1, <1>2 DEF Uncounted
    <2>2. codec.Prepared = codec.Completed + Len(codec.decoding) + 1
      BY <2>1 DEF SwitchIInv, Counts
    <2>3. codec'.Prepared = codec'.Completed + Len(codec'.decoding) + Uncounted'
      BY <2>1, <2>2, <1>1, <1>2
    <2>4. codec'.input = "take" \/ codec'.callback = "take" => codec.input = "take"
      BY <1>2
    <2>5. codec.input = "take" => codec.Completed + 1 >= codec.Prepared
      BY <1>1 DEF SwitchIInv, Counts
    <2> QED BY <2>3, <2>4, <2>5, <1>2, <1>3, <1>4, <1>5
        DEF SwitchIInv, Counts, Standing, SameWorld, MarkerStays
  <1>9. ParserCall' /\ CodecCall'
    BY <1>1, <1>2, <1>3, <1>4, <1>5
    DEF SwitchIInv, ParserCall, CodecCall, Standing, SameWorld, MarkerStays
  <1>10. TimerCall' /\ CompleteCall' /\ Screen'
    BY <1>3, <1>4
    DEF SwitchIInv, TimerCall, CompleteCall, Screen, SameWorld
  <1> QED BY <1>4, <1>6, <1>7, <1>8, <1>9, <1>10 DEF SwitchIInv

LEMMA ShowStep ==
  ASSUME SwitchIInv, Show, UNCHANGED switch
  PROVE  SwitchIInv'
  <1> DEFINE M == ManifestedBufferRing
             n == NextBufferSequenceNumber
             h == Head(shown)
             KM == {"frame", "marker", "drained", "complete"}
  <1>1. /\ Number \in Nat /\ n \in Nat /\ M \in Seq(Of(KM))
        /\ shown \in Seq(Of({"frame"})) /\ World.number = Number
        /\ OnScreen(M, n, World) /\ OnScreen(shown, n, World)
    BY Basics DEF SwitchIInv, SwitchTypes, Contents
  <1>2. shown # <<>> /\ shown' = Tail(shown) /\ M' = Append(M, h)
    BY DEF Show
  <1>3. /\ Tail(shown) \in Seq(Of({"frame"})) /\ h \in Of({"frame"})
        /\ OnScreen(Tail(shown), n, World) /\ InWorld(h, World)
        /\ Beside(h, World)
        /\ h.kind \in {"frame", "marker"} => h.seq < n
        /\ New(h, World) => NoOld(Tail(shown), World)
        /\ FlagsOfTail(shown, World)
    BY <1>1, <1>2, ScreenTail, Flags
  <1>4. h.kind = "frame" /\ h.seq < n /\ h \in Of(KM)
    BY <1>3 DEF Of
  <1>5. /\ M' \in Seq(Of(KM)) /\ OnScreen(M', n, World) /\ FlagsOfAppend(M, h, World)
    <2>1. NoNew(M, World) \/ ~Old(h, World)
      BY <1>3 DEF SwitchIInv, Screen, FlagsOfTail
    <2>2. Append(M, h) \in Seq(Of(KM)) /\ OnScreen(Append(M, h), n, World)
      BY <1>1, <1>3, <1>4, <2>1, ScreenAppend
    <2> QED BY <1>1, <1>2, <1>4, <2>2, Flags
  <1>6. /\ UNCHANGED <<CollatedFrameRing, ParsedFrameRing, DecodedFrameRing,
                       codec, busy, seen, calls, passed, performing,
                       CodecReset, LastOneOut, NextBufferSequenceNumber,
                       MarkerInCodedFrameIndex>>
        /\ Standing
    BY DEF Show, Standing, processes, player, input, switch
  <1>7. SameWorld /\ (Out' <=> Out) /\ Thread' /\ Streams'
    BY <1>6, Stands DEF SwitchIInv
  <1>8. /\ MarkerStays
        /\ Has(M', "complete") <=> Has(M, "complete")
        /\ NoOld(shown, World) => NoOld(shown', World)
        /\ NoNew(shown, World) => NoNew(shown', World)
        /\ NoOld(M, World) /\ NoOld(shown, World) => NoOld(M', World)
        /\ NoNew(M, World) /\ NoNew(shown, World) => NoNew(M', World)
        /\ NoNew(M', World) \/ NoOld(shown', World)
    <2>1. MarkerStays
      BY <1>6 DEF MarkerStays, InC, InP, InQ, InK, InD
    <2>2. NoNew(M, World) \/ NoOld(shown, World)
      BY DEF SwitchIInv, Screen
    <2> QED BY <2>1, <2>2, <1>2, <1>3, <1>4, <1>5 DEF FlagsOfTail, FlagsOfAppend
  <1>9. SwitchTypes' /\ Contents'
    <2>1. SwitchTypes'
      BY <1>2, <1>3, <1>5, <1>6, <1>7
      DEF SwitchIInv, SwitchTypes, Standing, SameWorld
    <2> QED BY <2>1, <1>2, <1>3, <1>5, <1>6, <1>7
        DEF SwitchIInv, Contents, SameWorld
  <1>10. Marker' /\ Numbers' /\ Room' /\ Counts'
    BY <1>6, <1>7, <1>8
    DEF SwitchIInv, Marker, Numbers, Room, Counts, Uncounted, Standing, SameWorld,
        MarkerStays
  <1>11. ParserCall' /\ CodecCall'
    BY <1>6, <1>7, <1>8
    DEF SwitchIInv, ParserCall, CodecCall, Standing, SameWorld, MarkerStays
  <1>12. TimerCall' /\ CompleteCall' /\ Screen'
    BY <1>6, <1>7, <1>8
    DEF SwitchIInv, TimerCall, CompleteCall, Screen, SameWorld
  <1> QED BY <1>7, <1>9, <1>10, <1>11, <1>12 DEF SwitchIInv

LEMMA DtoMFrameStep ==
  ASSUME SwitchIInv, DtoMFrame,
         EventAt(DueCalls("DtoM", Head(DecodedFrameRing).seq)),
         calls' = [calls EXCEPT !["DtoM"] =
                     @ \ DueCalls("DtoM", Head(DecodedFrameRing).seq)],
         UNCHANGED <<SwitchStreamInProgress, CodecReset, switcher, Stream,
                     passed, performing, streamOf>>
  PROVE  SwitchIInv'
  <1> DEFINE D == DecodedFrameRing
             n == NextBufferSequenceNumber
             h == Head(D)
             KD == {"frame", "marker", "reset", "timer"}
  <1>1. /\ Number \in Nat /\ n \in Nat /\ D \in Seq(Of(KD))
        /\ shown \in Seq(Of({"frame"})) /\ World.number = Number
        /\ Line(D, "timer", n, World) /\ OnScreen(shown, n, World)
        /\ seen \in [{"DtoM", "PostM"} -> Nat]
        /\ calls \in [Stages -> SUBSET Of({"parser", "codec", "timer", "complete"})]
        /\ LastOneOut \in BOOLEAN
    BY Basics DEF SwitchIInv, SwitchTypes, Contents
  <1>2. /\ D # <<>> /\ D' = Tail(D) /\ h.kind = "frame"
        /\ shown' = shown \/ shown' = Append(shown, h)
        /\ Sees("DtoM", h.seq)
    BY DEF DtoMFrame
  <1>3. /\ Tail(D) \in Seq(Of(KD)) /\ h \in Of(KD) /\ Line(Tail(D), "timer", n, World)
        /\ InWorld(h, World) /\ Beside(h, World) /\ h.seq < n /\ h.seq \in Nat
        /\ FlagsOfTail(D, World) /\ h \in Of({"frame"})
    <2>1. /\ Tail(D) \in Seq(Of(KD)) /\ h \in Of(KD)
          /\ Line(Tail(D), "timer", n, World)
          /\ InWorld(h, World) /\ Beside(h, World)
          /\ h.kind \in {"frame", "marker"} => h.seq < n
          /\ FlagsOfTail(D, World)
      BY <1>1, <1>2, LineTail, Flags
    <2> QED BY <2>1, <1>2 DEF Of
  <1>4. /\ Old(h, World) \/ New(h, World)
        /\ Old(h, World) =>
             /\ InC \/ InP \/ InQ \/ InK \/ InD
             /\ h.seq < Number /\ seen["DtoM"] < Number
             /\ NoNew(shown, World) /\ NoNew(ManifestedBufferRing, World)
             /\ Underway
        /\ New(h, World) =>
             /\ Stream.FrameParser = Newest /\ Stream.Codec = Newest
             /\ Out /\ ~(seen["DtoM"] < Number)
    <2>1. Old(h, World) \/ New(h, World)
      BY <1>2 DEF Old, New
    <2>2. ASSUME Old(h, World)
          PROVE  /\ InC \/ InP \/ InQ \/ InK \/ InD
                 /\ h.seq < Number /\ seen["DtoM"] < Number
                 /\ NoNew(shown, World) /\ NoNew(ManifestedBufferRing, World)
                 /\ Underway
      <3>1. InC \/ InP \/ InQ \/ InK \/ InD
        BY <2>2, <1>3 DEF FlagsOfTail, SwitchIInv, Marker
      <3>2. h.seq < Number
        BY <2>2, <1>1, <1>3 DEF Beside
      <3>3. seen["DtoM"] < Number
        BY <3>1 DEF SwitchIInv, Numbers
      <3> QED BY <3>1, <3>2, <3>3, MarkerIs
    <2>3. ASSUME New(h, World)
          PROVE  /\ Stream.FrameParser = Newest /\ Stream.Codec = Newest
                 /\ Out /\ ~(seen["DtoM"] < Number)
      <3>1. ~NoNew(D, World)
        BY <2>3, <1>3 DEF FlagsOfTail
      <3>2. Stream.FrameParser = Newest /\ Stream.Codec = Newest
        BY <3>1 DEF SwitchIInv, ParserCall, CodecCall
      <3>3. Out
        BY <3>2 DEF SwitchIInv, ParserCall
      <3>4. ~(InC \/ InP \/ InQ \/ InK \/ InD)
        BY <3>3, NothingUpstream
      <3> QED BY <3>2, <3>3, <3>4 DEF SwitchIInv, Numbers
    <2> QED BY <2>1, <2>2, <2>3
  <1>5. DueCalls("DtoM", h.seq) = {}
    <2>1. CASE calls["DtoM"] = {}
      BY <2>1 DEF DueCalls
    <2>2. CASE calls["DtoM"] # {}
      <3>1. /\ calls["DtoM"] \subseteq {TheCall("timer", World)}
            /\ seen["DtoM"] < Number
        BY <2>2 DEF SwitchIInv, TimerCall
      <3>2. TheCall("timer", World).seq = Number
        BY <1>1 DEF TheCall, Buffer
      <3>3. h.seq < Number
        BY <3>1, <1>4
      <3> QED BY <3>1, <3>2, <3>3, <1>1, <1>3 DEF DueCalls
    <2> QED BY <2>1, <2>2
  <1>6. /\ UNCHANGED <<CollatedFrameRing, ParsedFrameRing, ManifestedBufferRing,
                       codec, busy, calls, passed, performing, CodecReset,
                       LastOneOut, NextBufferSequenceNumber,
                       MarkerInCodedFrameIndex>>
        /\ Standing
    <2>1. calls' = calls /\ LastOneOut' = LastOneOut
      BY <1>1, <1>5 DEF EventAt
    <2> QED BY <2>1 DEF DtoMFrame, Standing, player
  <1>7. /\ seen' \in [{"DtoM", "PostM"} -> Nat] /\ seen'["PostM"] = seen["PostM"]
        /\ seen'["DtoM"] < Number <=> seen["DtoM"] < Number
        /\ seen'["DtoM"] >= Number <=> seen["DtoM"] >= Number
        /\ seen'["DtoM"] < n
    <2>1. seen["DtoM"] < n /\ seen["DtoM"] \in Nat
      BY <1>1 DEF SwitchIInv, Numbers
    <2>2. /\ seen' \in [{"DtoM", "PostM"} -> Nat]
          /\ seen'["PostM"] = seen["PostM"]
          /\ seen'["DtoM"] = IF h.seq > seen["DtoM"] THEN h.seq ELSE seen["DtoM"]
      BY <1>1, <1>2, <1>3 DEF Sees
    <2>3. seen["DtoM"] < Number => h.seq < Number
      BY <1>4
    <2> QED BY <2>1, <2>2, <2>3, <1>1, <1>3
  <1>8. SameWorld /\ (Out' <=> Out) /\ Thread' /\ Streams'
    BY <1>6, Stands DEF SwitchIInv
  <1>9. /\ shown' \in Seq(Of({"frame"})) /\ OnScreen(shown', n, World)
        /\ NoOld(shown, World) /\ ~Old(h, World) => NoOld(shown', World)
        /\ NoNew(shown, World) /\ ~New(h, World) => NoNew(shown', World)
    <2>1. CASE shown' = shown
      BY <2>1, <1>1
    <2>2. CASE shown' = Append(shown, h)
      <3>1. NoNew(shown, World) \/ ~Old(h, World)
        BY <1>4
      <3>2. /\ Append(shown, h) \in Seq(Of({"frame"}))
            /\ OnScreen(Append(shown, h), n, World)
        BY <1>1, <1>2, <1>3, <3>1, ScreenAppend
      <3>3. FlagsOfAppend(shown, h, World)
        BY <1>1, <1>3, Flags
      <3> QED BY <2>2, <3>2, <3>3 DEF FlagsOfAppend
    <2> QED BY <1>2, <2>1, <2>2
  <1>10. /\ MarkerStays /\ (Has(D', "timer") <=> Has(D, "timer"))
         /\ NoOld(D, World) => NoOld(D', World)
         /\ NoNew(D, World) => NoNew(D', World) /\ ~New(h, World)
    BY <1>2, <1>3, <1>6 DEF FlagsOfTail, MarkerStays, InC, InP, InQ, InK, InD
  <1>11. SwitchTypes' /\ Contents'
    <2>1. SwitchTypes'
      BY <1>2, <1>3, <1>6, <1>7, <1>8, <1>9
      DEF SwitchIInv, SwitchTypes, Standing, SameWorld
    <2> QED BY <2>1, <1>2, <1>3, <1>6, <1>8, <1>9
        DEF SwitchIInv, Contents, SameWorld
  <1>12. Marker'
    BY <1>6, <1>8, <1>10 DEF SwitchIInv, Marker, SameWorld, MarkerStays
  <1>13. Numbers'
    BY <1>6, <1>7, <1>8, <1>10
    DEF SwitchIInv, Numbers, Standing, SameWorld, MarkerStays
  <1>14. Room' /\ Counts'
    BY <1>6, <1>8, <1>10
    DEF SwitchIInv, Room, Counts, Uncounted, Standing, SameWorld, MarkerStays
  <1>15. ParserCall'
    BY <1>6, <1>8, <1>9, <1>10
    DEF SwitchIInv, ParserCall, Standing, SameWorld, MarkerStays
  <1>16. CodecCall'
    BY <1>6, <1>8, <1>9, <1>10 DEF SwitchIInv, CodecCall, Standing, SameWorld
  <1>17. TimerCall' /\ CompleteCall' /\ Screen'
    <2>1. TimerCall'
      BY <1>6, <1>7, <1>8, <1>10 DEF SwitchIInv, TimerCall, SameWorld
    <2>2. CompleteCall'
      BY <1>6, <1>8 DEF SwitchIInv, CompleteCall, SameWorld
    <2>3. Screen'
      BY <1>4, <1>6, <1>8, <1>9 DEF SwitchIInv, Screen, SameWorld
    <2> QED BY <2>1, <2>2, <2>3
  <1> QED BY <1>8, <1>11, <1>12, <1>13, <1>14, <1>15, <1>16, <1>17 DEF SwitchIInv

LEMMA DtoMMarkerStep ==
  ASSUME SwitchIInv, DtoMMarker,
         EventAt(DueCalls("DtoM", Head(DecodedFrameRing).seq)),
         calls' = [calls EXCEPT !["DtoM"] =
                     @ \ DueCalls("DtoM", Head(DecodedFrameRing).seq)],
         UNCHANGED <<SwitchStreamInProgress, CodecReset, switcher, Stream,
                     passed, performing, streamOf>>
  PROVE  SwitchIInv'
  <1> DEFINE D == DecodedFrameRing
             M == ManifestedBufferRing
             n == NextBufferSequenceNumber
             h == Head(D)
             KD == {"frame", "marker", "reset", "timer"}
             KM == {"frame", "marker", "drained", "complete"}
  <1>1. /\ Number \in Nat /\ n \in Nat /\ D \in Seq(Of(KD)) /\ M \in Seq(Of(KM))
        /\ World.number = Number
        /\ Line(D, "timer", n, World) /\ OnScreen(M, n, World)
        /\ seen \in [{"DtoM", "PostM"} -> Nat]
        /\ busy \in [{"PtoD", "DtoM"} -> MarkerOrNone]
        /\ calls \in [Stages -> SUBSET Of({"parser", "codec", "timer", "complete"})]
        /\ LastOneOut \in BOOLEAN
        /\ "DtoM" \in Stages /\ "CtoP" \in Stages /\ "PtoD" \in Stages
        /\ "PostM" \in Stages
    BY Basics DEF SwitchIInv, SwitchTypes, Contents, Stages
  <1>2. /\ D # <<>> /\ D' = Tail(D) /\ h.kind = "marker" /\ M' = Append(M, h)
        /\ busy' = [busy EXCEPT !["DtoM"] = h] /\ Sees("DtoM", h.seq)
    BY DEF DtoMMarker, Holds
  <1>3. /\ Tail(D) \in Seq(Of(KD)) /\ h \in Of(KD) /\ Line(Tail(D), "timer", n, World)
        /\ h = TheMarker(World) /\ h.seq = Number /\ ~Has(Tail(D), "marker")
        /\ NoOld(Tail(D), World) /\ FlagsOfTail(D, World)
    BY <1>1, <1>2, LineTail, Flags, MarkerIs
  <1>4. /\ InD /\ ~InC /\ ~InP /\ ~InQ /\ ~InK /\ ~Out /\ Underway
        /\ seen["DtoM"] < Number /\ Number < n
        /\ Stream.FrameParser # Newest /\ Stream.Codec # Newest
    <2>1. InD
      BY <1>2, <1>3 DEF FlagsOfTail, InD
    <2>2. ~InC /\ ~InP /\ ~InQ /\ ~InK
      BY <2>1 DEF SwitchIInv, Marker
    <2>3. seen["DtoM"] < Number /\ Number < n
      BY <2>1, <2>2 DEF SwitchIInv, Numbers
    <2> QED BY <2>1, <2>2, <2>3, MarkerIs
  <1>5. /\ LastOneOut' = (LastOneOut \/ calls["DtoM"] # {})
        /\ calls' \in [Stages -> SUBSET Of({"parser", "codec", "timer", "complete"})]
        /\ calls'["DtoM"] = {} /\ calls'["CtoP"] = calls["CtoP"]
        /\ calls'["PtoD"] = calls["PtoD"] /\ calls'["PostM"] = calls["PostM"]
    <2>1. DueCalls("DtoM", h.seq) = calls["DtoM"]
      <3>1. calls["DtoM"] \subseteq {TheCall("timer", World)}
        BY DEF SwitchIInv, TimerCall
      <3>2. TheCall("timer", World).seq = Number
        BY <1>1 DEF TheCall, Buffer
      <3>3. \A x \in calls["DtoM"] : x.seq <= Number
        BY <3>1, <3>2, <1>1
      <3> QED BY <3>3, <1>3 DEF DueCalls
    <2>2. calls' = [calls EXCEPT !["DtoM"] = calls["DtoM"] \ calls["DtoM"]]
      BY <2>1
    <2>3. calls["DtoM"] \ calls["DtoM"] = {}
      OBVIOUS
    <2>4. LastOneOut' = (LastOneOut \/ calls["DtoM"] # {})
      BY <2>1 DEF EventAt
    <2> QED BY <2>2, <2>3, <2>4, <1>1
  <1>6. /\ UNCHANGED <<CollatedFrameRing, ParsedFrameRing, shown, codec, passed,
                       performing, CodecReset, NextBufferSequenceNumber,
                       MarkerInCodedFrameIndex>>
        /\ Standing
    BY DEF DtoMMarker, Standing, player
  <1>7. SameWorld /\ Thread' /\ Streams'
    BY <1>6, Stands DEF SwitchIInv
  <1>8. (Out' <=> calls["DtoM"] # {}) /\ (calls["DtoM"] # {} => Sent("DtoM"))
    <2>1. calls["DtoM"] # {} => Sent("DtoM")
      BY DEF SwitchIInv, TimerCall
    <2>2. Sent("DtoM") => switcher # "drain"
      BY DEF Sent, Before
    <2>3. switcher' = switcher /\ Underway'
      BY <1>4, <1>6, <1>7 DEF Standing, SameWorld
    <2>4. Out' <=> LastOneOut' /\ switcher # "drain"
      BY <2>3 DEF Out
    <2>5. ~(LastOneOut /\ switcher # "drain")
      BY <1>4 DEF Out
    <2> QED BY <2>1, <2>2, <2>4, <2>5, <1>5
  <1>9. /\ seen' \in [{"DtoM", "PostM"} -> Nat] /\ seen'["PostM"] = seen["PostM"]
        /\ seen'["DtoM"] = Number
        /\ busy' \in [{"PtoD", "DtoM"} -> MarkerOrNone]
        /\ busy'["PtoD"] = busy["PtoD"]
    <2>1. h \in MarkerOrNone
      BY <1>2, <1>3 DEF Of, MarkerOrNone
    <2>2. seen' = [seen EXCEPT !["DtoM"] = Number]
      BY <1>1, <1>2, <1>3, <1>4 DEF Sees
    <2> QED BY <2>1, <2>2, <1>1, <1>2
  <1>10. /\ M' \in Seq(Of(KM)) /\ OnScreen(M', n, World)
         /\ Has(M', "complete") <=> Has(M, "complete")
         /\ NoOld(M, World) => NoOld(M', World)
         /\ NoNew(M, World) => NoNew(M', World)
    <2>1. h \in Of(KM) /\ h.seq < n /\ h.seq <= Number
      BY <1>1, <1>2, <1>3, <1>4 DEF Of
    <2>2. InWorld(h, World) /\ Beside(h, World) /\ ~Old(h, World) /\ ~New(h, World)
      BY <1>2, MarkerIs
    <2>3. Append(M, h) \in Seq(Of(KM)) /\ OnScreen(Append(M, h), n, World)
      BY <1>1, <1>2, <2>1, <2>2, ScreenAppend
    <2>4. FlagsOfAppend(M, h, World)
      BY <1>1, <2>1, Flags
    <2> QED BY <1>2, <2>2, <2>3, <2>4 DEF FlagsOfAppend
  <1>11. /\ ~InC' /\ ~InP' /\ ~InQ' /\ ~InK' /\ ~InD'
         /\ Has(D', "timer") <=> Has(D, "timer")
         /\ NoOld(D', World)
         /\ NoNew(D, World) => NoNew(D', World)
    BY <1>2, <1>3, <1>4, <1>6 DEF FlagsOfTail, InC, InP, InQ, InK, InD
  <1>12. SwitchTypes' /\ Contents'
    <2>1. LastOneOut' \in BOOLEAN
      BY <1>5
    <2>2. SwitchTypes'
      BY <2>1, <1>2, <1>3, <1>5, <1>6, <1>7, <1>9, <1>10
      DEF SwitchIInv, SwitchTypes, Standing, SameWorld
    <2> QED BY <2>2, <1>2, <1>3, <1>6, <1>7, <1>10
        DEF SwitchIInv, Contents, SameWorld
  <1>13. Marker'
    BY <1>4, <1>6, <1>7, <1>9, <1>11 DEF SwitchIInv, Marker, SameWorld
  <1>14. Numbers'
    BY <1>1, <1>4, <1>6, <1>7, <1>9, <1>11
    DEF SwitchIInv, Numbers, Standing, SameWorld
  <1>15. Room' /\ Counts'
    BY <1>4, <1>6, <1>7, <1>9, <1>11
    DEF SwitchIInv, Room, Counts, Uncounted, Standing, SameWorld
  <1>16. ParserCall'
    BY <1>4, <1>5, <1>6, <1>7, <1>10, <1>11
    DEF SwitchIInv, ParserCall, Standing, SameWorld
  <1>17. CodecCall'
    BY <1>4, <1>5, <1>6, <1>7, <1>10, <1>11
    DEF SwitchIInv, CodecCall, Standing, SameWorld
  <1>18. TimerCall' /\ CompleteCall' /\ Screen'
    <2>1. TimerCall'
      <3>1. calls["DtoM"] # {} => ~Has(D, "timer")
        BY DEF SwitchIInv, TimerCall
      <3>2. calls["DtoM"] = {} => ~Sent("DtoM") \/ Has(D, "timer")
        BY <1>4 DEF SwitchIInv, TimerCall
      <3>3. Has(D, "timer") => Sent("DtoM")
        BY DEF SwitchIInv, TimerCall
      <3> QED BY <3>1, <3>2, <3>3, <1>1, <1>4, <1>5, <1>7, <1>8, <1>9, <1>11
          DEF TimerCall, SameWorld
    <2>2. CompleteCall'
      BY <1>5, <1>7, <1>10 DEF SwitchIInv, CompleteCall, SameWorld
    <2>3. Screen'
      BY <1>4, <1>6, <1>7, <1>10 DEF SwitchIInv, Screen, SameWorld
    <2> QED BY <2>1, <2>2, <2>3
  <1> QED BY <1>7, <1>12, <1>13, <1>14, <1>15, <1>16, <1>17, <1>18 DEF SwitchIInv

LEMMA DtoMMarkerClearStep ==
  ASSUME SwitchIInv, DtoMMarkerClear, UNCHANGED switch
  PROVE  SwitchIInv'
  <1>1. /\ UNCHANGED <<CollatedFrameRing, ParsedFrameRing, DecodedFrameRing,
                       ManifestedBufferRing, shown, codec, seen, calls, passed,
                       performing, CodecReset, LastOneOut,
                       NextBufferSequenceNumber, MarkerInCodedFrameIndex>>
        /\ Standing
    BY DEF DtoMMarkerClear, Standing, rings, input, switch
  <1>2. /\ busy' \in [{"PtoD", "DtoM"} -> MarkerOrNone]
        /\ busy'["PtoD"] = busy["PtoD"]
    <2>1. /\ busy \in [{"PtoD", "DtoM"} -> MarkerOrNone]
          /\ NoBuffer \in MarkerOrNone
      BY DEF SwitchIInv, SwitchTypes, MarkerOrNone
    <2>2. busy' = [busy EXCEPT !["DtoM"] = NoBuffer]
      BY DEF DtoMMarkerClear, LetsGo, Holds
    <2> QED BY <2>1, <2>2
  <1>3. SameWorld /\ (Out' <=> Out) /\ Thread' /\ Streams'
    BY <1>1, Stands DEF SwitchIInv
  <1>4. MarkerStays
    BY <1>1 DEF MarkerStays, InC, InP, InQ, InK, InD
  <1>5. SwitchTypes' /\ Contents' /\ Marker' /\ Numbers'
    BY <1>1, <1>2, <1>3, <1>4
    DEF SwitchIInv, SwitchTypes, Contents, Marker, Numbers, Standing, SameWorld,
        MarkerStays
  <1>6. Room' /\ Counts' /\ ParserCall' /\ CodecCall'
    BY <1>1, <1>2, <1>3, <1>4
    DEF SwitchIInv, Room, Counts, Uncounted, ParserCall, CodecCall, Standing,
        SameWorld, MarkerStays
  <1>7. TimerCall' /\ CompleteCall' /\ Screen'
    BY <1>1, <1>3 DEF SwitchIInv, TimerCall, CompleteCall, Screen, SameWorld
  <1> QED BY <1>3, <1>5, <1>6, <1>7 DEF SwitchIInv

LEMMA DtoMCallStep ==
  ASSUME SwitchIInv, DtoMCall, UNCHANGED switch
  PROVE  SwitchIInv'
  <1> DEFINE D == DecodedFrameRing
             n == NextBufferSequenceNumber
             h == Head(D)
             KD == {"frame", "marker", "reset", "timer"}
  <1>1. D \in Seq(Of(KD)) /\ Line(D, "timer", n, World)
    BY DEF SwitchIInv, SwitchTypes, Contents
  <1>2. D # <<>> /\ D' = Tail(D) /\ h.kind \in {"reset", "drained"}
    BY DEF DtoMCall, IsCall
  <1>3. /\ Tail(D) \in Seq(Of(KD)) /\ Line(Tail(D), "timer", n, World)
        /\ FlagsOfTail(D, World)
    BY <1>1, <1>2, LineTail, Flags
  <1>4. /\ UNCHANGED <<CollatedFrameRing, ParsedFrameRing, ManifestedBufferRing,
                       shown, codec, busy, seen, calls, passed, performing,
                       CodecReset, LastOneOut, NextBufferSequenceNumber,
                       MarkerInCodedFrameIndex>>
        /\ Standing
    BY DEF DtoMCall, Standing, player, switch
  <1>5. SameWorld /\ (Out' <=> Out) /\ Thread' /\ Streams'
    BY <1>4, Stands DEF SwitchIInv
  <1>6. /\ MarkerStays /\ (Has(D', "timer") <=> Has(D, "timer"))
        /\ NoOld(D, World) => NoOld(D', World)
        /\ NoNew(D, World) => NoNew(D', World)
    BY <1>2, <1>3, <1>4 DEF FlagsOfTail, MarkerStays, InC, InP, InQ, InK, InD
  <1>7. SwitchTypes' /\ Contents'
    <2>1. SwitchTypes'
      BY <1>2, <1>3, <1>4, <1>5 DEF SwitchIInv, SwitchTypes, Standing, SameWorld
    <2> QED BY <2>1, <1>2, <1>3, <1>4, <1>5 DEF SwitchIInv, Contents, SameWorld
  <1>8. Marker' /\ Numbers' /\ Room' /\ Counts'
    BY <1>4, <1>5, <1>6
    DEF SwitchIInv, Marker, Numbers, Room, Counts, Uncounted, Standing, SameWorld,
        MarkerStays
  <1>9. ParserCall' /\ CodecCall'
    BY <1>4, <1>5, <1>6
    DEF SwitchIInv, ParserCall, CodecCall, Standing, SameWorld, MarkerStays
  <1>10. TimerCall' /\ CompleteCall' /\ Screen'
    BY <1>4, <1>5, <1>6
    DEF SwitchIInv, TimerCall, CompleteCall, Screen, SameWorld
  <1> QED BY <1>5, <1>7, <1>8, <1>9, <1>10 DEF SwitchIInv

LEMMA TimerArrivesStep ==
  ASSUME SwitchIInv, Arrives("DtoM", seen["DtoM"]),
         EventAt(IF ArrivedDue("DtoM", seen["DtoM"])
                 THEN {Head(DecodedFrameRing)} ELSE {}),
         UNCHANGED <<SwitchStreamInProgress, CodecReset, performing>>
  PROVE  SwitchIInv'
  <1> DEFINE D == DecodedFrameRing
             n == NextBufferSequenceNumber
             h == Head(D)
             KD == {"frame", "marker", "reset", "timer"}
  <1>1. /\ Number \in Nat /\ D \in Seq(Of(KD)) /\ Line(D, "timer", n, World)
        /\ World.number = Number /\ seen["DtoM"] \in Nat
        /\ LastOneOut \in BOOLEAN
        /\ calls \in [Stages -> SUBSET Of({"parser", "codec", "timer", "complete"})]
        /\ "PtoD" \in Stages /\ "CtoP" \in Stages /\ "DtoM" \in Stages
        /\ "PostM" \in Stages
    BY Basics DEF SwitchIInv, SwitchTypes, Stages, Contents
  <1>2. D # <<>> /\ h.kind = "timer" /\ D' = Tail(D)
    BY OneRing DEF Arrives, Messages
  <1>3. /\ Tail(D) \in Seq(Of(KD)) /\ h \in Of(KD)
        /\ Line(Tail(D), "timer", n, World)
        /\ h = TheCall("timer", World) /\ FlagsOfTail(D, World)
        /\ ~Has(Tail(D), "timer") /\ h.seq = Number
    BY <1>1, <1>2, LineTail, Flags DEF TheCall, Buffer
  <1>4. /\ Has(D, "timer") /\ Sent("DtoM") /\ ~Out /\ calls["DtoM"] = {}
        /\ Underway /\ switcher # "drain"
    <2>1. Has(D, "timer")
      BY <1>2, <1>3 DEF FlagsOfTail
    <2> QED BY <2>1 DEF SwitchIInv, TimerCall, Sent, Before
  <1>5. /\ UNCHANGED <<CollatedFrameRing, ParsedFrameRing,
                       ManifestedBufferRing, shown, codec, busy, seen,
                       CodecReset, performing, NextBufferSequenceNumber,
                       MarkerInCodedFrameIndex, passed>>
        /\ Standing
    <2>1. UNCHANGED <<CollatedFrameRing, ParsedFrameRing, ManifestedBufferRing>>
      BY OneRing DEF Arrives
    <2> QED BY <2>1 DEF Arrives, Standing, processes, player, input
  <1>6. SameWorld /\ Thread' /\ Streams'
    BY <1>5, Stands DEF SwitchIInv
  <1>7. /\ calls' \in [Stages -> SUBSET Of({"parser", "codec", "timer", "complete"})]
        /\ calls'["CtoP"] = calls["CtoP"] /\ calls'["PtoD"] = calls["PtoD"]
        /\ calls'["PostM"] = calls["PostM"]
        /\ \/ /\ seen["DtoM"] >= Number /\ calls'["DtoM"] = {}
              /\ LastOneOut' = TRUE
           \/ /\ seen["DtoM"] < Number /\ LastOneOut' = LastOneOut
              /\ calls'["DtoM"] = {TheCall("timer", World)}
    <2>1. ArrivedDue("DtoM", seen["DtoM"]) <=> Number <= seen["DtoM"]
      BY <1>3 DEF ArrivedDue, Ring
    <2>2. CASE Number <= seen["DtoM"]
      <3>1. calls' = calls
        BY <2>2, <1>3 DEF Arrives, Ring
      <3>2. LastOneOut' = TRUE
        BY <2>1, <2>2 DEF EventAt
      <3> QED BY <2>2, <3>1, <3>2, <1>1, <1>4
    <2>3. CASE ~(Number <= seen["DtoM"])
      <3>1. calls' = [calls EXCEPT !["DtoM"] = @ \union {h}]
        BY <2>3, <1>3 DEF Arrives, Ring
      <3>2. calls' = [calls EXCEPT !["DtoM"] = {TheCall("timer", World)}]
        BY <3>1, <1>1, <1>3, <1>4
      <3>3. LastOneOut' = LastOneOut
        BY <2>1, <2>3, <1>1 DEF EventAt
      <3>4. TheCall("timer", World) \in Of({"parser", "codec", "timer", "complete"})
        BY <1>2, <1>3 DEF Of
      <3> QED BY <2>3, <3>2, <3>3, <3>4, <1>1
    <2> QED BY <2>2, <2>3
  <1>8. Out' <=> seen["DtoM"] >= Number
    <2>1. Underway' /\ switcher' = switcher
      BY <1>4, <1>5, <1>6 DEF Standing, SameWorld
    <2>2. Out' <=> LastOneOut'
      BY <2>1, <1>4 DEF Out
    <2>3. ~LastOneOut
      BY <1>4 DEF Out
    <2> QED BY <2>2, <2>3, <1>1, <1>7
  <1>9. /\ MarkerStays /\ ~Has(D', "timer")
        /\ NoOld(D, World) => NoOld(D', World)
        /\ NoNew(D, World) => NoNew(D', World)
    BY <1>2, <1>3, <1>5 DEF FlagsOfTail, MarkerStays, InC, InP, InQ, InK, InD
  <1>10. SwitchTypes' /\ Contents'
    <2>1. LastOneOut' \in BOOLEAN
      BY <1>1, <1>7
    <2>2. SwitchTypes'
      BY <2>1, <1>2, <1>3, <1>5, <1>6, <1>7
        DEF SwitchIInv, SwitchTypes, Standing, SameWorld
    <2> QED BY <2>2, <1>2, <1>3, <1>5, <1>6 DEF SwitchIInv, Contents, SameWorld
  <1>11. Marker' /\ Numbers' /\ Room' /\ Counts'
    BY <1>5, <1>6, <1>9
    DEF SwitchIInv, Marker, Numbers, Room, Counts, Uncounted, Standing, SameWorld,
        MarkerStays
  <1>12. /\ Stream.FrameParser # Newest /\ Stream.Codec # Newest
         /\ "halted" \notin performing
    <2>1. Stream.FrameParser # Newest /\ Stream.Codec # Newest
      BY <1>4, NothingUpstream
    <2> QED BY <2>1, <1>4 DEF SwitchIInv, CodecCall
  <1>13. ParserCall'
    BY <1>5, <1>6, <1>7, <1>9, <1>12
    DEF SwitchIInv, ParserCall, Standing, SameWorld, MarkerStays
  <1>14. CodecCall'
    BY <1>5, <1>6, <1>7, <1>9, <1>12
    DEF SwitchIInv, CodecCall, Standing, SameWorld
  <1>15. TimerCall' /\ CompleteCall' /\ Screen'
    <2>1. TimerCall'
      <3>1. /\ seen' = seen /\ World' = World /\ Number' = Number
            /\ Sent("DtoM")'
        BY <1>4, <1>5, <1>6 DEF SameWorld
      <3>2. CASE seen["DtoM"] >= Number /\ calls'["DtoM"] = {}
        BY <3>1, <3>2, <1>8, <1>9 DEF TimerCall
      <3>3. CASE /\ seen["DtoM"] < Number
                 /\ calls'["DtoM"] = {TheCall("timer", World)}
        <4>1. ~Out'
          BY <3>3, <1>1, <1>8
        <4> QED BY <3>1, <3>3, <4>1, <1>9 DEF TimerCall
      <3> QED BY <3>2, <3>3, <1>7
    <2> QED BY <2>1, <1>4, <1>5, <1>6, <1>7
      DEF SwitchIInv, CompleteCall, Screen, SameWorld
  <1> QED BY <1>6, <1>10, <1>11, <1>13, <1>14, <1>15 DEF SwitchIInv

\* The first frame of the new stream comes back: the switch is complete.
LEMMA SwitchCompletes ==
  ASSUME SwitchIInv, PostMTake,
         DueCalls("PostM", Head(ManifestedBufferRing).seq) # {},
         SwitchComplete(DueCalls("PostM", Head(ManifestedBufferRing).seq)),
         calls' = [calls EXCEPT !["PostM"] =
                     @ \ DueCalls("PostM", Head(ManifestedBufferRing).seq)],
         UNCHANGED <<LastOneOut, switcher, Stream, passed, performing, streamOf>>
  PROVE  SwitchIInv'
  <1> DEFINE M == ManifestedBufferRing
             n == NextBufferSequenceNumber
             h == Head(M)
             KM == {"frame", "marker", "drained", "complete"}
             KS == {"parser", "codec", "timer", "complete"}
  <1>1. /\ Number \in Nat /\ n \in Nat /\ M \in Seq(Of(KM))
        /\ World.number = Number /\ OnScreen(M, n, World)
        /\ seen \in [{"DtoM", "PostM"} -> Nat]
        /\ calls \in [Stages -> SUBSET Of(KS)]
        /\ "DtoM" \in Stages /\ "CtoP" \in Stages /\ "PtoD" \in Stages
        /\ "PostM" \in Stages
    BY Basics DEF SwitchIInv, SwitchTypes, Contents, Stages
  <1>2. M # <<>> /\ M' = Tail(M) /\ Sees("PostM", h.seq)
    BY DEF PostMTake
  <1>3. /\ Tail(M) \in Seq(Of(KM)) /\ h \in Of(KM) /\ OnScreen(Tail(M), n, World)
        /\ Beside(h, World)
        /\ h.kind \in {"frame", "marker"} => h.seq < n
        /\ h.kind = "marker" => h.seq <= Number
        /\ New(h, World) => NoOld(Tail(M), World)
        /\ FlagsOfTail(M, World) /\ h.seq \in Nat
    <2>1. /\ Tail(M) \in Seq(Of(KM)) /\ h \in Of(KM)
          /\ OnScreen(Tail(M), n, World) /\ Beside(h, World)
          /\ h.kind \in {"frame", "marker"} => h.seq < n
          /\ h.kind = "marker" => h.seq <= Number
          /\ New(h, World) => NoOld(Tail(M), World)
          /\ FlagsOfTail(M, World)
      BY <1>1, <1>2, ScreenTail, Flags
    <2> QED BY <2>1 DEF Of
  <1>4. /\ calls["PostM"] = {TheCall("complete", World)}
        /\ DueCalls("PostM", h.seq) = calls["PostM"] /\ Number + 1 <= h.seq
        /\ Sent("PostM") /\ ~Has(M, "complete")
    <2>1. PICK m \in calls["PostM"] : m.seq <= h.seq
      BY DEF DueCalls
    <2>2. calls["PostM"] \subseteq {TheCall("complete", World)}
      BY DEF SwitchIInv, CompleteCall
    <2>3. TheCall("complete", World).seq = Number + 1
      BY <1>1 DEF TheCall, Buffer
    <2>4. Sent("PostM") /\ ~Has(M, "complete")
      BY <2>1 DEF SwitchIInv, CompleteCall
    <2>5. calls["PostM"] = {TheCall("complete", World)} /\ Number + 1 <= h.seq
      BY <2>1, <2>2, <2>3
    <2>6. DueCalls("PostM", h.seq) = calls["PostM"]
      BY <2>1, <2>2 DEF DueCalls
    <2> QED BY <2>4, <2>5, <2>6
  <1>5. New(h, World) /\ h.kind = "frame"
    <2>1. h.kind \in {"frame", "marker"}
      <3>1. h.kind # "complete"
        BY <1>3, <1>4 DEF FlagsOfTail
      <3>2. h.kind # "drained"
        BY DEF PostMTake, IsCall
      <3> QED BY <3>1, <3>2, <1>3 DEF Of
    <2>2. h.kind # "marker"
      BY <1>1, <1>3, <1>4
    <2>3. ~Old(h, World)
      BY <1>1, <1>3, <1>4 DEF Beside
    <2> QED BY <2>1, <2>2, <2>3 DEF Old, New
  <1>6. /\ Stream.FrameParser = Newest /\ Stream.Codec = Newest /\ Out
        /\ NoOld(shown, World) /\ NoOld(Tail(M), World)
        /\ performing = {} /\ switcher = "idle" /\ Underway
        /\ ~InC /\ ~InP /\ ~InQ /\ ~InK /\ ~InD
    <2>1. ~NoNew(M, World)
      BY <1>3, <1>5 DEF FlagsOfTail
    <2>2. Stream.FrameParser = Newest /\ Stream.Codec = Newest
      BY <2>1 DEF SwitchIInv, ParserCall, CodecCall
    <2>3. Out /\ NoOld(shown, World)
      BY <2>1, <2>2 DEF SwitchIInv, ParserCall, Screen
    <2>4. performing = {}
      BY <2>2 DEF SwitchIInv, ParserCall, CodecCall, SwitchTypes
    <2>5. switcher = "idle" /\ Underway
      BY <1>4 DEF SwitchIInv, Sent, Before, Thread
    <2> QED BY <2>2, <2>3, <2>4, <2>5, <1>3, <1>5, NothingUpstream
  <1>7. /\ UNCHANGED <<CollatedFrameRing, ParsedFrameRing, DecodedFrameRing,
                       shown, codec, busy, passed, performing, LastOneOut,
                       NextBufferSequenceNumber, MarkerInCodedFrameIndex,
                       drainer, drains, frames, switcher, Stream, streamOf>>
        /\ CodecReset' = FALSE /\ SwitchStreamInProgress' = FALSE
        /\ calls' \in [Stages -> SUBSET Of(KS)]
        /\ calls'["PostM"] = {} /\ calls'["CtoP"] = calls["CtoP"]
        /\ calls'["PtoD"] = calls["PtoD"] /\ calls'["DtoM"] = calls["DtoM"]
        /\ seen' \in [{"DtoM", "PostM"} -> Nat] /\ seen'["DtoM"] = seen["DtoM"]
        /\ seen'["PostM"] < n
    <2>1. /\ UNCHANGED <<CollatedFrameRing, ParsedFrameRing, DecodedFrameRing,
                         shown, codec, busy, passed, performing, LastOneOut,
                         NextBufferSequenceNumber, MarkerInCodedFrameIndex,
                         drainer, drains, frames, switcher, Stream, streamOf>>
          /\ CodecReset' = FALSE /\ SwitchStreamInProgress' = FALSE
      BY <1>4 DEF PostMTake, SwitchComplete, CodecResetAfter, input
    <2>2. calls' = [calls EXCEPT !["PostM"] = calls["PostM"] \ calls["PostM"]]
      BY <1>4
    <2>3. calls["PostM"] \ calls["PostM"] = {}
      OBVIOUS
    <2>4. /\ seen' \in [{"DtoM", "PostM"} -> Nat]
          /\ seen'["DtoM"] = seen["DtoM"]
          /\ seen'["PostM"] = IF h.seq > seen["PostM"] THEN h.seq ELSE seen["PostM"]
      BY <1>1, <1>2, <1>3 DEF Sees
    <2>5. seen["PostM"] < n /\ h.seq < n
      BY <1>3, <1>5 DEF SwitchIInv, Numbers
    <2> QED BY <2>1, <2>2, <2>3, <2>4, <2>5, <1>1
  <1>8. /\ drain' = drain /\ (Preparing' <=> Preparing) /\ Newest' = Newest
        /\ Number' = Number /\ World' = World /\ ~Underway' /\ Out'
        /\ ~Sent("CtoP")' /\ ~Sent("PtoD")' /\ ~Sent("DtoM")' /\ ~Sent("PostM")'
    <2>1. drain' = drain /\ (Preparing' <=> Preparing)
      BY <1>7 DEF drain, Preparing
    <2>2. Newest' = Newest
      BY <2>1 DEF Newest
    <2>3. Number' = Number
      BY <1>7, <2>2 DEF Number
    <2>4. World' = World
      BY <1>7, <2>2, <2>3 DEF World
    <2>5. ~Underway'
      BY <1>6, <1>7 DEF Underway
    <2> QED BY <2>1, <2>2, <2>3, <2>4, <2>5 DEF Out, Sent
  <1>9. /\ MarkerStays /\ ~Has(M', "complete")
        /\ NoOld(M', World)
    BY <1>2, <1>3, <1>4, <1>6, <1>7
    DEF FlagsOfTail, MarkerStays, InC, InP, InQ, InK, InD
  <1>10. SwitchTypes'
    BY <1>2, <1>3, <1>7, <1>8 DEF SwitchIInv, SwitchTypes
  <1>11. Thread' /\ Contents' /\ Streams'
    <2>1. Thread'
      BY <1>6, <1>7, <1>8 DEF SwitchIInv, Thread, Stages
    <2>2. Contents'
      BY <1>2, <1>3, <1>7, <1>8 DEF SwitchIInv, Contents
    <2>3. Streams'
      BY <1>7, <1>8 DEF SwitchIInv, Streams
    <2> QED BY <2>1, <2>2, <2>3
  <1>12. Marker' /\ Numbers'
    <2>1. Marker'
      BY <1>6, <1>7, <1>8, <1>9 DEF SwitchIInv, Marker, MarkerStays
    <2>2. Numbers'
      BY <1>7, <1>8, <1>9, <1>6 DEF SwitchIInv, Numbers, MarkerStays, Thread
    <2> QED BY <2>1, <2>2
  <1>13. Room' /\ Counts'
    <2>1. Room'
      BY <1>7, <1>8, <1>9 DEF SwitchIInv, Room, MarkerStays
    <2>2. Counts'
      BY <1>6, <1>7, <1>8, <1>9 DEF SwitchIInv, Counts, Uncounted, MarkerStays
    <2> QED BY <2>1, <2>2
  <1>14. ParserCall' /\ CodecCall'
    BY <1>6, <1>7, <1>8, <1>9
    DEF SwitchIInv, ParserCall, CodecCall, MarkerStays
  <1>15. TimerCall' /\ CompleteCall' /\ Screen'
    BY <1>6, <1>7, <1>8, <1>9
    DEF SwitchIInv, TimerCall, CompleteCall, Screen
  <1> QED BY <1>10, <1>11, <1>12, <1>13, <1>14, <1>15 DEF SwitchIInv

LEMMA PostMTakeStep ==
  ASSUME SwitchIInv, PostMTake, Head(ManifestedBufferRing).kind # "complete",
         DueCalls("PostM", Head(ManifestedBufferRing).seq) = {},
         SwitchComplete(DueCalls("PostM", Head(ManifestedBufferRing).seq)),
         calls' = [calls EXCEPT !["PostM"] =
                     @ \ DueCalls("PostM", Head(ManifestedBufferRing).seq)],
         UNCHANGED <<LastOneOut, switcher, Stream, passed, performing, streamOf>>
  PROVE  SwitchIInv'
  <1> DEFINE M == ManifestedBufferRing
             n == NextBufferSequenceNumber
             h == Head(M)
             KM == {"frame", "marker", "drained", "complete"}
  <1>1. /\ Number \in Nat /\ n \in Nat /\ M \in Seq(Of(KM))
        /\ World.number = Number /\ OnScreen(M, n, World)
        /\ seen \in [{"DtoM", "PostM"} -> Nat]
        /\ calls \in [Stages -> SUBSET Of({"parser", "codec", "timer", "complete"})]
        /\ CodecReset \in BOOLEAN /\ SwitchStreamInProgress \in BOOLEAN
    BY Basics DEF SwitchIInv, SwitchTypes, Contents
  <1>2. M # <<>> /\ M' = Tail(M) /\ Sees("PostM", h.seq)
    BY DEF PostMTake
  <1>3. /\ Tail(M) \in Seq(Of(KM)) /\ h \in Of(KM) /\ OnScreen(Tail(M), n, World)
        /\ Beside(h, World) /\ InWorld(h, World)
        /\ h.kind \in {"frame", "marker"} => h.seq < n
        /\ h.kind = "marker" => h.seq <= Number
        /\ FlagsOfTail(M, World)
        /\ Has(Tail(M), "complete") => ~New(h, World)
    BY <1>1, <1>2, ScreenTail, Flags
  <1>4. h.seq \in Nat /\ h.kind \in {"frame", "marker"} /\ h.seq < n
    <2>1. h.kind # "drained"
      BY DEF PostMTake, IsCall
    <2>2. h.kind \in {"frame", "marker"} /\ h.seq \in Nat
      BY <2>1, <1>3 DEF Of
    <2> QED BY <2>2, <1>3
  <1>5. Underway => h.seq <= Number
    <2> SUFFICES ASSUME Underway PROVE h.seq <= Number
      OBVIOUS
    <2>1. CASE Old(h, World)
      BY <2>1, <1>1, <1>3, <1>4 DEF Beside
    <2>2. CASE h.kind = "marker"
      BY <2>2, <1>3
    <2>3. CASE New(h, World)
      <3>1. Sent("PostM")
        BY <2>3, <1>3, NewIsLate DEF SwitchIInv
      <3>2. ~Has(M, "complete")
        BY <2>3, <1>3 DEF FlagsOfTail
      <3>3. calls["PostM"] = {TheCall("complete", World)}
        BY <3>1, <3>2 DEF SwitchIInv, CompleteCall
      <3>4. TheCall("complete", World).seq = Number + 1
        BY <1>1 DEF TheCall, Buffer
      <3>5. ~(Number + 1 <= h.seq)
        BY <3>3, <3>4 DEF DueCalls
      <3> QED BY <3>5, <1>1, <1>4
    <2> QED BY <2>1, <2>2, <2>3, <1>4 DEF Old, New
  <1>6. /\ UNCHANGED <<CollatedFrameRing, ParsedFrameRing, DecodedFrameRing,
                       shown, codec, busy, calls, passed, performing,
                       CodecReset, LastOneOut, NextBufferSequenceNumber,
                       MarkerInCodedFrameIndex>>
        /\ Standing
    <2>1. /\ calls' = calls /\ CodecReset' = CodecReset
          /\ SwitchStreamInProgress' = SwitchStreamInProgress
      BY <1>1 DEF SwitchComplete, CodecResetAfter
    <2> QED BY <2>1 DEF PostMTake, Standing, input
  <1>7. /\ seen' \in [{"DtoM", "PostM"} -> Nat] /\ seen'["DtoM"] = seen["DtoM"]
        /\ seen'["PostM"] < n /\ (Underway => seen'["PostM"] <= Number)
    <2>1. /\ seen' \in [{"DtoM", "PostM"} -> Nat]
          /\ seen'["DtoM"] = seen["DtoM"]
          /\ seen'["PostM"] = IF h.seq > seen["PostM"] THEN h.seq ELSE seen["PostM"]
      BY <1>1, <1>2, <1>4 DEF Sees
    <2>2. seen["PostM"] < n /\ (Underway => seen["PostM"] <= Number)
      BY DEF SwitchIInv, Numbers
    <2> QED BY <2>1, <2>2, <1>4, <1>5
  <1>8. SameWorld /\ (Out' <=> Out) /\ Thread' /\ Streams'
    BY <1>6, Stands DEF SwitchIInv
  <1>9. /\ MarkerStays /\ (Has(M', "complete") <=> Has(M, "complete"))
        /\ NoOld(M, World) => NoOld(M', World)
        /\ NoNew(M, World) => NoNew(M', World)
    BY <1>2, <1>3, <1>4, <1>6
    DEF FlagsOfTail, MarkerStays, InC, InP, InQ, InK, InD
  <1>10. SwitchTypes' /\ Contents'
    <2>1. SwitchTypes'
      BY <1>2, <1>3, <1>6, <1>7, <1>8
      DEF SwitchIInv, SwitchTypes, Standing, SameWorld
    <2> QED BY <2>1, <1>2, <1>3, <1>6, <1>8 DEF SwitchIInv, Contents, SameWorld
  <1>11. Marker' /\ Numbers' /\ Room' /\ Counts'
    BY <1>6, <1>7, <1>8, <1>9
    DEF SwitchIInv, Marker, Numbers, Room, Counts, Uncounted, Standing, SameWorld,
        MarkerStays
  <1>12. ParserCall' /\ CodecCall'
    BY <1>6, <1>8, <1>9
    DEF SwitchIInv, ParserCall, CodecCall, Standing, SameWorld, MarkerStays
  <1>13. TimerCall' /\ CompleteCall' /\ Screen'
    BY <1>6, <1>7, <1>8, <1>9
    DEF SwitchIInv, TimerCall, CompleteCall, Screen, SameWorld
  <1> QED BY <1>8, <1>10, <1>11, <1>12, <1>13 DEF SwitchIInv

LEMMA PostMCallStep ==
  ASSUME SwitchIInv, PostMCall, UNCHANGED switch
  PROVE  SwitchIInv'
  <1> DEFINE M == ManifestedBufferRing
             n == NextBufferSequenceNumber
             h == Head(M)
             KM == {"frame", "marker", "drained", "complete"}
  <1>1. M \in Seq(Of(KM)) /\ OnScreen(M, n, World)
    BY DEF SwitchIInv, SwitchTypes, Contents
  <1>2. M # <<>> /\ M' = Tail(M) /\ h.kind \in {"reset", "drained"}
    BY DEF PostMCall, IsCall
  <1>3. /\ Tail(M) \in Seq(Of(KM)) /\ OnScreen(Tail(M), n, World)
        /\ FlagsOfTail(M, World)
    BY <1>1, <1>2, ScreenTail, Flags
  <1>4. /\ UNCHANGED <<CollatedFrameRing, ParsedFrameRing, DecodedFrameRing,
                       shown, codec, busy, seen, calls, passed, performing,
                       CodecReset, LastOneOut, NextBufferSequenceNumber,
                       MarkerInCodedFrameIndex>>
        /\ Standing
    BY DEF PostMCall, Standing, switch, input
  <1>5. SameWorld /\ (Out' <=> Out) /\ Thread' /\ Streams'
    BY <1>4, Stands DEF SwitchIInv
  <1>6. /\ MarkerStays /\ (Has(M', "complete") <=> Has(M, "complete"))
        /\ NoOld(M, World) => NoOld(M', World)
        /\ NoNew(M, World) => NoNew(M', World)
    BY <1>2, <1>3, <1>4 DEF FlagsOfTail, MarkerStays, InC, InP, InQ, InK, InD
  <1>7. SwitchTypes' /\ Contents'
    <2>1. SwitchTypes'
      BY <1>2, <1>3, <1>4, <1>5 DEF SwitchIInv, SwitchTypes, Standing, SameWorld
    <2> QED BY <2>1, <1>2, <1>3, <1>4, <1>5 DEF SwitchIInv, Contents, SameWorld
  <1>8. Marker' /\ Numbers' /\ Room' /\ Counts'
    BY <1>4, <1>5, <1>6
    DEF SwitchIInv, Marker, Numbers, Room, Counts, Uncounted, Standing, SameWorld,
        MarkerStays
  <1>9. ParserCall' /\ CodecCall'
    BY <1>4, <1>5, <1>6
    DEF SwitchIInv, ParserCall, CodecCall, Standing, SameWorld, MarkerStays
  <1>10. TimerCall' /\ CompleteCall' /\ Screen'
    BY <1>4, <1>5, <1>6
    DEF SwitchIInv, TimerCall, CompleteCall, Screen, SameWorld
  <1> QED BY <1>5, <1>7, <1>8, <1>9, <1>10 DEF SwitchIInv

LEMMA CompleteArrivesStep ==
  ASSUME SwitchIInv, Arrives("PostM", seen["PostM"]),
         SwitchComplete(IF ArrivedDue("PostM", seen["PostM"])
                        THEN {Head(ManifestedBufferRing)} ELSE {}),
         UNCHANGED <<LastOneOut, performing>>
  PROVE  SwitchIInv'
  <1> DEFINE M == ManifestedBufferRing
             n == NextBufferSequenceNumber
             h == Head(M)
             KM == {"frame", "marker", "drained", "complete"}
             KS == {"parser", "codec", "timer", "complete"}
  <1>1. /\ Number \in Nat /\ M \in Seq(Of(KM)) /\ OnScreen(M, n, World)
        /\ World.number = Number /\ seen["PostM"] \in Nat
        /\ CodecReset \in BOOLEAN /\ SwitchStreamInProgress \in BOOLEAN
        /\ calls \in [Stages -> SUBSET Of(KS)]
        /\ "PtoD" \in Stages /\ "CtoP" \in Stages /\ "DtoM" \in Stages
        /\ "PostM" \in Stages
    BY Basics DEF SwitchIInv, SwitchTypes, Stages, Contents
  <1>2. M # <<>> /\ h.kind = "complete" /\ M' = Tail(M)
    BY OneRing DEF Arrives, Messages
  <1>3. /\ Tail(M) \in Seq(Of(KM)) /\ h \in Of(KM)
        /\ OnScreen(Tail(M), n, World)
        /\ h = TheCall("complete", World) /\ FlagsOfTail(M, World)
        /\ ~Has(Tail(M), "complete") /\ h.seq = Number + 1
    BY <1>1, <1>2, ScreenTail, Flags DEF TheCall, Buffer
  <1>4. /\ Has(M, "complete") /\ Sent("PostM") /\ calls["PostM"] = {}
        /\ Underway /\ seen["PostM"] <= Number
    <2>1. Has(M, "complete")
      BY <1>2, <1>3 DEF FlagsOfTail
    <2>2. Sent("PostM") /\ calls["PostM"] = {}
      BY <2>1 DEF SwitchIInv, CompleteCall
    <2> QED BY <2>1, <2>2 DEF SwitchIInv, Sent, Numbers
  <1>5. /\ UNCHANGED <<CollatedFrameRing, ParsedFrameRing, DecodedFrameRing,
                       shown, codec, busy, seen, CodecReset, LastOneOut,
                       performing, NextBufferSequenceNumber,
                       MarkerInCodedFrameIndex, passed>>
        /\ Standing
        /\ calls' = [calls EXCEPT !["PostM"] = {TheCall("complete", World)}]
    <2>1. UNCHANGED <<CollatedFrameRing, ParsedFrameRing, DecodedFrameRing>>
      BY OneRing DEF Arrives
    <2>2. ~(h.seq <= seen["PostM"])
      BY <1>1, <1>3, <1>4
    <2>3. ~ArrivedDue("PostM", seen["PostM"])
      BY <2>2 DEF ArrivedDue, Ring
    <2>4. /\ CodecReset' = CodecReset
          /\ SwitchStreamInProgress' = SwitchStreamInProgress
      BY <2>3, <1>1 DEF SwitchComplete, CodecResetAfter
    <2>5. calls' = [calls EXCEPT !["PostM"] = @ \union {h}]
      BY <2>2 DEF Arrives, Ring
    <2>6. calls' = [calls EXCEPT !["PostM"] = {TheCall("complete", World)}]
      BY <2>5, <1>1, <1>3, <1>4
    <2> QED BY <2>1, <2>4, <2>6 DEF Arrives, Standing, processes, player, input
  <1>6. SameWorld /\ (Out' <=> Out) /\ Thread' /\ Streams'
    BY <1>5, Stands DEF SwitchIInv
  <1>7. /\ calls' \in [Stages -> SUBSET Of(KS)]
        /\ calls'["CtoP"] = calls["CtoP"] /\ calls'["PtoD"] = calls["PtoD"]
        /\ calls'["DtoM"] = calls["DtoM"]
        /\ calls'["PostM"] = {TheCall("complete", World)}
    <2>1. TheCall("complete", World) \in Of(KS)
      BY <1>2, <1>3 DEF Of
    <2> QED BY <2>1, <1>1, <1>5
  <1>8. /\ MarkerStays /\ ~Has(M', "complete")
        /\ NoOld(M, World) => NoOld(M', World)
        /\ NoNew(M, World) => NoNew(M', World)
    BY <1>2, <1>3, <1>5 DEF FlagsOfTail, MarkerStays, InC, InP, InQ, InK, InD
  <1>9. SwitchTypes' /\ Contents'
    <2>1. SwitchTypes'
      BY <1>2, <1>3, <1>5, <1>6, <1>7
      DEF SwitchIInv, SwitchTypes, Standing, SameWorld
    <2> QED BY <2>1, <1>2, <1>3, <1>5, <1>6 DEF SwitchIInv, Contents, SameWorld
  <1>10. Marker' /\ Numbers' /\ Room' /\ Counts'
    BY <1>5, <1>6, <1>8
    DEF SwitchIInv, Marker, Numbers, Room, Counts, Uncounted, Standing, SameWorld,
        MarkerStays
  <1>11. ParserCall' /\ CodecCall'
    BY <1>5, <1>6, <1>7, <1>8
    DEF SwitchIInv, ParserCall, CodecCall, Standing, SameWorld, MarkerStays
  <1>12. TimerCall' /\ CompleteCall' /\ Screen'
    BY <1>4, <1>5, <1>6, <1>7, <1>8
    DEF SwitchIInv, TimerCall, CompleteCall, Screen, SameWorld
  <1> QED BY <1>6, <1>9, <1>10, <1>11, <1>12 DEF SwitchIInv

-----------------------------------------------------------------------------
(* The thread that calls SwitchStream.                                     *)

\* When no switch is underway, nothing is left of the last one.
LEMMA Calm ==
  ASSUME SwitchIInv, ~Underway
  PROVE  /\ ~InC /\ ~InP /\ ~InQ /\ ~InK /\ ~InD
         /\ NoOld(CollatedFrameRing, World) /\ NoOld(ParsedFrameRing, World)
         /\ NoOld(codec.decoding, World) /\ NoOld(DecodedFrameRing, World)
         /\ NoOld(shown, World) /\ NoOld(ManifestedBufferRing, World)
         /\ ~Has(CollatedFrameRing, "parser") /\ ~Has(ParsedFrameRing, "codec")
         /\ ~Has(DecodedFrameRing, "timer")
         /\ ~Has(ManifestedBufferRing, "complete")
         /\ performing = {} /\ Out /\ ~CodecReset
         /\ calls["CtoP"] = {} /\ calls["PtoD"] = {} /\ calls["DtoM"] = {}
         /\ calls["PostM"] = {}
         /\ Stream.FrameParser = Newest /\ Stream.Codec = Newest
         /\ Number < NextBufferSequenceNumber
         /\ ~Sent("CtoP") /\ ~Sent("PtoD") /\ ~Sent("DtoM") /\ ~Sent("PostM")
  <1>1. Out /\ ~Sent("CtoP") /\ ~Sent("PtoD") /\ ~Sent("DtoM") /\ ~Sent("PostM")
    BY DEF Out, Sent
  <1>2. /\ ~InC /\ ~InP /\ ~InQ /\ ~InK /\ ~InD
        /\ NoOld(CollatedFrameRing, World) /\ NoOld(ParsedFrameRing, World)
        /\ NoOld(codec.decoding, World) /\ NoOld(DecodedFrameRing, World)
    BY <1>1, NothingUpstream
  <1>3. /\ NoOld(shown, World) /\ NoOld(ManifestedBufferRing, World)
        /\ performing = {}
    BY DEF SwitchIInv, Screen
  <1>4. /\ ~Has(CollatedFrameRing, "parser") /\ calls["CtoP"] = {}
        /\ Stream.FrameParser = Newest
    BY <1>1 DEF SwitchIInv, ParserCall
  <1>5. /\ ~Has(ParsedFrameRing, "codec") /\ calls["PtoD"] = {}
        /\ Stream.Codec = Newest /\ ~CodecReset
    BY <1>1 DEF SwitchIInv, CodecCall
  <1>6. /\ ~Has(DecodedFrameRing, "timer") /\ calls["DtoM"] = {}
        /\ ~Has(ManifestedBufferRing, "complete") /\ calls["PostM"] = {}
    BY <1>1 DEF SwitchIInv, TimerCall, CompleteCall
  <1>7. Number < NextBufferSequenceNumber
    BY <1>2 DEF SwitchIInv, Numbers
  <1> QED BY <1>1, <1>2, <1>3, <1>4, <1>5, <1>6, <1>7

\* The thread goes on ahead of its marker.
LEMMA Prepares ==
  ASSUME SwitchTypes, Thread, Preparing,
         NEW p \in {"flush", "check", "number", "launch"},
         drainer' = [drainer EXCEPT !.at = p],
         UNCHANGED <<frames, switcher, Stream, SwitchStreamInProgress, streamOf>>,
         drains' \in Seq(Asked), Len(drains') = Len(drains),
         \A d \in 1 .. Newest : drains'[d] = drains[d]
  PROVE  /\ SameWorld /\ ~Underway /\ Preparing' /\ Newest = drain - 1
         /\ LastOneOut' = LastOneOut => (Out' <=> Out)
         /\ Thread'
         /\ Streams => Streams'
  <1>1. /\ drainer'.at = p /\ drainer'.nonBlocking = drainer.nonBlocking
        /\ drainer' \in [at : {"idle", "flush", "check", "number", "launch",
                               "reset", "event"},
                         nonBlocking : BOOLEAN]
    BY DEF Thread
  <1>2. drain' = drain /\ Preparing'
    BY <1>1 DEF drain, Preparing
  <1>3. Newest' = Newest /\ Newest \in Nat /\ Newest + 1 = drain
    BY <1>2, Basics DEF Newest
  <1>4. Number' = Number
    BY <1>3 DEF Number
  <1>5. World' = World
    BY <1>3, <1>4 DEF World
  <1>6. /\ switcher = "drain" /\ ~SwitchStreamInProgress /\ drainer.nonBlocking
        /\ ~Underway /\ ~Underway'
    BY <1>2 DEF Thread, Preparing, Underway
  <1>7. /\ ~Sent("CtoP") /\ ~Sent("PtoD") /\ ~Sent("DtoM") /\ ~Sent("PostM")
        /\ ~Sent("CtoP")' /\ ~Sent("PtoD")' /\ ~Sent("DtoM")' /\ ~Sent("PostM")'
        /\ Out /\ Out'
    BY <1>6 DEF Sent, Out
  <1>8. Thread'
    BY <1>1, <1>2, <1>6 DEF Thread
  <1>9. Streams => Streams'
    BY <1>2, <1>3 DEF Streams
  <1> QED BY <1>2, <1>3, <1>4, <1>5, <1>6, <1>7, <1>8, <1>9 DEF SameWorld

LEMMA DrainChecksStep ==
  ASSUME SwitchIInv, DrainChecks, UNCHANGED switch
  PROVE  SwitchIInv'
  <1>1. Preparing /\ drainer.at = "check"
    BY DEF DrainChecks, Preparing
  <1>2. ~Underway
    BY <1>1 DEF SwitchIInv, Thread, Preparing, Underway
  <1>3. MarkerInCodedFrameIndex = INVALID
    BY <1>2, Calm DEF SwitchIInv, Marker
  <1>4. drainer' = [drainer EXCEPT !.at = "number"]
    BY <1>3 DEF DrainChecks, Goes
  <1>5. /\ UNCHANGED <<CollatedFrameRing, ParsedFrameRing, DecodedFrameRing,
                       ManifestedBufferRing, shown, codec, busy, seen, calls,
                       passed, performing, CodecReset, LastOneOut,
                       NextBufferSequenceNumber, MarkerInCodedFrameIndex,
                       frames, drains, switcher, Stream, streamOf,
                       SwitchStreamInProgress>>
    BY DEF DrainChecks, rings, processes, player, input, switch
  <1>6. /\ SameWorld /\ Preparing' /\ (Out' <=> Out) /\ Thread' /\ Streams'
    <2>1. drains' \in Seq(Asked) /\ Len(drains') = Len(drains)
          /\ \A d \in 1 .. Newest : drains'[d] = drains[d]
      BY <1>5 DEF SwitchIInv, SwitchTypes
    <2> QED BY <2>1, <1>1, <1>4, <1>5, Prepares DEF SwitchIInv
  <1>7. MarkerStays /\ drainer'.at = "number"
    BY <1>4, <1>5 DEF MarkerStays, InC, InP, InQ, InK, InD, SwitchIInv, Thread
  <1>8. SwitchTypes' /\ Contents'
    BY <1>5, <1>6 DEF SwitchIInv, SwitchTypes, Contents, SameWorld
  <1>9. Marker' /\ Numbers' /\ Room' /\ Counts'
    BY <1>1, <1>5, <1>6, <1>7
    DEF SwitchIInv, Marker, Numbers, Room, Counts, Uncounted, SameWorld,
        MarkerStays
  <1>10. ParserCall' /\ CodecCall'
    BY <1>5, <1>6, <1>7
    DEF SwitchIInv, ParserCall, CodecCall, SameWorld, MarkerStays
  <1>11. TimerCall' /\ CompleteCall' /\ Screen'
    BY <1>5, <1>6
    DEF SwitchIInv, TimerCall, CompleteCall, Screen, SameWorld
  <1> QED BY <1>6, <1>8, <1>9, <1>10, <1>11 DEF SwitchIInv

LEMMA DrainNumbersStep ==
  ASSUME SwitchIInv, DrainNumbers, UNCHANGED switch
  PROVE  SwitchIInv'
  <1> DEFINE n == NextBufferSequenceNumber
  <1>1. Preparing /\ drainer.at = "number"
    BY DEF DrainNumbers, Preparing
  <1>2. ~Underway
    BY <1>1 DEF SwitchIInv, Thread, Preparing, Underway
  <1>3. /\ drainer' = [drainer EXCEPT !.at = "launch"]
        /\ drains' = [drains EXCEPT ![drain].seq = n + MaxRingSize]
    BY DEF DrainNumbers, Goes, MarkerNumber
  <1>4. /\ UNCHANGED <<CollatedFrameRing, ParsedFrameRing, DecodedFrameRing,
                       ManifestedBufferRing, shown, codec, busy, seen, calls,
                       passed, performing, CodecReset, LastOneOut,
                       NextBufferSequenceNumber, MarkerInCodedFrameIndex,
                       frames, switcher, Stream, streamOf,
                       SwitchStreamInProgress>>
    BY DEF DrainNumbers, rings, processes, player, switch
  <1>5. /\ n \in Nat /\ drain \in Nat /\ Newest \in Nat /\ Newest + 1 = drain
        /\ drains \in Seq(Asked) /\ frames \in Nat /\ frames <= MaxFrames
        /\ drain <= MaxDrains /\ drain \in 1 .. Len(drains)
        /\ Len(CollatedFrameRing) \in Nat
    <2>1. /\ n \in Nat /\ drain \in Nat /\ Newest \in Nat /\ Newest + 1 = drain
          /\ drains \in Seq(Asked) /\ frames \in Nat /\ frames <= MaxFrames
          /\ drain <= MaxDrains
      BY <1>1, Basics, BoundsAssumption DEF SwitchIInv, SwitchTypes
    <2>2. Len(CollatedFrameRing) \in Nat
      BY LenProperties DEF SwitchIInv, SwitchTypes
    <2> QED BY <2>1, <2>2 DEF drain
  <1>6. /\ drains' \in Seq(Asked) /\ Len(drains') = Len(drains)
        /\ \A d \in 1 .. Newest : drains'[d] = drains[d]
        /\ drains'[drain].seq = n + MaxRingSize
    <2>1. /\ drains[drain] \in Asked /\ n + MaxRingSize \in Nat
      BY <1>5, ElementOfSeq, RingAssumption DEF drain
    <2> DEFINE a == [drains[drain] EXCEPT !.seq = n + MaxRingSize]
    <2>2. a \in Asked /\ a.seq = n + MaxRingSize
      BY <2>1 DEF Asked
    <2>3. drains' = [drains EXCEPT ![drain] = a]
      BY <1>3
    <2> HIDE DEF a
    <2>4. /\ drains' \in Seq(Asked) /\ Len(drains') = Len(drains)
          /\ \A i \in 1 .. Len(drains) :
               drains'[i] = IF i = drain THEN a ELSE drains[i]
      BY <2>2, <2>3, <1>5, ExceptSeq
    <2>5. \A d \in 1 .. Newest : d \in 1 .. Len(drains) /\ d # drain
      BY <1>5 DEF drain
    <2>6. drains'[drain].seq = n + MaxRingSize
      BY <2>2, <2>4, <1>5
    <2> QED BY <2>4, <2>5, <2>6
  <1>7. /\ SameWorld /\ Preparing' /\ (Out' <=> Out) /\ Thread' /\ Streams'
    BY <1>1, <1>3, <1>4, <1>6, Prepares DEF SwitchIInv
  <1>8. MarkerStays /\ drainer'.at = "launch"
    BY <1>3, <1>4 DEF MarkerStays, InC, InP, InQ, InK, InD, SwitchIInv, Thread
  <1>9. SwitchTypes' /\ Contents'
    BY <1>4, <1>6, <1>7 DEF SwitchIInv, SwitchTypes, Contents, SameWorld, drain
  <1>10. n + Len(CollatedFrameRing) <= drains'[drain].seq
    <2>1. ~InC /\ ~Has(CollatedFrameRing, "parser")
      BY <1>2, Calm
    <2>2. Len(CollatedFrameRing) <= frames + drain
      BY <1>1, <1>5, <2>1 DEF SwitchIInv, Room
    <2> QED BY <2>2, <1>5, <1>6, RingAssumption, BoundsAssumption
  <1>11. Numbers'
    <2>1. \A d \in 1 .. Newest - 1 : drains'[d] = drains[d]
      BY <1>5, <1>6
    <2> QED BY <2>1, <1>4, <1>7, <1>8, <1>10
        DEF SwitchIInv, Numbers, SameWorld, MarkerStays
  <1>12. Marker' /\ Room' /\ Counts'
    BY <1>1, <1>4, <1>7, <1>8
    DEF SwitchIInv, Marker, Room, Counts, Uncounted, SameWorld, MarkerStays
  <1>13. ParserCall' /\ CodecCall'
    BY <1>4, <1>7, <1>8
    DEF SwitchIInv, ParserCall, CodecCall, SameWorld, MarkerStays
  <1>14. TimerCall' /\ CompleteCall' /\ Screen'
    BY <1>4, <1>7
    DEF SwitchIInv, TimerCall, CompleteCall, Screen, SameWorld
  <1> QED BY <1>7, <1>9, <1>11, <1>12, <1>13, <1>14 DEF SwitchIInv

LEMMA DrainFlushesStep ==
  ASSUME SwitchIInv, DrainFlushes, UNCHANGED switch
  PROVE  SwitchIInv'
  <1> DEFINE C == CollatedFrameRing
             M == ManifestedBufferRing
             n == NextBufferSequenceNumber
             b == Buffer("jump", drain, 0)
             KC == {"frame", "jump", "marker", "parser"}
             KM == {"frame", "marker", "drained", "complete"}
  <1>1. Preparing /\ drainer.at = "flush"
    BY DEF DrainFlushes, Preparing
  <1>2. ~Underway
    BY <1>1 DEF SwitchIInv, Thread, Preparing, Underway
  <1>3. /\ drainer' = [drainer EXCEPT !.at = "check"]
        /\ C' = Append(C, b) /\ M' = M \o shown /\ shown' = <<>>
        /\ codec' = [codec EXCEPT !.DiscardUntil = codec.Prepared]
    BY DEF DrainFlushes, Goes
  <1>4. /\ UNCHANGED <<ParsedFrameRing, DecodedFrameRing, busy, seen, calls,
                       passed, performing, CodecReset, LastOneOut,
                       NextBufferSequenceNumber, MarkerInCodedFrameIndex,
                       frames, drains, switcher, Stream, streamOf,
                       SwitchStreamInProgress>>
    BY DEF DrainFlushes, processes, player, input, switch
  <1>5. /\ n \in Nat /\ drain \in Nat /\ Number \in Nat /\ C \in Seq(Of(KC))
        /\ M \in Seq(Of(KM)) /\ shown \in Seq(Of({"frame"}))
        /\ World.number = Number /\ frames \in Nat /\ Len(C) \in Nat
        /\ codec \in Codecs
    <2>1. C \in Seq(Of(KC))
      BY DEF SwitchIInv, SwitchTypes
    <2> QED BY <2>1, Basics, LenProperties DEF SwitchIInv, SwitchTypes
  <1>6. /\ SameWorld /\ Preparing' /\ (Out' <=> Out) /\ Thread' /\ Streams'
    <2>1. drains' \in Seq(Asked) /\ Len(drains') = Len(drains)
          /\ \A d \in 1 .. Newest : drains'[d] = drains[d]
      BY <1>4 DEF SwitchIInv, SwitchTypes
    <2> QED BY <2>1, <1>1, <1>3, <1>4, Prepares DEF SwitchIInv
  <1>7. /\ codec' \in Codecs /\ codec'.decoding = codec.decoding
        /\ codec'.Prepared = codec.Prepared
        /\ codec'.Completed = codec.Completed
        /\ codec'.PassOnAt = codec.PassOnAt /\ codec'.Marker = codec.Marker
        /\ codec'.input = codec.input /\ codec'.callback = codec.callback
    BY <1>3, <1>5 DEF Codecs
  <1>8. /\ b \in Of(KC) /\ b.kind = "jump" /\ ~Old(b, World) /\ ~New(b, World)
        /\ InWorld(b, World)
    BY <1>5 DEF Buffer, Of, Old, New, InWorld
  <1>9. /\ C' \in Seq(Of(KC)) /\ Collated(C', n, World)
        /\ Len(C') = Len(C) + 1
        /\ FlagsOfAppend(C, b, World)
    BY <1>3, <1>5, <1>8, CollatedAppend, Flags DEF SwitchIInv, Contents
  <1>10. /\ M' \in Seq(Of(KM)) /\ OnScreen(M', n, World)
         /\ NoOld(M', World) /\ ~Has(M', "complete")
         /\ NoOld(shown', World) /\ shown' \in Seq(Of({"frame"}))
         /\ OnScreen(shown', n, World)
    <2>1. /\ NoOld(M, World) /\ NoOld(shown, World) /\ ~Has(M, "complete")
          /\ OnScreen(M, n, World) /\ OnScreen(shown, n, World)
      BY <1>2, Calm DEF SwitchIInv, Contents
    <2>2. shown \in Seq(Of(KM))
      <3>1. Of({"frame"}) \subseteq Of(KM)
        BY DEF Of
      <3> QED BY <3>1, <1>5, SeqMonotonic
    <2>3. ~Has(shown, "complete")
      <3>1. \A i \in 1 .. Len(shown) : shown[i] \in Of({"frame"})
        BY <1>5, ElementOfSeq
      <3> QED BY <3>1 DEF Has, Of
    <2>4. /\ M' \in Seq(Of(KM)) /\ NoOld(M', World) /\ TwoStreams(M', World)
          /\ Around(M', World) /\ MarkersUpTo(M', World) /\ Below(M', n)
          /\ ~Has(M', "complete")
      BY <1>3, <1>5, <2>1, <2>2, <2>3, JoinKeeps DEF OnScreen
    <2>5. TheCall("complete", World).kind = "complete"
      BY DEF TheCall, Buffer
    <2>6. OneCall(M', TheCall("complete", World), World) /\ InTurn(M', World)
      BY <2>4, <2>5, Lacking
    <2>7. OnScreen(M', n, World)
      BY <2>4, <2>6 DEF OnScreen
    <2>8. /\ NoOld(shown', World) /\ OnScreen(shown', n, World)
          /\ shown' \in Seq(Of({"frame"}))
      BY <1>3, NothingIn, EmptySeq
    <2> QED BY <2>4, <2>7, <2>8
  <1>11. /\ MarkerStays /\ (Has(C', "parser") <=> Has(C, "parser"))
         /\ NoOld(C, World) => NoOld(C', World)
         /\ NoNew(C, World) => NoNew(C', World)
         /\ drainer'.at = "check"
    BY <1>3, <1>4, <1>7, <1>8, <1>9
    DEF FlagsOfAppend, MarkerStays, InC, InP, InQ, InK, InD, SwitchIInv, Thread
  <1>12. SwitchTypes' /\ Contents'
    <2>1. SwitchTypes'
      BY <1>4, <1>6, <1>7, <1>9, <1>10 DEF SwitchIInv, SwitchTypes, SameWorld
    <2> QED BY <2>1, <1>4, <1>6, <1>7, <1>9, <1>10
        DEF SwitchIInv, Contents, SameWorld
  <1>13. Marker' /\ Numbers'
    BY <1>1, <1>4, <1>6, <1>7, <1>11
    DEF SwitchIInv, Marker, Numbers, SameWorld, MarkerStays
  <1>14. Room' /\ Counts'
    <2>1. Room'
      BY <1>1, <1>4, <1>5, <1>6, <1>9, <1>11
      DEF SwitchIInv, Room, SameWorld, MarkerStays
    <2> QED BY <2>1, <1>4, <1>6, <1>7, <1>11
        DEF SwitchIInv, Counts, Uncounted, SameWorld, MarkerStays
  <1>15. ParserCall' /\ CodecCall'
    BY <1>2, <1>4, <1>6, <1>7, <1>11, Calm
    DEF SwitchIInv, ParserCall, CodecCall, SameWorld, MarkerStays
  <1>16. TimerCall' /\ CompleteCall' /\ Screen'
    BY <1>2, <1>4, <1>6, <1>10, Calm
    DEF SwitchIInv, TimerCall, CompleteCall, Screen, SameWorld
  <1> QED BY <1>6, <1>12, <1>13, <1>14, <1>15, <1>16 DEF SwitchIInv

LEMMA DrainLaunchesStep ==
  ASSUME SwitchIInv, DrainLaunches, UNCHANGED switch
  PROVE  SwitchIInv'
  <1> DEFINE C == CollatedFrameRing
             P == ParsedFrameRing
             D == DecodedFrameRing
             M == ManifestedBufferRing
             n == NextBufferSequenceNumber
             v == drains[drain].seq
             b == Buffer("marker", drain, v)
             KC == {"frame", "jump", "marker", "parser"}
             KP == {"frame", "marker", "codec"}
             KD == {"frame", "marker", "reset", "timer"}
             KM == {"frame", "marker", "drained", "complete"}
  <1>1. Preparing /\ drainer.at = "launch"
    BY DEF DrainLaunches, Preparing
  <1>2. ~Underway
    BY <1>1 DEF SwitchIInv, Thread, Preparing, Underway
  <1>3. /\ drainer' = [drainer EXCEPT !.at = "reset"]
        /\ C' = Append(C, b) /\ MarkerInCodedFrameIndex' = drain
        /\ drains' = [drains EXCEPT ![drain].behind = frames]
    BY DEF DrainLaunches, Goes, DrainSequenceNumber
  <1>4. /\ UNCHANGED <<ParsedFrameRing, DecodedFrameRing, ManifestedBufferRing,
                       shown, codec, busy, seen, calls, passed, performing,
                       CodecReset, LastOneOut, NextBufferSequenceNumber,
                       frames, switcher, Stream, streamOf,
                       SwitchStreamInProgress>>
    BY DEF DrainLaunches, processes, switch
  <1>5. /\ n \in Nat /\ drain \in Nat /\ Newest \in Nat /\ Number \in Nat
        /\ v \in Nat /\ drain = Newest + 1 /\ C \in Seq(Of(KC))
        /\ P \in Seq(Of(KP)) /\ D \in Seq(Of(KD)) /\ M \in Seq(Of(KM))
        /\ shown \in Seq(Of({"frame"})) /\ codec.decoding \in Seq(Of({"frame"}))
        /\ World.number = Number /\ World.newest = Newest
        /\ World.streams = streamOf
        /\ frames \in Nat /\ Len(C) \in Nat /\ n + Len(C) <= v
        /\ drains \in Seq(Asked) /\ drain \in 1 .. Len(drains)
    <2>1. /\ n \in Nat /\ drain \in Nat /\ Newest \in Nat /\ Number \in Nat
          /\ drain = Newest + 1 /\ C \in Seq(Of(KC))
          /\ P \in Seq(Of(KP)) /\ D \in Seq(Of(KD)) /\ M \in Seq(Of(KM))
          /\ shown \in Seq(Of({"frame"}))
          /\ codec.decoding \in Seq(Of({"frame"}))
          /\ World.number = Number /\ World.newest = Newest
          /\ World.streams = streamOf
          /\ frames \in Nat /\ drains \in Seq(Asked)
          /\ \A d \in 1 .. drain : drains[d].seq \in Nat
      BY <1>1, Basics DEF SwitchIInv, SwitchTypes, Codecs
    <2>2. Len(C) \in Nat
      BY <2>1, LenProperties
    <2>3. n + Len(C) <= v
      BY <1>1 DEF SwitchIInv, Numbers
    <2>4. drain \in 1 .. Len(drains) /\ v \in Nat
      BY <2>1 DEF drain
    <2> QED BY <2>1, <2>2, <2>3, <2>4
  <1>6. /\ drains' \in Seq(Asked) /\ Len(drains') = Len(drains)
        /\ \A d \in 1 .. drain : drains'[d].seq = drains[d].seq
    <2>1. drains[drain] \in Asked
      BY <1>5, ElementOfSeq
    <2> DEFINE a == [drains[drain] EXCEPT !.behind = frames]
    <2>2. a \in Asked /\ a.seq = v
      BY <2>1, <1>5 DEF Asked
    <2>3. drains' = [drains EXCEPT ![drain] = a]
      BY <1>3
    <2> HIDE DEF a
    <2>4. /\ drains' \in Seq(Asked) /\ Len(drains') = Len(drains)
          /\ \A i \in 1 .. Len(drains) :
               drains'[i] = IF i = drain THEN a ELSE drains[i]
      BY <2>2, <2>3, <1>5, ExceptSeq
    <2>5. \A d \in 1 .. drain : d \in 1 .. Len(drains)
      BY DEF drain
    <2> QED BY <2>2, <2>4, <2>5
  <1>7. /\ drain' = drain /\ ~Preparing' /\ Newest' = drain /\ Number' = v
        /\ Underway' /\ ~Out' /\ switcher = "drain" /\ ~SwitchStreamInProgress
        /\ ~Sent("CtoP")' /\ ~Sent("PtoD")' /\ ~Sent("DtoM")' /\ ~Sent("PostM")'
        /\ drainer'.at = "reset"
    <2>1. /\ switcher = "drain" /\ ~SwitchStreamInProgress
          /\ drainer'.at = "reset"
      BY <1>1, <1>3 DEF SwitchIInv, Thread
    <2>2. drain' = drain /\ ~Preparing'
      BY <2>1, <1>6 DEF drain, Preparing
    <2>3. Newest' = drain
      BY <2>2 DEF Newest
    <2>4. Number' = v
      BY <2>3, <1>5, <1>6 DEF Number
    <2>5. Underway'
      BY <2>1, <2>2, <1>4 DEF Underway
    <2> QED BY <2>1, <2>2, <2>3, <2>4, <2>5, <1>4 DEF Sent, Before, Out
  <1> DEFINE w == World'
  <1>8. /\ w.newest = World.newest + 1 /\ w.number = v /\ w.streams = World.streams
        /\ w.newest = drain
    BY <1>4, <1>5, <1>7 DEF World
  <1> HIDE DEF w
  <1>9. /\ ~InC /\ ~InP /\ ~InQ /\ ~InK /\ ~InD
        /\ NoOld(C, World) /\ NoOld(P, World) /\ NoOld(codec.decoding, World)
        /\ NoOld(D, World) /\ NoOld(shown, World) /\ NoOld(M, World)
        /\ ~Has(C, "parser") /\ ~Has(P, "codec")
        /\ ~Has(D, "timer") /\ ~Has(M, "complete")
        /\ performing = {} /\ ~CodecReset
        /\ calls["CtoP"] = {} /\ calls["PtoD"] = {} /\ calls["DtoM"] = {}
        /\ calls["PostM"] = {}
        /\ Stream.FrameParser = Newest /\ Stream.Codec = Newest
        /\ Number < n
    BY <1>2, Calm
  <1>10. ~Has(codec.decoding, "codec") /\ ~Has(codec.decoding, "marker")
           /\ ~Has(shown, "complete")
    <2>1. /\ \A i \in 1 .. Len(codec.decoding) :
               codec.decoding[i] \in Of({"frame"})
          /\ \A i \in 1 .. Len(shown) : shown[i] \in Of({"frame"})
      BY <1>5, ElementOfSeq
    <2> QED BY <2>1 DEF Has, Of
  <1>11. /\ Collated(C, n, World) /\ TwoStreams(C, World)
         /\ Line(P, "codec", n, World) /\ TwoStreams(P, World)
         /\ Line(codec.decoding, "codec", n, World)
         /\ TwoStreams(codec.decoding, World)
         /\ Line(D, "timer", n, World) /\ TwoStreams(D, World)
         /\ OnScreen(shown, n, World) /\ TwoStreams(shown, World)
         /\ OnScreen(M, n, World) /\ TwoStreams(M, World)
    BY DEF SwitchIInv, Contents, Collated, Line, OnScreen
  <1>12. World.newest \in Nat /\ w.number \in Nat /\ n <= w.number
    BY <1>5, <1>8
  <1>13. Collated(C, n, w) /\ NoNew(C, w)
    BY <1>5, <1>8, <1>9, <1>11, <1>12, RingsInTurnedWorld DEF InC
  <1>14. Line(P, "codec", n, w) /\ NoNew(P, w)
    BY <1>5, <1>8, <1>9, <1>11, <1>12, RingsInTurnedWorld DEF InP
  <1>15. Line(codec.decoding, "codec", n, w) /\ NoNew(codec.decoding, w)
    BY <1>5, <1>8, <1>9, <1>10, <1>11, <1>12, RingsInTurnedWorld
  <1>16. Line(D, "timer", n, w) /\ NoNew(D, w)
    BY <1>5, <1>8, <1>9, <1>11, <1>12, RingsInTurnedWorld DEF InD
  <1>17. OnScreen(shown, n, w) /\ NoNew(shown, w)
    BY <1>5, <1>8, <1>9, <1>10, <1>11, <1>12, RingsInTurnedWorld
  <1>18. OnScreen(M, n, w) /\ NoNew(M, w)
    BY <1>5, <1>8, <1>9, <1>11, <1>12, RingsInTurnedWorld
  <1>19. /\ b \in Of(KC) /\ b.kind = "marker" /\ b = TheMarker(w)
         /\ ~Old(b, w) /\ ~New(b, w) /\ InWorld(b, w)
    BY <1>5, <1>8 DEF Buffer, Of, TheMarker, Old, New, InWorld
  <1>20. /\ C' \in Seq(Of(KC)) /\ Collated(C', n, w) /\ Len(C') = Len(C) + 1
         /\ FlagsOfAppend(C, b, w)
    <2>1. n + Len(C) <= w.number /\ ~Has(C, "marker")
      BY <1>5, <1>8, <1>9 DEF InC
    <2> QED BY <2>1, <1>3, <1>5, <1>9, <1>12, <1>13, <1>19, CollatedAppend, Flags
  <1>21. /\ InC' /\ ~InP' /\ ~InQ' /\ ~InK' /\ ~InD'
         /\ ~Has(C', "parser") /\ NoNew(C', w)
    <2>1. Has(C', "marker") /\ ~Has(C', "parser") /\ NoNew(C', w)
      <3>1. \A kind : Has(C', kind) <=> Has(C, kind) \/ b.kind = kind
        BY <1>3, <1>20 DEF FlagsOfAppend
      <3>2. NoNew(C', w)
        BY <1>3, <1>13, <1>19, <1>20 DEF FlagsOfAppend
      <3>3. Has(C', "marker")
        BY <3>1, <1>19
      <3>4. ~Has(C', "parser")
        BY <3>1, <1>9, <1>19
      <3> QED BY <3>2, <3>3, <3>4
    <2> QED BY <2>1, <1>4, <1>9 DEF InC, InP, InQ, InK, InD
  <1>22. busy["PtoD"] = NoBuffer /\ codec.Marker = NoBuffer
    BY <1>2, <1>9, MarkerIs DEF InK
  <1>23. SwitchTypes'
    BY <1>3, <1>4, <1>5, <1>6, <1>7, <1>20 DEF SwitchIInv, SwitchTypes
  <1>24. Thread' /\ Contents' /\ Streams'
    <2>1. Thread'
      <3>1. /\ drainer' \in [at : {"idle", "flush", "check", "number",
                                   "launch", "reset", "event"},
                             nonBlocking : BOOLEAN]
            /\ drainer'.nonBlocking = drainer.nonBlocking
        BY <1>3 DEF SwitchIInv, Thread
      <3> QED BY <3>1, <1>1, <1>4, <1>7 DEF SwitchIInv, Thread
    <2>2. Contents'
      BY <1>4, <1>14, <1>15, <1>16, <1>17, <1>18, <1>20 DEF Contents, w
    <2>3. Streams'
      BY <1>1, <1>4, <1>5, <1>7 DEF SwitchIInv, Streams
    <2> QED BY <2>1, <2>2, <2>3
  <1>25. Marker'
    BY <1>3, <1>4, <1>7, <1>21, <1>22 DEF Marker
  <1>26. Numbers'
    <2>0. n \in Nat /\ v \in Nat /\ n <= v
      BY <1>5, <1>8, <1>12
    <2>1. /\ passed["PtoD"] \in Nat /\ seen["DtoM"] \in Nat
          /\ seen["PostM"] \in Nat
          /\ \A d \in 1 .. drain : drains[d].seq \in Nat
      BY Basics DEF SwitchIInv, SwitchTypes
    <2>2. ASSUME NEW d \in 1 .. Newest
          PROVE  drains'[d].seq < n /\ drains'[d].seq < v
      <3>1. d \in 1 .. drain /\ drains'[d].seq = drains[d].seq
        BY <1>5, <1>6
      <3>2. drains[d].seq < n
        <4>1. CASE d = Newest
          BY <4>1, <1>5, <1>9 DEF Number
        <4>2. CASE d # Newest
          <5>1. d \in 1 .. Newest - 1
            BY <4>2, <1>5
          <5> QED BY <5>1 DEF SwitchIInv, Numbers
        <4> QED BY <4>1, <4>2
      <3>3. drains[d].seq \in Nat /\ n <= v /\ n \in Nat /\ v \in Nat
        BY <3>1, <2>1, <2>0
      <3>4. drains[d].seq < v
        BY <3>2, <3>3
      <3> QED BY <3>1, <3>2, <3>4
    <2>3. \A d \in 1 .. Newest' - 1 : /\ drains'[d].seq < n'
                                      /\ drains'[d].seq < Number'
      <3>1. Newest' - 1 = Newest
        BY <1>5, <1>7
      <3> QED BY <3>1, <2>2, <1>4, <1>7
    <2>4. /\ passed["PtoD"] < n /\ seen["DtoM"] < n /\ seen["PostM"] < n
          /\ passed["CtoP"] + 1 = n
      BY DEF SwitchIInv, Numbers
    <2>5. ~(v < n) /\ passed["PtoD"] < v /\ seen["DtoM"] < v /\ seen["PostM"] <= v
      BY <2>0, <2>1, <2>4
    <2> QED BY <2>3, <2>4, <2>5, <1>4, <1>7, <1>21 DEF Numbers
  <1>27. Room' /\ Counts'
    <2>1. Room'
      <3>1. Len(C) <= frames + drain
        BY <1>1, <1>5, <1>9 DEF SwitchIInv, Room
      <3> QED BY <3>1, <1>4, <1>5, <1>7, <1>20, <1>21 DEF Room
    <2>2. codec.input = "idle" /\ codec.callback # "take"
      BY <1>2, <1>22 DEF SwitchIInv, Counts
    <2>3. Counts'
      BY <2>2, <1>4, <1>9, <1>21, <1>22 DEF SwitchIInv, Counts, Uncounted
    <2> QED BY <2>1, <2>3
  <1>28. ParserCall' /\ CodecCall'
    <2>1. /\ Stream.FrameParser # Newest' /\ Stream.FrameParser + 1 = Newest'
          /\ Stream.Codec # Newest' /\ Stream.Codec + 1 = Newest'
      BY <1>5, <1>7, <1>9
    <2>2. ParserCall'
      BY <2>1, <1>4, <1>7, <1>9, <1>14, <1>15, <1>16, <1>17, <1>18, <1>21
      DEF ParserCall, w
    <2>3. CodecCall'
      BY <2>1, <1>4, <1>7, <1>9, <1>14, <1>15, <1>16, <1>17, <1>18, <1>21
      DEF CodecCall, w
    <2> QED BY <2>2, <2>3
  <1>29. TimerCall' /\ CompleteCall' /\ Screen'
    BY <1>4, <1>7, <1>9, <1>18 DEF TimerCall, CompleteCall, Screen, w
  <1> QED BY <1>23, <1>24, <1>25, <1>26, <1>27, <1>28, <1>29 DEF SwitchIInv

\* The thread goes on behind its marker.
LEMMA GoesOn ==
  ASSUME SwitchTypes, Thread, drainer.at \in {"reset", "event"},
         NEW p \in {"event", "idle"}, drainer' = [drainer EXCEPT !.at = p],
         UNCHANGED <<drains, frames, switcher, Stream, SwitchStreamInProgress,
                     streamOf>>
  PROVE  /\ SameWorld /\ drainer'.at = p /\ drain > 0
         /\ LastOneOut' = LastOneOut => (Out' <=> Out)
         /\ Thread'
         /\ Streams => Streams'
  <1>1. /\ drainer'.at = p /\ drainer'.nonBlocking = drainer.nonBlocking
        /\ drainer' \in [at : {"idle", "flush", "check", "number", "launch",
                               "reset", "event"},
                         nonBlocking : BOOLEAN]
        /\ switcher = "drain" /\ drainer.nonBlocking /\ drain > 0
    BY DEF Thread
  <1>2. drain' = drain /\ ~Preparing /\ ~Preparing'
    BY <1>1 DEF drain, Preparing
  <1>3. Newest' = Newest
    BY <1>2 DEF Newest
  <1>4. Number' = Number
    BY <1>3 DEF Number
  <1>5. World' = World
    BY <1>3, <1>4 DEF World
  <1>6. Underway' <=> Underway
    BY <1>2 DEF Underway
  <1>7. /\ (Sent("CtoP")' <=> Sent("CtoP")) /\ (Sent("PtoD")' <=> Sent("PtoD"))
        /\ (Sent("DtoM")' <=> Sent("DtoM"))
        /\ (Sent("PostM")' <=> Sent("PostM"))
        /\ LastOneOut' = LastOneOut => (Out' <=> Out)
    BY <1>6 DEF Sent, Before, Out
  <1>8. Thread'
    BY <1>1, <1>2 DEF Thread
  <1>9. Streams => Streams'
    BY <1>2, <1>3 DEF Streams
  <1> QED BY <1>1, <1>2, <1>3, <1>4, <1>5, <1>6, <1>7, <1>8, <1>9 DEF SameWorld

LEMMA DrainCallsStep ==
  ASSUME SwitchIInv, DrainCalls, UNCHANGED switch
  PROVE  SwitchIInv'
  <1> DEFINE D == DecodedFrameRing
             M == ManifestedBufferRing
             n == NextBufferSequenceNumber
             r == Buffer("reset", drain, DrainSequenceNumber)
             e == Buffer("drained", drain, DrainSequenceNumber)
             KD == {"frame", "marker", "reset", "timer"}
             KM == {"frame", "marker", "drained", "complete"}
  <1>1. PICK p \in {"event", "idle"} :
          /\ drainer' = [drainer EXCEPT !.at = p]
          /\ drainer.at \in {"reset", "event"}
          /\ p = "event" => D' = Append(D, r) /\ M' = M
          /\ p = "idle" => D' = D /\ M' = Append(M, e)
    <2>1. CASE drainer.at = "reset"
      BY <2>1 DEF DrainCalls, Goes
    <2>2. CASE drainer.at = "event"
      <3>1. drainer.nonBlocking
        BY <2>2 DEF SwitchIInv, Thread
      <3> QED BY <2>2, <3>1 DEF DrainCalls, Goes
    <2> QED BY <2>1, <2>2 DEF DrainCalls
  <1>2. /\ UNCHANGED <<CollatedFrameRing, ParsedFrameRing, shown, codec, busy,
                       seen, calls, passed, performing, CodecReset, LastOneOut,
                       NextBufferSequenceNumber, MarkerInCodedFrameIndex,
                       drains, frames, switcher, Stream, streamOf,
                       SwitchStreamInProgress>>
    BY DEF DrainCalls, processes, player, input, switch
  <1>3. /\ SameWorld /\ (Out' <=> Out) /\ Thread' /\ Streams'
        /\ drainer'.at = p /\ drain > 0
    BY <1>1, <1>2, GoesOn DEF SwitchIInv
  <1>4. /\ n \in Nat /\ drain \in Nat /\ DrainSequenceNumber \in Nat
        /\ D \in Seq(Of(KD)) /\ M \in Seq(Of(KM)) /\ World.number \in Nat
        /\ Line(D, "timer", n, World) /\ OnScreen(M, n, World)
    <2>1. drain \in Nat /\ \A d \in 1 .. drain : drains[d].seq \in Nat
      BY Basics DEF SwitchIInv
    <2>2. DrainSequenceNumber \in Nat
      BY <2>1, <1>3 DEF DrainSequenceNumber
    <2> QED BY <2>1, <2>2, Basics DEF SwitchIInv, SwitchTypes, Contents
  <1>5. /\ r \in Of(KD) /\ r.kind = "reset" /\ e \in Of(KM)
        /\ e.kind = "drained"
        /\ ~Old(r, World) /\ ~New(r, World) /\ InWorld(r, World)
        /\ Beside(r, World)
        /\ ~Old(e, World) /\ ~New(e, World) /\ InWorld(e, World)
        /\ Beside(e, World)
    BY <1>4 DEF Buffer, Of, Old, New, InWorld, Beside
  <1>6. /\ D' \in Seq(Of(KD)) /\ Line(D', "timer", n, World)
        /\ InD' <=> InD
        /\ Has(D', "timer") <=> Has(D, "timer")
        /\ NoOld(D', World) <=> NoOld(D, World)
        /\ NoNew(D', World) <=> NoNew(D, World)
    <2>1. CASE D' = D
      BY <2>1, <1>4 DEF InD
    <2>2. CASE D' = Append(D, r)
      <3>1. /\ Append(D, r) \in Seq(Of(KD))
            /\ Line(Append(D, r), "timer", n, World)
            /\ FlagsOfAppend(D, r, World)
        BY <1>4, <1>5, LineAppend, Flags
      <3> QED BY <3>1, <2>2, <1>5 DEF FlagsOfAppend, InD
    <2> QED BY <2>1, <2>2, <1>1
  <1>7. /\ M' \in Seq(Of(KM)) /\ OnScreen(M', n, World)
        /\ Has(M', "complete") <=> Has(M, "complete")
        /\ NoOld(M', World) <=> NoOld(M, World)
        /\ NoNew(M', World) <=> NoNew(M, World)
    <2>1. CASE M' = M
      BY <2>1, <1>4
    <2>2. CASE M' = Append(M, e)
      <3>1. /\ Append(M, e) \in Seq(Of(KM))
            /\ OnScreen(Append(M, e), n, World)
            /\ FlagsOfAppend(M, e, World)
        BY <1>4, <1>5, ScreenAppend, Flags
      <3> QED BY <3>1, <2>2, <1>5 DEF FlagsOfAppend
    <2> QED BY <2>1, <2>2, <1>1
  <1>8. MarkerStays
    BY <1>2, <1>6 DEF MarkerStays, InC, InP, InQ, InK
  <1>9. SwitchTypes' /\ Contents'
    <2>1. SwitchTypes'
      BY <1>2, <1>3, <1>6, <1>7 DEF SwitchIInv, SwitchTypes, SameWorld
    <2> QED BY <2>1, <1>2, <1>3, <1>6, <1>7 DEF SwitchIInv, Contents, SameWorld
  <1>10. Marker' /\ Counts'
    BY <1>2, <1>3, <1>6, <1>8
    DEF SwitchIInv, Marker, Counts, Uncounted, SameWorld, MarkerStays
  <1>11. Numbers' /\ Room'
    <2>1. drainer'.at \notin {"launch", "flush"}
      BY <1>3
    <2>2. drainer.at \notin {"launch", "flush"}
      BY <1>1
    <2> QED BY <2>1, <2>2, <1>2, <1>3, <1>8
        DEF SwitchIInv, Numbers, Room, SameWorld, MarkerStays
  <1>12. ParserCall' /\ CodecCall'
    BY <1>2, <1>3, <1>6, <1>7, <1>8
    DEF SwitchIInv, ParserCall, CodecCall, SameWorld, MarkerStays
  <1>13. TimerCall' /\ CompleteCall' /\ Screen'
    BY <1>2, <1>3, <1>6, <1>7
    DEF SwitchIInv, TimerCall, CompleteCall, Screen, SameWorld
  <1> QED BY <1>3, <1>9, <1>10, <1>11, <1>12, <1>13 DEF SwitchIInv

LEMMA SwitchBeginsStep ==
  ASSUME SwitchIInv, SwitchBegins
  PROVE  SwitchIInv'
  <1> DEFINE n == NextBufferSequenceNumber
  <1>1. /\ switcher = "idle" /\ drainer.at = "idle" /\ ~SwitchStreamInProgress
        /\ switcher' = "drain" /\ drain < MaxDrains
        /\ UNCHANGED <<CollatedFrameRing, ParsedFrameRing, DecodedFrameRing,
                       ManifestedBufferRing, shown, codec, busy, seen, calls,
                       passed, performing, CodecReset, LastOneOut,
                       NextBufferSequenceNumber, MarkerInCodedFrameIndex,
                       frames, Stream, streamOf, SwitchStreamInProgress>>
    BY DEF SwitchBegins, MaySwitch, DrainBegins, rings, processes
  <1>2. PICK a : /\ drains' = Append(drains, a) /\ a \in Asked
                 /\ drainer'.at \in {"flush", "check"} /\ drainer'.nonBlocking
                 /\ drainer' \in [at : {"idle", "flush", "check", "number",
                                        "launch", "reset", "event"},
                                  nonBlocking : BOOLEAN]
    <2>1. drainer'.nonBlocking
      BY DEF SwitchBegins
    <2>2. PICK discard \in BOOLEAN, parseAll \in ParseAllCalls,
               nonBlocking \in NonBlockingCalls :
            /\ drains' = Append(drains, [discard |-> discard,
                                         parseAll |-> parseAll, seq |-> 0,
                                         behind |-> Never, back |-> Never])
            /\ drainer' = [at |-> IF discard THEN "flush" ELSE "check",
                           nonBlocking |-> nonBlocking]
      BY DEF SwitchBegins, DrainBegins
    <2>3. [discard |-> discard, parseAll |-> parseAll, seq |-> 0,
           behind |-> Never, back |-> Never] \in Asked
      BY BoundsAssumption, CallsAssumption DEF Asked, Never
    <2>4. nonBlocking \in BOOLEAN
      BY CallsAssumption
    <2> QED BY <2>1, <2>2, <2>3, <2>4
  <1>3. /\ drain \in Nat /\ drains \in Seq(Asked) /\ ~Preparing /\ Newest = drain
        /\ Newest \in Nat
    BY <1>1, Basics DEF SwitchIInv, SwitchTypes, Preparing
  <1>4. /\ drains' \in Seq(Asked) /\ drain' = drain + 1
        /\ \A d \in 1 .. Newest : drains'[d] = drains[d]
    BY <1>2, <1>3, AppendProperties DEF drain
  <1>5. /\ Preparing' /\ Newest' = Newest /\ Number' = Number /\ World' = World
        /\ ~Underway /\ ~Underway'
    <2>1. Preparing'
      BY <1>2 DEF Preparing
    <2>2. Newest' = Newest
      BY <2>1, <1>3, <1>4 DEF Newest
    <2>3. Number' = Number
      BY <2>2, <1>3, <1>4 DEF Number
    <2> QED BY <2>1, <2>2, <2>3, <1>1 DEF World, Underway
  <1>6. /\ Out /\ Out' /\ MarkerStays
        /\ ~Sent("CtoP")' /\ ~Sent("PtoD")' /\ ~Sent("DtoM")' /\ ~Sent("PostM")'
        /\ ~Sent("CtoP") /\ ~Sent("PtoD") /\ ~Sent("DtoM") /\ ~Sent("PostM")
    BY <1>1, <1>5 DEF Out, Sent, MarkerStays, InC, InP, InQ, InK, InD
  <1>7. SwitchTypes' /\ Contents'
    <2>1. drain' <= MaxDrains
      BY <1>1, <1>3, <1>4, BoundsAssumption
    <2>2. SwitchTypes'
      BY <2>1, <1>1, <1>4 DEF SwitchIInv, SwitchTypes
    <2> QED BY <2>2, <1>1, <1>5 DEF SwitchIInv, Contents
  <1>8. Thread' /\ Streams'
    <2>1. Thread'
      BY <1>1, <1>2, <1>3, <1>4 DEF SwitchIInv, Thread, Stages
    <2>2. Streams'
      BY <1>1, <1>3, <1>4, <1>5 DEF SwitchIInv, Streams
    <2> QED BY <2>1, <2>2
  <1>9. Marker' /\ Counts'
    BY <1>1, <1>5, <1>6
    DEF SwitchIInv, Marker, Counts, Uncounted, MarkerStays
  <1>10. Numbers'
    <2>1. \A d \in 1 .. Newest - 1 : drains'[d] = drains[d]
      BY <1>3, <1>4
    <2> QED BY <2>1, <1>1, <1>2, <1>5, <1>6
        DEF SwitchIInv, Numbers, MarkerStays
  <1>11. Room'
    <2>1. frames \in Nat /\ Len(CollatedFrameRing) \in Nat
      BY LenProperties DEF SwitchIInv, SwitchTypes
    <2> QED BY <2>1, <1>1, <1>3, <1>4, <1>6 DEF SwitchIInv, Room, MarkerStays
  <1>12. ParserCall' /\ CodecCall'
    BY <1>1, <1>5, <1>6 DEF SwitchIInv, ParserCall, CodecCall, MarkerStays
  <1>13. TimerCall' /\ CompleteCall' /\ Screen'
    BY <1>1, <1>5, <1>6 DEF SwitchIInv, TimerCall, CompleteCall, Screen
  <1> QED BY <1>7, <1>8, <1>9, <1>10, <1>11, <1>12, <1>13 DEF SwitchIInv

LEMMA SwitchCollatorStep ==
  ASSUME SwitchIInv, SwitchCollator
  PROVE  SwitchIInv'
  <1>1. /\ switcher = "drain" /\ drainer.at = "idle" /\ switcher' = "CtoP"
        /\ SwitchStreamInProgress' = TRUE
        /\ Stream' = [Stream EXCEPT !.Collator = @ + 1]
        /\ UNCHANGED <<CollatedFrameRing, ParsedFrameRing, DecodedFrameRing,
                       ManifestedBufferRing, shown, codec, busy, seen, calls,
                       passed, performing, CodecReset, drainer, drains,
                       NextBufferSequenceNumber, MarkerInCodedFrameIndex,
                       frames, streamOf>>
    BY DEF SwitchCollator, SwitchMarks, vars, rings, processes, player, input
  <1>2. /\ Stream' \in [Collator : Nat, FrameParser : Nat, Codec : Nat]
        /\ Stream'.FrameParser = Stream.FrameParser
        /\ Stream'.Codec = Stream.Codec
        /\ Stream'.Collator = Stream.Collator + 1 /\ Stream.Collator \in Nat
    <2>1. Stream \in [Collator : Nat, FrameParser : Nat, Codec : Nat]
      BY DEF SwitchIInv, SwitchTypes
    <2>2. Stream.Collator \in Nat /\ Stream.Collator + 1 \in Nat
      BY <2>1
    <2>3. Stream' = [Stream EXCEPT !.Collator = Stream.Collator + 1]
      BY <1>1
    <2> QED BY <2>1, <2>2, <2>3
  <1>3. /\ ~Preparing /\ ~Preparing' /\ drain' = drain /\ drain \in Nat
        /\ Stream.Collator = drain - 1
    BY <1>1, Basics DEF SwitchIInv, Preparing, drain, Thread
  <1>4. Newest' = Newest
    BY <1>3 DEF Newest
  <1>5. Number' = Number
    BY <1>1, <1>4 DEF Number
  <1>6. World' = World
    BY <1>1, <1>4, <1>5 DEF World
  <1>7. Underway /\ Underway'
    BY <1>1, <1>3 DEF Underway
  <1>8. ~Out /\ ~Out'
    BY <1>1, <1>7 DEF Out, SwitchCollator, SwitchMarks
  <1>9. SameWorld
    <2>1. /\ ~Sent("CtoP") /\ ~Sent("PtoD") /\ ~Sent("DtoM") /\ ~Sent("PostM")
      BY <1>1 DEF Sent, Before
    <2>2. /\ ~Sent("CtoP")' /\ ~Sent("PtoD")' /\ ~Sent("DtoM")'
          /\ ~Sent("PostM")'
      BY <1>1 DEF Sent, Before, Stages
    <2> QED BY <2>1, <2>2, <1>3, <1>4, <1>5, <1>6, <1>7 DEF SameWorld
  <1>10. MarkerStays
    BY <1>1 DEF MarkerStays, InC, InP, InQ, InK, InD
  <1>11. SwitchTypes' /\ Contents'
    <2>1. LastOneOut' \in BOOLEAN
      BY DEF SwitchCollator, SwitchMarks
    <2>2. SwitchTypes'
      BY <2>1, <1>1, <1>2, <1>3 DEF SwitchIInv, SwitchTypes
    <2> QED BY <2>2, <1>1, <1>6 DEF SwitchIInv, Contents
  <1>12. Thread' /\ Streams'
    <2>1. Thread'
      BY <1>1, <1>2, <1>3 DEF SwitchIInv, Thread, Stages
    <2>2. Streams'
      BY <1>1, <1>3, <1>4 DEF SwitchIInv, Streams
    <2> QED BY <2>1, <2>2
  <1>13. Marker' /\ Numbers' /\ Room' /\ Counts'
    BY <1>1, <1>2, <1>9, <1>10
    DEF SwitchIInv, Marker, Numbers, Room, Counts, Uncounted, SameWorld,
        MarkerStays
  <1>14. ParserCall' /\ CodecCall'
    BY <1>1, <1>2, <1>8, <1>9, <1>10
    DEF SwitchIInv, ParserCall, CodecCall, SameWorld, MarkerStays
  <1>15. TimerCall' /\ CompleteCall' /\ Screen'
    BY <1>1, <1>8, <1>9
    DEF SwitchIInv, TimerCall, CompleteCall, Screen, SameWorld
  <1> QED BY <1>11, <1>12, <1>13, <1>14, <1>15 DEF SwitchIInv

\* The drains are numbered in their order: DrainSequenceNumber is the last's.
LEMMA LastNumber ==
  ASSUME SwitchIInv, ~Preparing
  PROVE  StreamDrainSequenceNumber = Number
  <1> DEFINE S == {0} \union {drains[d].seq : d \in 1 .. drain}
  <1>1. /\ drain \in Nat /\ Number \in Nat /\ Newest = drain
        /\ \A d \in 1 .. drain : drains[d].seq \in Nat
    BY Basics DEF SwitchIInv
  <1>2. Number \in S
    BY <1>1 DEF Number
  <1>3. \A y \in S : y \in Nat /\ Number >= y
    <2>1. ASSUME NEW d \in 1 .. drain
          PROVE  drains[d].seq \in Nat /\ Number >= drains[d].seq
      <3>1. CASE d = drain
        BY <3>1, <1>1 DEF Number
      <3>2. CASE d # drain
        <4>1. d \in 1 .. Newest - 1
          BY <3>2, <1>1
        <4>2. drains[d].seq < Number
          BY <4>1 DEF SwitchIInv, Numbers
        <4> QED BY <4>2, <1>1
      <3> QED BY <3>1, <3>2
    <2> QED BY <2>1, <1>1
  <1> HIDE DEF S
  <1>4. \A x \in S : (\A y \in S : x >= y) => x = Number
    BY <1>1, <1>2, <1>3
  <1>5. (CHOOSE x \in S : \A y \in S : x >= y) = Number
    BY <1>2, <1>3, <1>4
  <1> QED BY <1>5 DEF S, StreamDrainSequenceNumber, Max

\* SwitchStream sends the calls of the switch that is underway, and no frame
\* of the new stream has been collected before it returns.
LEMMA CallIs ==
  ASSUME SwitchIInv, NEW stage \in Stages, switcher = stage
  PROVE  /\ Call(stage) = TheCall(Messages[stage], World)
         /\ ~Preparing /\ Underway /\ drainer.at = "idle"
         /\ NoNew(CollatedFrameRing, World) /\ NoNew(ParsedFrameRing, World)
         /\ NoNew(DecodedFrameRing, World)
         /\ NoNew(ManifestedBufferRing, World)
  <1>1. /\ switcher # "drain" /\ switcher # "idle" /\ SwitchStreamInProgress
        /\ Stream.Collator = drain /\ drainer.at = "idle"
    BY DEF SwitchIInv, Thread, Stages
  <1>2. ~Preparing /\ Underway
    BY <1>1 DEF Preparing, Underway
  <1>3. Stream.Collator = Newest /\ StreamDrainSequenceNumber = Number
    BY <1>1, <1>2, LastNumber DEF Newest
  <1>4. Call(stage) = TheCall(Messages[stage], World)
    BY <1>3 DEF Call, TheCall, World, Messages, Stages
  <1>5. \A b : InWorld(b, World) => ~New(b, World)
    BY <1>1, <1>2, NewIsLate DEF SwitchIInv
  <1>6. /\ TwoStreams(CollatedFrameRing, World)
        /\ TwoStreams(ParsedFrameRing, World)
        /\ TwoStreams(DecodedFrameRing, World)
        /\ TwoStreams(ManifestedBufferRing, World)
    BY DEF SwitchIInv, Contents, Collated, Line, OnScreen
  <1>7. /\ NoNew(CollatedFrameRing, World) /\ NoNew(ParsedFrameRing, World)
        /\ NoNew(DecodedFrameRing, World)
        /\ NoNew(ManifestedBufferRing, World)
    BY <1>5, <1>6 DEF TwoStreams, NoNew
  <1> QED BY <1>1, <1>2, <1>4, <1>7

\* The thread goes on from one call to the next.
LEMMA CallsOn ==
  ASSUME SwitchIInv, NEW stage \in Stages, switcher = stage,
         switcher' = Following[stage],
         UNCHANGED <<drainer, drains, frames, Stream, SwitchStreamInProgress,
                     streamOf, LastOneOut>>
  PROVE  /\ World' = World /\ Newest' = Newest /\ Number' = Number
         /\ drain' = drain /\ (Out' <=> Out) /\ Underway /\ Underway'
         /\ ~Preparing' /\ Thread' /\ Streams' /\ ~Sent(stage)
         /\ Sent("CtoP")' <=> Sent("CtoP") \/ stage = "CtoP"
         /\ Sent("PtoD")' <=> Sent("PtoD") \/ stage = "PtoD"
         /\ Sent("DtoM")' <=> Sent("DtoM") \/ stage = "DtoM"
         /\ Sent("PostM")' <=> Sent("PostM") \/ stage = "PostM"
  <1>1. /\ switcher # "drain" /\ switcher # "idle" /\ SwitchStreamInProgress
        /\ switcher' \in {"idle"} \cup Stages
    BY DEF SwitchIInv, Thread, Stages, Following
  <1>2. drain' = drain /\ ~Preparing /\ ~Preparing' /\ Underway /\ Underway'
    BY <1>1, CallIs DEF drain, Preparing, Underway
  <1>3. Newest' = Newest
    BY <1>2 DEF Newest
  <1>4. Number' = Number
    BY <1>3 DEF Number
  <1>5. World' = World
    BY <1>3, <1>4 DEF World
  <1>6. Out' <=> Out
    BY <1>1, <1>2 DEF Out, Stages
  <1>7. Thread'
    BY <1>1, <1>2 DEF SwitchIInv, Thread, Stages
  <1>8. Streams'
    <2>1. drain \in Nat /\ streamOf \in Seq(Nat) /\ Len(streamOf) = frames
      BY Basics DEF SwitchIInv, SwitchTypes
    <2>2. Newest = drain
      BY <1>2 DEF Newest
    <2>3. \A f \in 1 .. frames : streamOf[f] \in Nat /\ streamOf[f] <= drain - 1
      BY <1>1, <1>2, <2>1, ElementOfSeq DEF SwitchIInv, Streams
    <2>4. \A f \in 1 .. frames : streamOf[f] <= drain
      BY <2>1, <2>3
    <2> QED BY <1>2, <1>3, <2>2, <2>3, <2>4 DEF Streams
  <1>9. /\ ~Sent(stage)
        /\ Sent("CtoP")' <=> Sent("CtoP") \/ stage = "CtoP"
        /\ Sent("PtoD")' <=> Sent("PtoD") \/ stage = "PtoD"
        /\ Sent("DtoM")' <=> Sent("DtoM") \/ stage = "DtoM"
        /\ Sent("PostM")' <=> Sent("PostM") \/ stage = "PostM"
    BY <1>2 DEF Sent, Before, Following, Stages
  <1> QED BY <1>2, <1>3, <1>4, <1>5, <1>6, <1>7, <1>8, <1>9

\* What a call leaves alone.
CallLeaves ==
  UNCHANGED <<shown, codec, busy, seen, calls, passed, performing, CodecReset,
              LastOneOut, NextBufferSequenceNumber, MarkerInCodedFrameIndex,
              drainer, drains, frames, Stream, SwitchStreamInProgress, streamOf>>

LEMMA CallsParserStep ==
  ASSUME SwitchIInv, switcher = "CtoP", switcher' = "PtoD", CallLeaves,
         CollatedFrameRing' = Append(CollatedFrameRing, Call("CtoP")),
         UNCHANGED <<ParsedFrameRing, DecodedFrameRing, ManifestedBufferRing>>
  PROVE  SwitchIInv'
  <1> DEFINE C == CollatedFrameRing
             n == NextBufferSequenceNumber
             b == TheCall("parser", World)
             KC == {"frame", "jump", "marker", "parser"}
  <1>1. /\ World' = World /\ Newest' = Newest /\ Number' = Number
        /\ drain' = drain /\ (Out' <=> Out) /\ Underway /\ Underway'
        /\ ~Preparing' /\ Thread' /\ Streams' /\ ~Sent("CtoP") /\ Sent("CtoP")'
        /\ Sent("PtoD")' <=> Sent("PtoD")
        /\ Sent("DtoM")' <=> Sent("DtoM")
        /\ Sent("PostM")' <=> Sent("PostM")
    BY CallsOn DEF CallLeaves, Following, Stages
  <1>2. /\ C' = Append(C, b) /\ NoNew(C, World) /\ ~Preparing
        /\ drainer.at = "idle"
    BY CallIs DEF Messages, Stages
  <1>3. /\ n \in Nat /\ World.number \in Nat /\ C \in Seq(Of(KC))
        /\ Collated(C, n, World) /\ Len(C) \in Nat /\ frames \in Nat
        /\ Newest \in Nat /\ drain \in Nat
    BY Basics, LenProperties DEF SwitchIInv, SwitchTypes, Contents
  <1>4. /\ ~Has(C, "parser") /\ Stream.FrameParser # Newest
        /\ "CtoP" \notin performing
    BY <1>1 DEF SwitchIInv, ParserCall
  <1>5. /\ b \in Of(KC) /\ b.kind = "parser" /\ InWorld(b, World)
        /\ ~Old(b, World) /\ ~New(b, World)
    BY Basics, <1>3 DEF TheCall, Buffer, Of, InWorld, Old, New, SwitchIInv
  <1>6. /\ C' \in Seq(Of(KC)) /\ Collated(C', n, World)
        /\ Len(C') = Len(C) + 1
        /\ Has(C', "parser") /\ (InC' <=> InC)
        /\ NoOld(C', World) <=> NoOld(C, World)
    <2>1. /\ Append(C, b) \in Seq(Of(KC)) /\ Len(Append(C, b)) = Len(C) + 1
          /\ Collated(Append(C, b), n, World)
      BY <1>2, <1>3, <1>4, <1>5, CollatedAppend
    <2>2. FlagsOfAppend(C, b, World)
      BY <1>3, <1>5, Flags
    <2> QED BY <2>1, <2>2, <1>2, <1>5 DEF FlagsOfAppend, InC
  <1>7. MarkerStays
    BY <1>6 DEF MarkerStays, InC, InP, InQ, InK, InD, CallLeaves
  <1>8. SwitchTypes' /\ Contents'
    <2>1. SwitchTypes'
      BY <1>1, <1>6 DEF SwitchIInv, SwitchTypes, CallLeaves
    <2> QED BY <2>1, <1>1, <1>6 DEF SwitchIInv, Contents, CallLeaves
  <1>9. Marker' /\ Counts'
    BY <1>1, <1>6, <1>7
    DEF SwitchIInv, Marker, Counts, Uncounted, MarkerStays, CallLeaves
  <1>10. Numbers'
    BY <1>1, <1>2, <1>7 DEF SwitchIInv, Numbers, MarkerStays, CallLeaves
  <1>11. Room'
    BY <1>1, <1>2, <1>3, <1>4, <1>6, <1>7
    DEF SwitchIInv, Room, MarkerStays, CallLeaves
  <1>12. ParserCall'
    BY <1>1, <1>4, <1>6, <1>7
    DEF SwitchIInv, ParserCall, MarkerStays, CallLeaves
  <1>13. CodecCall' /\ TimerCall' /\ CompleteCall' /\ Screen'
    BY <1>1
    DEF SwitchIInv, CodecCall, TimerCall, CompleteCall, Screen, CallLeaves
  <1> QED BY <1>1, <1>8, <1>9, <1>10, <1>11, <1>12, <1>13 DEF SwitchIInv

LEMMA CallsCodecStep ==
  ASSUME SwitchIInv, switcher = "PtoD", switcher' = "DtoM", CallLeaves,
         ParsedFrameRing' = Append(ParsedFrameRing, Call("PtoD")),
         UNCHANGED <<CollatedFrameRing, DecodedFrameRing, ManifestedBufferRing>>
  PROVE  SwitchIInv'
  <1> DEFINE P == ParsedFrameRing
             n == NextBufferSequenceNumber
             b == TheCall("codec", World)
             KP == {"frame", "marker", "codec"}
  <1>1. /\ World' = World /\ Newest' = Newest /\ Number' = Number
        /\ drain' = drain /\ (Out' <=> Out) /\ Underway /\ Underway'
        /\ ~Preparing' /\ Thread' /\ Streams' /\ ~Sent("PtoD") /\ Sent("PtoD")'
        /\ Sent("CtoP")' <=> Sent("CtoP")
        /\ Sent("DtoM")' <=> Sent("DtoM")
        /\ Sent("PostM")' <=> Sent("PostM")
    BY CallsOn DEF CallLeaves, Following, Stages
  <1>2. /\ P' = Append(P, b) /\ NoNew(P, World) /\ ~Preparing
        /\ drainer.at = "idle"
    BY CallIs DEF Messages, Stages
  <1>3. /\ n \in Nat /\ World.number \in Nat /\ P \in Seq(Of(KP))
        /\ Line(P, "codec", n, World) /\ Newest \in Nat
    BY Basics DEF SwitchIInv, SwitchTypes, Contents
  <1>4. /\ ~Has(P, "codec") /\ Stream.Codec # Newest /\ calls["PtoD"] = {}
        /\ performing \cap {"PtoD", "halted"} = {}
    BY <1>1 DEF SwitchIInv, CodecCall
  <1>5. /\ b \in Of(KP) /\ b.kind = "codec" /\ InWorld(b, World)
        /\ ~Old(b, World) /\ ~New(b, World) /\ Beside(b, World)
    BY Basics, <1>3
    DEF TheCall, Buffer, Of, InWorld, Old, New, Beside, SwitchIInv
  <1>6. /\ P' \in Seq(Of(KP)) /\ Line(P', "codec", n, World)
        /\ Has(P', "codec") /\ (InP' <=> InP)
        /\ NoOld(P', World) <=> NoOld(P, World)
        /\ NoNew(P', World) <=> NoNew(P, World)
    <2>1. /\ Append(P, b) \in Seq(Of(KP))
          /\ Line(Append(P, b), "codec", n, World)
      BY <1>2, <1>3, <1>4, <1>5, LineAppend
    <2>2. FlagsOfAppend(P, b, World)
      BY <1>3, <1>5, Flags
    <2> QED BY <2>1, <2>2, <1>2, <1>5 DEF FlagsOfAppend, InP
  <1>7. MarkerStays
    BY <1>6 DEF MarkerStays, InC, InP, InQ, InK, InD, CallLeaves
  <1>8. SwitchTypes' /\ Contents'
    <2>1. SwitchTypes'
      BY <1>1, <1>6 DEF SwitchIInv, SwitchTypes, CallLeaves
    <2> QED BY <2>1, <1>1, <1>6 DEF SwitchIInv, Contents, CallLeaves
  <1>9. Marker' /\ Counts' /\ Numbers' /\ Room'
    BY <1>1, <1>2, <1>6, <1>7
    DEF SwitchIInv, Marker, Counts, Numbers, Room, Uncounted, MarkerStays,
        CallLeaves
  <1>10. ParserCall'
    BY <1>1, <1>6, <1>7 DEF SwitchIInv, ParserCall, MarkerStays, CallLeaves
  <1>11. CodecCall'
    BY <1>1, <1>4, <1>6 DEF SwitchIInv, CodecCall, CallLeaves
  <1>12. TimerCall' /\ CompleteCall' /\ Screen'
    BY <1>1 DEF SwitchIInv, TimerCall, CompleteCall, Screen, CallLeaves
  <1> QED BY <1>1, <1>8, <1>9, <1>10, <1>11, <1>12 DEF SwitchIInv

LEMMA CallsTimerStep ==
  ASSUME SwitchIInv, switcher = "DtoM", switcher' = "PostM", CallLeaves,
         DecodedFrameRing' = Append(DecodedFrameRing, Call("DtoM")),
         UNCHANGED <<CollatedFrameRing, ParsedFrameRing, ManifestedBufferRing>>
  PROVE  SwitchIInv'
  <1> DEFINE D == DecodedFrameRing
             n == NextBufferSequenceNumber
             b == TheCall("timer", World)
             KD == {"frame", "marker", "reset", "timer"}
  <1>1. /\ World' = World /\ Newest' = Newest /\ Number' = Number
        /\ drain' = drain /\ (Out' <=> Out) /\ Underway /\ Underway'
        /\ ~Preparing' /\ Thread' /\ Streams' /\ ~Sent("DtoM") /\ Sent("DtoM")'
        /\ Sent("CtoP")' <=> Sent("CtoP")
        /\ Sent("PtoD")' <=> Sent("PtoD")
        /\ Sent("PostM")' <=> Sent("PostM")
    BY CallsOn DEF CallLeaves, Following, Stages
  <1>2. /\ D' = Append(D, b) /\ NoNew(D, World) /\ ~Preparing
        /\ drainer.at = "idle"
    BY CallIs DEF Messages, Stages
  <1>3. /\ n \in Nat /\ World.number \in Nat /\ D \in Seq(Of(KD))
        /\ Line(D, "timer", n, World) /\ Newest \in Nat
    BY Basics DEF SwitchIInv, SwitchTypes, Contents
  <1>4. ~Has(D, "timer") /\ ~Out /\ calls["DtoM"] = {}
    BY <1>1 DEF SwitchIInv, TimerCall
  <1>5. /\ b \in Of(KD) /\ b.kind = "timer" /\ InWorld(b, World)
        /\ ~Old(b, World) /\ ~New(b, World) /\ Beside(b, World)
    BY Basics, <1>3
    DEF TheCall, Buffer, Of, InWorld, Old, New, Beside, SwitchIInv
  <1>6. /\ D' \in Seq(Of(KD)) /\ Line(D', "timer", n, World)
        /\ Has(D', "timer") /\ (InD' <=> InD)
        /\ NoOld(D', World) <=> NoOld(D, World)
        /\ NoNew(D', World) <=> NoNew(D, World)
    <2>1. /\ Append(D, b) \in Seq(Of(KD))
          /\ Line(Append(D, b), "timer", n, World)
      BY <1>2, <1>3, <1>4, <1>5, LineAppend
    <2>2. FlagsOfAppend(D, b, World)
      BY <1>3, <1>5, Flags
    <2> QED BY <2>1, <2>2, <1>2, <1>5 DEF FlagsOfAppend, InD
  <1>7. MarkerStays
    BY <1>6 DEF MarkerStays, InC, InP, InQ, InK, InD, CallLeaves
  <1>8. SwitchTypes' /\ Contents'
    <2>1. SwitchTypes'
      BY <1>1, <1>6 DEF SwitchIInv, SwitchTypes, CallLeaves
    <2> QED BY <2>1, <1>1, <1>6 DEF SwitchIInv, Contents, CallLeaves
  <1>9. Marker' /\ Counts' /\ Numbers' /\ Room'
    BY <1>1, <1>2, <1>6, <1>7
    DEF SwitchIInv, Marker, Counts, Numbers, Room, Uncounted, MarkerStays,
        CallLeaves
  <1>10. ParserCall' /\ CodecCall'
    BY <1>1, <1>6, <1>7
    DEF SwitchIInv, ParserCall, CodecCall, MarkerStays, CallLeaves
  <1>11. TimerCall'
    BY <1>1, <1>4, <1>6 DEF SwitchIInv, TimerCall, CallLeaves
  <1>12. CompleteCall' /\ Screen'
    BY <1>1 DEF SwitchIInv, CompleteCall, Screen, CallLeaves
  <1> QED BY <1>1, <1>8, <1>9, <1>10, <1>11, <1>12 DEF SwitchIInv

LEMMA CallsCompleteStep ==
  ASSUME SwitchIInv, switcher = "PostM", switcher' = "idle", CallLeaves,
         ManifestedBufferRing' = Append(ManifestedBufferRing, Call("PostM")),
         UNCHANGED <<CollatedFrameRing, ParsedFrameRing, DecodedFrameRing>>
  PROVE  SwitchIInv'
  <1> DEFINE M == ManifestedBufferRing
             n == NextBufferSequenceNumber
             b == TheCall("complete", World)
             KM == {"frame", "marker", "drained", "complete"}
  <1>1. /\ World' = World /\ Newest' = Newest /\ Number' = Number
        /\ drain' = drain /\ (Out' <=> Out) /\ Underway /\ Underway'
        /\ ~Preparing' /\ Thread' /\ Streams' /\ ~Sent("PostM")
        /\ Sent("PostM")'
        /\ Sent("CtoP")' <=> Sent("CtoP")
        /\ Sent("PtoD")' <=> Sent("PtoD")
        /\ Sent("DtoM")' <=> Sent("DtoM")
    BY CallsOn DEF CallLeaves, Following, Stages
  <1>2. /\ M' = Append(M, b) /\ NoNew(M, World) /\ ~Preparing
        /\ drainer.at = "idle"
    BY CallIs DEF Messages, Stages
  <1>3. /\ n \in Nat /\ World.number \in Nat /\ M \in Seq(Of(KM))
        /\ OnScreen(M, n, World) /\ Newest \in Nat
    BY Basics DEF SwitchIInv, SwitchTypes, Contents
  <1>4. ~Has(M, "complete") /\ calls["PostM"] = {}
    BY <1>1 DEF SwitchIInv, CompleteCall
  <1>5. /\ b \in Of(KM) /\ b.kind = "complete" /\ InWorld(b, World)
        /\ ~Old(b, World) /\ ~New(b, World) /\ Beside(b, World)
    BY Basics, <1>3
    DEF TheCall, Buffer, Of, InWorld, Old, New, Beside, SwitchIInv
  <1>6. /\ M' \in Seq(Of(KM)) /\ OnScreen(M', n, World)
        /\ Has(M', "complete")
        /\ NoOld(M', World) <=> NoOld(M, World)
        /\ NoNew(M', World) <=> NoNew(M, World)
    <2>1. /\ Append(M, b) \in Seq(Of(KM))
          /\ OnScreen(Append(M, b), n, World)
      BY <1>2, <1>3, <1>4, <1>5, ScreenAppend
    <2>2. FlagsOfAppend(M, b, World)
      BY <1>3, <1>5, Flags
    <2> QED BY <2>1, <2>2, <1>2, <1>5 DEF FlagsOfAppend
  <1>7. MarkerStays
    BY DEF MarkerStays, InC, InP, InQ, InK, InD, CallLeaves
  <1>8. SwitchTypes' /\ Contents'
    <2>1. SwitchTypes'
      BY <1>1, <1>6 DEF SwitchIInv, SwitchTypes, CallLeaves
    <2> QED BY <2>1, <1>1, <1>6 DEF SwitchIInv, Contents, CallLeaves
  <1>9. Marker' /\ Counts' /\ Numbers' /\ Room'
    BY <1>1, <1>2, <1>7
    DEF SwitchIInv, Marker, Counts, Numbers, Room, Uncounted, MarkerStays,
        CallLeaves
  <1>10. ParserCall' /\ CodecCall'
    BY <1>1, <1>6, <1>7
    DEF SwitchIInv, ParserCall, CodecCall, MarkerStays, CallLeaves
  <1>11. TimerCall'
    BY <1>1 DEF SwitchIInv, TimerCall, CallLeaves
  <1>12. CompleteCall' /\ Screen'
    BY <1>1, <1>4, <1>6 DEF SwitchIInv, CompleteCall, Screen, CallLeaves
  <1> QED BY <1>1, <1>8, <1>9, <1>10, <1>11, <1>12 DEF SwitchIInv

-----------------------------------------------------------------------------
(* The invariant.                                                          *)

LEMMA SwitchInitially == SwitchInit => SwitchIInv
  <1> SUFFICES ASSUME SwitchInit PROVE SwitchIInv
    OBVIOUS
  <1>1. /\ CollatedFrameRing = <<>> /\ ParsedFrameRing = <<>>
        /\ DecodedFrameRing = <<>> /\ ManifestedBufferRing = <<>>
        /\ busy = [s \in {"PtoD", "DtoM"} |-> NoBuffer]
        /\ seen = [s \in {"DtoM", "PostM"} |-> 0]
        /\ NextBufferSequenceNumber = 1 /\ MarkerInCodedFrameIndex = 0
        /\ codec = [decoding |-> <<>>, Prepared |-> 0, Completed |-> 0,
                    DiscardUntil |-> 0, Marker |-> NoBuffer, PassOnAt |-> 0,
                    input |-> "idle", callback |-> "idle"]
        /\ shown = <<>> /\ drainer = [at |-> "idle", nonBlocking |-> FALSE]
        /\ frames = 0 /\ drains = <<>>
        /\ switcher = "idle"
        /\ SwitchStreamInProgress = FALSE /\ CodecReset = FALSE
        /\ LastOneOut = FALSE
        /\ Stream = [Collator |-> 0, FrameParser |-> 0, Codec |-> 0]
        /\ calls = [s \in Stages |-> {}]
        /\ passed = [s \in {"CtoP", "PtoD"} |-> 0]
        /\ performing = {} /\ streamOf = <<>>
    BY DEF SwitchInit, Init, INVALID
  <1>2. drain = 0 /\ Len(<<>>) = 0 /\ Len(streamOf) = 0
    BY <1>1, EmptySeq DEF drain
  <1>3. /\ ~Preparing /\ Newest = 0 /\ Number = 0 /\ ~Underway /\ Out
        /\ ~Sent("CtoP") /\ ~Sent("PtoD") /\ ~Sent("DtoM") /\ ~Sent("PostM")
    BY <1>1, <1>2 DEF Preparing, Newest, Number, Underway, Out, Sent
  <1>4. /\ ~InC /\ ~InP /\ ~InQ /\ ~InK /\ ~InD
    BY <1>1, NothingIn DEF InC, InP, InQ, InK, InD
  <1>5. SwitchTypes
    <2>1. codec \in Codecs /\ busy \in [{"PtoD", "DtoM"} -> MarkerOrNone]
      BY <1>1, EmptySeq DEF Codecs, MarkerOrNone, CodecCalls
    <2>2. /\ calls \in [Stages -> SUBSET Of({"parser", "codec", "timer", "complete"})]
          /\ Stream \in [Collator : Nat, FrameParser : Nat, Codec : Nat]
          /\ passed \in [{"CtoP", "PtoD"} -> Nat]
          /\ seen \in [{"DtoM", "PostM"} -> Nat]
      BY <1>1
    <2>3. frames \in 0 .. MaxFrames /\ drain <= MaxDrains
      BY <1>1, <1>2, BoundsAssumption
    <2> QED BY <2>1, <2>2, <2>3, <1>1, <1>2, EmptySeq DEF SwitchTypes
  <1>6. Thread /\ Streams
    <2>1. /\ drainer.at = "idle" /\ Stream.Collator = 0
          /\ drainer \in [at : {"idle", "flush", "check", "number", "launch",
                              "reset", "event"},
                        nonBlocking : BOOLEAN]
      BY <1>1
    <2>2. Thread
      BY <2>1, <1>1, <1>2 DEF Thread, Stages
    <2>3. Streams
      BY <1>1, <1>3 DEF Streams
    <2> QED BY <2>2, <2>3
  <1>7. Contents
    BY <1>1, NothingIn DEF Contents
  <1>8. Marker
    BY <1>1, <1>3, <1>4, NothingIn DEF Marker, INVALID
  <1>9. Numbers /\ Room /\ Counts
    <2>1. /\ passed["CtoP"] = 0 /\ passed["PtoD"] = 0 /\ seen["DtoM"] = 0
          /\ seen["PostM"] = 0 /\ busy["PtoD"] = NoBuffer
      BY <1>1
    <2>2. Numbers
      BY <2>1, <1>1, <1>3, <1>4 DEF Numbers
    <2>3. Room
      BY <1>1, <1>2, <1>4, NothingIn DEF Room
    <2>4. Counts
      BY <2>1, <1>1, <1>2, <1>4 DEF Counts, Uncounted
    <2> QED BY <2>2, <2>3, <2>4
  <1>10. ParserCall /\ CodecCall
    <2>1. /\ calls["CtoP"] = {} /\ calls["PtoD"] = {} /\ passed["PtoD"] >= Number
          /\ Stream.FrameParser = Newest /\ Stream.Codec = Newest
      BY <1>1, <1>3 DEF Stages
    <2> QED BY <2>1, <1>1, <1>3, <1>4, NothingIn DEF ParserCall, CodecCall
  <1>11. TimerCall /\ CompleteCall /\ Screen
    <2>1. calls["DtoM"] = {} /\ calls["PostM"] = {} /\ seen["DtoM"] >= Number
      BY <1>1, <1>3 DEF Stages
    <2> QED BY <2>1, <1>1, <1>3, NothingIn DEF TimerCall, CompleteCall, Screen
  <1> QED BY <1>5, <1>6, <1>7, <1>8, <1>9, <1>10, <1>11 DEF SwitchIInv

LEMMA SwitchStutters ==
  ASSUME SwitchIInv, UNCHANGED svars
  PROVE  SwitchIInv'
  <1>1. /\ UNCHANGED <<CollatedFrameRing, ParsedFrameRing, DecodedFrameRing,
                       ManifestedBufferRing, shown, codec, busy, seen, calls,
                       passed, performing, CodecReset, LastOneOut,
                       NextBufferSequenceNumber, MarkerInCodedFrameIndex>>
        /\ Standing
    BY DEF svars, switch, vars, rings, processes, player, input, Standing
  <1>2. SameWorld /\ (Out' <=> Out) /\ Thread' /\ Streams'
    BY <1>1, Stands DEF SwitchIInv
  <1>3. MarkerStays
    BY <1>1 DEF MarkerStays, InC, InP, InQ, InK, InD
  <1>4. SwitchTypes' /\ Contents'
    BY <1>1, <1>2
    DEF SwitchIInv, SwitchTypes, Contents, Standing, SameWorld
  <1>5. Marker' /\ Numbers' /\ Room' /\ Counts'
    BY <1>1, <1>2, <1>3
    DEF SwitchIInv, Marker, Numbers, Room, Counts, Uncounted, Standing,
        SameWorld, MarkerStays
  <1>6. ParserCall' /\ CodecCall'
    BY <1>1, <1>2, <1>3
    DEF SwitchIInv, ParserCall, CodecCall, Standing, SameWorld, MarkerStays
  <1>7. TimerCall' /\ CompleteCall' /\ Screen'
    BY <1>1, <1>2
    DEF SwitchIInv, TimerCall, CompleteCall, Screen, SameWorld
  <1> QED BY <1>2, <1>4, <1>5, <1>6, <1>7 DEF SwitchIInv

LEMMA SwitchCallsStep ==
  ASSUME SwitchIInv, SwitchCalls
  PROVE  SwitchIInv'
  <1>1. PICK stage \in Stages :
          /\ switcher = stage /\ switcher' = Following[stage]
          /\ RingsAre([Ring EXCEPT ![stage] = Append(@, Call(stage))])
          /\ CallLeaves
    BY DEF SwitchCalls, CallLeaves, processes, player, input
  <1>2. CASE stage = "CtoP"
    <2>1. /\ CollatedFrameRing' = Append(CollatedFrameRing, Call("CtoP"))
          /\ UNCHANGED <<ParsedFrameRing, DecodedFrameRing,
                         ManifestedBufferRing>>
      BY <1>1, <1>2, OneRing DEF RingsAre, Ring
    <2>2. switcher = "CtoP" /\ switcher' = "PtoD"
      BY <1>1, <1>2 DEF Following
    <2> QED BY <1>1, <2>1, <2>2, CallsParserStep
  <1>3. CASE stage = "PtoD"
    <2>1. /\ ParsedFrameRing' = Append(ParsedFrameRing, Call("PtoD"))
          /\ UNCHANGED <<CollatedFrameRing, DecodedFrameRing,
                         ManifestedBufferRing>>
      BY <1>1, <1>3, OneRing DEF RingsAre, Ring
    <2>2. switcher = "PtoD" /\ switcher' = "DtoM"
      BY <1>1, <1>3 DEF Following
    <2> QED BY <1>1, <2>1, <2>2, CallsCodecStep
  <1>4. CASE stage = "DtoM"
    <2>1. /\ DecodedFrameRing' = Append(DecodedFrameRing, Call("DtoM"))
          /\ UNCHANGED <<CollatedFrameRing, ParsedFrameRing,
                         ManifestedBufferRing>>
      BY <1>1, <1>4, OneRing DEF RingsAre, Ring
    <2>2. switcher = "DtoM" /\ switcher' = "PostM"
      BY <1>1, <1>4 DEF Following
    <2> QED BY <1>1, <2>1, <2>2, CallsTimerStep
  <1>5. CASE stage = "PostM"
    <2>1. /\ ManifestedBufferRing' = Append(ManifestedBufferRing, Call("PostM"))
          /\ UNCHANGED <<CollatedFrameRing, ParsedFrameRing,
                         DecodedFrameRing>>
      BY <1>1, <1>5, OneRing DEF RingsAre, Ring
    <2>2. switcher = "PostM" /\ switcher' = "idle"
      BY <1>1, <1>5 DEF Following
    <2> QED BY <1>1, <2>1, <2>2, CallsCompleteStep
  <1> QED BY <1>2, <1>3, <1>4, <1>5 DEF Stages

\* A drain begins only when no switch is under way, and then no marker either.
LEMMA ClearedStep ==
  ASSUME SwitchIInv, Cleared, SwitchesAlone, SwitchNext
  PROVE  Cleared'
  <1> DEFINE Keeps == Discarding' = Discarding /\ codec'.input = codec.input
             Off(s) == Discarding' = [Discarding EXCEPT ![s] = FALSE]
  <1>1. codec \in Codecs /\ Discarding \in [Stages -> BOOLEAN]
    BY DEF SwitchIInv, SwitchTypes, Cleared
  <1>2. CASE Writes \/ SwitchFrameParser \/ SwitchCodecHalts \/ Switches
    <2>1. Keeps
      BY <1>2 DEF Writes, Inject, SwitchFrameParser, SwitchCodecHalts, Switches,
         SwitchCollator, SwitchCalls, vars, player
    <2> QED BY <2>1 DEF Cleared
  <1>3. CASE SwitchCodec
    <2>1. Discarding' = Discarding /\ codec'.input = "idle"
      BY <1>3 DEF SwitchCodec, player
    <2> QED BY <1>1, <2>1 DEF Cleared
  <1>4. CASE SwitchedCtoP
    <2>1. UNCHANGED codec /\ (Discarding' = Discarding \/ Off("CtoP"))
      BY <1>4 DEF SwitchedCtoP, CtoP, CtoPMarker, CtoPFrame, Arrives, player,
         ClearedAtCtoP
    <2> QED BY <1>1, <2>1 DEF Cleared, Stages
  <1>5. CASE SwitchedPtoD
    <2>1. CASE PtoDMarker
      <3>1. Off("PtoD")
        BY <2>1 DEF PtoDMarker
      <3> QED BY <1>1, <3>1 DEF Cleared, Stages
    <2>2. CASE ~PtoDMarker
      <3>1. Discarding' = Discarding /\ codec'.input \in {codec.input} \cup
                                      {"idle", "at", "hold", "test", "take"}
        BY <1>1, <1>5, <2>2
        DEF SwitchedPtoD, PtoDFrame, PtoDMarkerTest, MarkerInput, Arrives,
            TestMarkerFramePassOn, Take, player, Codecs
      <3> QED BY <1>1, <3>1 DEF Cleared
    <2> QED BY <2>1, <2>2
  <1>6. CASE SwitchedDtoM \/ SwitchedPostM
    <2>1. /\ UNCHANGED codec
          /\ Discarding' = Discarding \/ Off("DtoM") \/ Off("PostM")
      BY <1>6 DEF SwitchedDtoM, SwitchedPostM, DtoMFrame, DtoMMarker, DtoMCall,
         DtoMMarkerClear, PostMTake, PostMCall, Arrives, player
    <2> QED BY <1>1, <2>1 DEF Cleared, Stages
  <1>7. CASE Unswitched
    <2>1. Keeps
      BY <1>1, <1>7
      DEF Unswitched, Callback, DecodeCompletes, CallbackCounts, Show, Drain,
          TestMarkerFramePassOn, Take, DrainFlushes, DrainChecks, DrainNumbers,
          DrainLaunches, DrainCalls, DrainWaits, player, Codecs
    <2> QED BY <2>1 DEF Cleared
  <1>8. CASE SwitchBegins
    <2>1. codec.input # "flag"
      <3>1. ~Underway
        BY <1>8 DEF SwitchBegins, MaySwitch, Underway
      <3> QED BY <3>1 DEF SwitchIInv, Marker, InQ
    <2>2. UNCHANGED codec /\ Discarding' \in [Stages -> BOOLEAN]
      BY <1>1, <1>8 DEF SwitchBegins, DrainBegins, CallsAssumption
    <2> QED BY <2>1, <2>2 DEF Cleared
  <1>9. ~DrainOnly
    BY DEF DrainOnly, SwitchesAlone
  <1> QED BY <1>2, <1>3, <1>4, <1>5, <1>6, <1>7, <1>8, <1>9 DEF SwitchNext

LEMMA SwitchSteps ==
  ASSUME SwitchIInv, Cleared, SwitchesAlone, SwitchNext
  PROVE  SwitchIInv'
  <1>1. CASE Writes
    BY <1>1, WritesStep
  <1>2. CASE SwitchedCtoP
    <2>1. CASE /\ CollatedFrameRing # <<>>
               /\ Head(CollatedFrameRing).kind # "parser"
               /\ CtoP /\ Passes("CtoP", NextBufferSequenceNumber' - 1)
               /\ UNCHANGED <<SwitchStreamInProgress, CodecReset, LastOneOut,
                              switcher, Stream, streamOf>>
      BY <2>1, <1>2, CtoPFrameStep, CtoPMarkerStep DEF CtoP, SwitchedCtoP
    <2> QED BY <2>1, <1>2, ParserArrivesStep DEF SwitchedCtoP
  <1>3. CASE SwitchFrameParser
    BY <1>3, SwitchFrameParserStep
  <1>4. CASE SwitchedPtoD
    <2>1. CASE /\ PtoDFrame /\ Passes("PtoD", Head(ParsedFrameRing).seq)
               /\ UNCHANGED <<SwitchStreamInProgress, CodecReset, LastOneOut,
                              switcher, Stream, streamOf>>
      BY <2>1, <1>4, PtoDFrameStep DEF SwitchedPtoD
    <2>2. CASE /\ \/ PtoDMarker \/ PtoDMarkerTest
                  \/ MarkerInput \/ TestMarkerFramePassOn("input")
               /\ IF ~Idle("PtoD") /\ busy'["PtoD"] = NoBuffer
                  THEN Passes("PtoD", busy["PtoD"].seq)
                  ELSE UNCHANGED <<passed, performing, calls>>
               /\ UNCHANGED <<SwitchStreamInProgress, CodecReset, LastOneOut,
                              switcher, Stream, streamOf>>
      <3>1. CASE PtoDMarker
        BY <3>1, <2>2, PtoDMarkerStep DEF PtoDMarker
      <3>2. CASE MarkerInput
        BY <3>2, <2>2, MarkerInputStep DEF MarkerInput, processes, Idle
      <3>3. CASE TestMarkerFramePassOn("input")
        <4>1. performing \intersect {"PtoD", "halted"} = {}
          BY <1>4 DEF SwitchedPtoD
        <4> QED BY <4>1, <3>3, <2>2, PassOnInputStep
      <3>4. CASE PtoDMarkerTest
        <4>1. codec.input = "flag" /\ ~Discarding["PtoD"] /\ UNCHANGED busy
          BY <3>4 DEF PtoDMarkerTest, Cleared
        <4> QED BY <4>1, <3>4, <2>2, PtoDMarkerTestStep DEF Idle
      <3> QED BY <3>1, <3>2, <3>3, <3>4, <2>2
    <2>3. CASE /\ Idle("PtoD") /\ Arrives("PtoD", passed["PtoD"])
               /\ Performs("PtoD", IF ArrivedDue("PtoD", passed["PtoD"])
                                   THEN {Head(ParsedFrameRing)} ELSE {})
               /\ UNCHANGED <<SwitchStreamInProgress, CodecReset, LastOneOut>>
      BY <2>3, <1>4, CodecArrivesStep DEF SwitchedPtoD
    <2> QED BY <2>1, <2>2, <2>3, <1>4 DEF SwitchedPtoD
  <1>5. CASE SwitchCodecHalts
    BY <1>5, SwitchCodecHaltsStep
  <1>6. CASE SwitchCodec
    BY <1>6, SwitchCodecStep
  <1>7. CASE SwitchedDtoM
    BY <1>7, DtoMFrameStep, DtoMMarkerStep, DtoMMarkerClearStep, DtoMCallStep,
       TimerArrivesStep DEF SwitchedDtoM
  <1>8. CASE SwitchedPostM
    <2>1. CASE PostMTake /\ Head(ManifestedBufferRing).kind # "complete"
      BY <2>1, <1>8, SwitchCompletes, PostMTakeStep
      DEF SwitchedPostM, PostMCall, PostMTake, Arrives, Ring, Messages
    <2> QED BY <2>1, <1>8, PostMCallStep, CompleteArrivesStep DEF SwitchedPostM
  <1>9. CASE Unswitched
    <2>1. CASE Callback
      BY <2>1, <1>9, DecodeCompletesStep, CallbackCountsStep,
         PassOnCallbackStep DEF Callback, Unswitched
    <2>2. CASE Show
      BY <2>2, <1>9, ShowStep DEF Unswitched
    <2>3. CASE Drain
      <3>1. ~DrainWaits
        BY DEF DrainWaits, SwitchIInv, Thread
      <3> QED BY <3>1, <2>3, <1>9, DrainFlushesStep, DrainChecksStep,
                 DrainNumbersStep, DrainLaunchesStep, DrainCallsStep
          DEF Drain, Unswitched
    <2> QED BY <2>1, <2>2, <2>3, <1>9 DEF Unswitched
  <1>10. ~DrainOnly
    BY DEF DrainOnly, SwitchesAlone
  <1>11. CASE SwitchBegins
    BY <1>11, SwitchBeginsStep
  <1>12. CASE Switches
    BY <1>12, SwitchCollatorStep, SwitchCallsStep DEF Switches
  <1> QED BY <1>1, <1>2, <1>3, <1>4, <1>5, <1>6, <1>7, <1>8, <1>9, <1>10,
             <1>11, <1>12 DEF SwitchNext

\* When only switches drain the stream, whoever injects frames waits for them
\* and no wait for the last decode times out, the marker stands between the
\* frames of the old and of the new stream in every ring, each call is ahead
\* of the new stream's, and what is left of the old one is known.
THEOREM SwitchInductive == SwitchesAlone => (SwitchSpec => []SwitchIInv)
  <1> SUFFICES ASSUME SwitchesAlone PROVE SwitchSpec => []SwitchIInv
    OBVIOUS
  <1>1. SwitchInit => SwitchIInv /\ Cleared
    <2>1. SwitchInit => Cleared
      BY DEF SwitchInit, Init, Cleared
    <2> QED BY <2>1, SwitchInitially
  <1>2. SwitchIInv /\ Cleared /\ [SwitchNext]_svars => (SwitchIInv /\ Cleared)'
    <2>1. Cleared /\ UNCHANGED svars => Cleared'
      BY DEF Cleared, svars, vars, player
    <2> QED BY <2>1, SwitchSteps, ClearedStep, SwitchStutters
  <1> QED BY <1>1, <1>2, PTL DEF SwitchSpec

-----------------------------------------------------------------------------
(* What the invariant says of the marker's place and of the two objects.   *)

LEMMA PreviousIs ==
  ASSUME SwitchIInv, switcher = "idle"
  PROVE  /\ Stream.Collator = Newest /\ ~Preparing /\ Newest \in Nat
         /\ Stream.FrameParser \in Nat /\ Stream.Codec \in Nat
         /\ Stream.FrameParser >= Newest - 1 /\ Stream.Codec >= Newest - 1
  <1>1. drainer.at = "idle" /\ Stream.Collator = drain
    BY DEF SwitchIInv, Thread
  <1>2. ~Preparing /\ Newest = drain /\ Newest \in Nat
    BY <1>1, Basics DEF SwitchIInv, Preparing
  <1>3. Stream.FrameParser \in Nat /\ Stream.Codec \in Nat
    BY DEF SwitchIInv, SwitchTypes
  <1>4. /\ Stream.FrameParser = Newest \/ Stream.FrameParser + 1 = Newest
        /\ Stream.Codec = Newest \/ Stream.Codec + 1 = Newest
    BY DEF SwitchIInv, ParserCall, CodecCall
  <1> QED BY <1>1, <1>2, <1>3, <1>4

\* When SwitchStream has returned, the classes that came before the ones it
\* replaces are out of use, as HavanaStream_c::Switch takes it when it then
\* deletes them.
THEOREM PreviousIsOutOfUse ==
  SwitchesAlone => (SwitchSpec => []PreviousOutOfUse)
  <1> SUFFICES ASSUME SwitchesAlone PROVE SwitchSpec => []PreviousOutOfUse
    OBVIOUS
  <1>1. SwitchIInv => PreviousOutOfUse
    BY PreviousIs DEF PreviousOutOfUse
  <1>2. SwitchSpec => []SwitchIInv
    BY SwitchInductive
  <1> QED BY <1>1, <1>2, PTL

\* The marker a ring has is in the set of its buffers.
LEMMA MarkerInRing ==
  ASSUME NEW K, NEW r \in Seq(Of(K)), Has(r, "marker"), OneMarker(r, World)
  PROVE  TheMarker(World) \in ToSet(r)
  <1>1. PICK i \in 1 .. Len(r) : r[i].kind = "marker"
    BY DEF Has
  <1>2. r[i] = TheMarker(World)
    BY <1>1 DEF OneMarker
  <1>3. DOMAIN r = 1 .. Len(r)
    BY LenProperties
  <1> QED BY <1>2, <1>3 DEF ToSet

LEMMA JoinedSet ==
  ASSUME NEW S, NEW s \in Seq(S), NEW t \in Seq(S)
  PROVE  s \o t \in Seq(S) /\ ToSet(s \o t) = ToSet(s) \cup ToSet(t)
  <1>1. /\ s \o t \in Seq(S) /\ Len(s \o t) = Len(s) + Len(t)
        /\ \A i \in 1 .. Len(s) + Len(t) :
             (s \o t)[i] = IF i <= Len(s) THEN s[i] ELSE t[i - Len(s)]
        /\ Len(s) \in Nat /\ Len(t) \in Nat
    BY ConcatProperties, LenProperties
  <1>2. /\ DOMAIN (s \o t) = 1 .. Len(s) + Len(t) /\ DOMAIN s = 1 .. Len(s)
        /\ DOMAIN t = 1 .. Len(t)
    BY <1>1, LenProperties
  <1>3. ASSUME NEW x \in ToSet(s \o t) PROVE x \in ToSet(s) \cup ToSet(t)
    <2>1. PICK i \in 1 .. Len(s) + Len(t) : x = (s \o t)[i]
      BY <1>2 DEF ToSet
    <2>2. CASE i <= Len(s)
      BY <2>1, <2>2, <1>1, <1>2 DEF ToSet
    <2>3. CASE ~(i <= Len(s))
      <3>1. i - Len(s) \in 1 .. Len(t) /\ x = t[i - Len(s)]
        BY <2>1, <2>3, <1>1
      <3> QED BY <3>1, <1>2 DEF ToSet
    <2> QED BY <2>2, <2>3
  <1>4. ASSUME NEW x \in ToSet(s) PROVE x \in ToSet(s \o t)
    <2>1. PICK i \in 1 .. Len(s) : x = s[i]
      BY <1>2 DEF ToSet
    <2>2. i \in 1 .. Len(s) + Len(t) /\ (s \o t)[i] = x
      BY <2>1, <1>1
    <2> QED BY <2>2, <1>2 DEF ToSet
  <1>5. ASSUME NEW x \in ToSet(t) PROVE x \in ToSet(s \o t)
    <2>1. PICK i \in 1 .. Len(t) : x = t[i]
      BY <1>2 DEF ToSet
    <2>2. /\ i + Len(s) \in 1 .. Len(s) + Len(t) /\ ~(i + Len(s) <= Len(s))
          /\ (i + Len(s)) - Len(s) = i
      BY <1>1
    <2>3. (s \o t)[i + Len(s)] = x
      BY <2>1, <2>2, <1>1
    <2> QED BY <2>2, <2>3, <1>2 DEF ToSet
  <1> QED BY <1>1, <1>3, <1>4, <1>5

\* What there is between the parser and the manifestor, as a set.
AnyBuffer == Of({"none", "frame", "marker", "codec", "reset", "timer"})

LEMMA FlightTypes ==
  ASSUME SwitchIInv
  PROVE  /\ ParsedFrameRing \in Seq(AnyBuffer) /\ InPtoD \in Seq(AnyBuffer)
         /\ InCodec \in Seq(AnyBuffer) /\ DecodedFrameRing \in Seq(AnyBuffer)
         /\ InQ => TheMarker(World) \in ToSet(InPtoD)
         /\ ~InQ => InPtoD = <<>>
         /\ InK => TheMarker(World) \in ToSet(InCodec)
         /\ ~InK => InCodec = codec.decoding
  <1>1. /\ ParsedFrameRing \in Seq(AnyBuffer)
        /\ DecodedFrameRing \in Seq(AnyBuffer)
        /\ codec.decoding \in Seq(AnyBuffer)
    <2>1. /\ Of({"frame"}) \subseteq AnyBuffer
          /\ Of({"frame", "marker", "codec"}) \subseteq AnyBuffer
          /\ Of({"frame", "marker", "reset", "timer"}) \subseteq AnyBuffer
      BY DEF Of, AnyBuffer
    <2>2. /\ codec.decoding \in Seq(Of({"frame"}))
          /\ ParsedFrameRing \in Seq(Of({"frame", "marker", "codec"}))
          /\ DecodedFrameRing \in Seq(Of({"frame", "marker", "reset", "timer"}))
      BY DEF SwitchIInv, SwitchTypes, Codecs
    <2> QED BY <2>1, <2>2, SeqMonotonic
  <1>2. busy["PtoD"] \in AnyBuffer /\ codec.Marker \in AnyBuffer
    <2>1. busy["PtoD"] \in MarkerOrNone /\ codec.Marker \in MarkerOrNone
      BY DEF SwitchIInv, SwitchTypes, Codecs
    <2>2. NoBuffer \in AnyBuffer /\ Of({"marker"}) \subseteq AnyBuffer
      BY DEF NoBuffer, Buffer, Of, AnyBuffer
    <2> QED BY <2>1, <2>2 DEF MarkerOrNone
  <1>3. InPtoD \in Seq(AnyBuffer)
    BY <1>2 DEF InPtoD
  <1>4. ASSUME InQ PROVE TheMarker(World) \in ToSet(InPtoD)
    <2>1. InPtoD = << TheMarker(World) >>
      BY <1>4, MarkerIs DEF InPtoD, InQ
    <2> QED BY <2>1 DEF ToSet
  <1>5. ~InQ => InPtoD = <<>>
    BY DEF InPtoD, InQ
  <1>6. ~InK => InCodec = codec.decoding
    BY DEF InCodec, InK
  <1>7. ASSUME InK
        PROVE  InCodec \in Seq(AnyBuffer) /\ TheMarker(World) \in ToSet(InCodec)
    <2> DEFINE d == codec.decoding
               n == Len(d)
               front == SubSeq(d, 1, n)
               back == SubSeq(d, n + 1, n)
    <2>1. n \in Nat /\ \A i \in 1 .. n : d[i] \in AnyBuffer
      BY <1>1, LenProperties, ElementOfSeq
    <2>2. InCodec = InsertAt(d, n + 1, codec.Marker)
      <3>1. codec.PassOnAt = codec.Prepared /\ codec.Prepared \in Nat
        BY <1>7 DEF SwitchIInv, Counts, SwitchTypes, Codecs
      <3>2. n + codec.PassOnAt - codec.Prepared = n
        BY <3>1, <2>1
      <3>3. (IF n > 0 THEN n + 1 ELSE 1) = n + 1
        BY <2>1
      <3> QED BY <3>2, <3>3, <1>7 DEF InCodec, InK
    <2>3. InCodec = front \o << codec.Marker >> \o back
      <3>1. (n + 1) - 1 = n
        BY <2>1
      <3>2. InsertAt(d, n + 1, codec.Marker)
              = SubSeq(d, 1, (n + 1) - 1) \o << codec.Marker >> \o back
        BY DEF InsertAt
      <3> QED BY <2>2, <3>1, <3>2
    <2>4. front \in Seq(AnyBuffer) /\ back \in Seq(AnyBuffer)
      <3>1. 1 \in Int /\ n \in Int /\ n + 1 \in Int
        BY <2>1
      <3>2. \A i \in n + 1 .. n : d[i] \in AnyBuffer
        BY <2>1
      <3> QED BY <3>1, <3>2, <2>1, SubSeqProperties
    <2> HIDE DEF front, back
    <2>5. << codec.Marker >> \in Seq(AnyBuffer)
      BY <1>2
    <2>6. /\ InCodec \in Seq(AnyBuffer)
          /\ ToSet(InCodec)
               = (ToSet(front) \cup ToSet(<< codec.Marker >>)) \cup ToSet(back)
      <3> DEFINE half == front \o << codec.Marker >>
      <3>1. /\ half \in Seq(AnyBuffer)
            /\ ToSet(half) = ToSet(front) \cup ToSet(<< codec.Marker >>)
        BY <2>4, <2>5, JoinedSet
      <3>2. InCodec = half \o back
        BY <2>3
      <3> HIDE DEF half
      <3> QED BY <2>4, <3>1, <3>2, JoinedSet
    <2>7. codec.Marker = TheMarker(World)
      BY <1>7 DEF SwitchIInv, Marker, InK
    <2>8. codec.Marker \in ToSet(<< codec.Marker >>)
      BY DEF ToSet
    <2> QED BY <2>6, <2>7, <2>8
  <1> QED BY <1>1, <1>3, <1>4, <1>5, <1>6, <1>7

\* Until a process has passed the marker, the marker is on its way to it.
LEMMA MarkerAhead ==
  ASSUME SwitchIInv
  PROVE  /\ passed["PtoD"] < Number =>
              \/ TheMarker(World) \in MarkersFor("PtoD")
              \/ TheMarker(World) = busy["PtoD"]
         /\ seen["DtoM"] < Number => TheMarker(World) \in MarkersFor("DtoM")
         /\ seen["DtoM"] < Number /\ ~InC /\ ("PtoD" \in performing => ~InP)
              => TheMarker(World) \in Emerging
  <1> DEFINE m == TheMarker(World)
  <1>1. m.kind = "marker"
    BY DEF TheMarker, Buffer
  <1>2. /\ InC => m \in ToSet(CollatedFrameRing)
        /\ InP => m \in ToSet(ParsedFrameRing)
        /\ InD => m \in ToSet(DecodedFrameRing)
    <2>1. /\ OneMarker(CollatedFrameRing, World)
          /\ OneMarker(ParsedFrameRing, World)
          /\ OneMarker(DecodedFrameRing, World)
      BY DEF SwitchIInv, Contents, Collated, Line
    <2>2. /\ CollatedFrameRing \in Seq(Of({"frame", "jump", "marker", "parser"}))
          /\ ParsedFrameRing \in Seq(Of({"frame", "marker", "codec"}))
          /\ DecodedFrameRing \in Seq(Of({"frame", "marker", "reset", "timer"}))
      BY DEF SwitchIInv, SwitchTypes
    <2> QED BY <2>1, <2>2, MarkerInRing DEF InC, InP, InD
  <1>3. /\ InQ => m \in ToSet(InPtoD)
        /\ InK => m \in ToSet(InCodec)
    BY FlightTypes
  <1>4. ToSet(InPtoD \o InCodec \o DecodedFrameRing)
          = (ToSet(InPtoD) \cup ToSet(InCodec)) \cup ToSet(DecodedFrameRing)
    <2>1. /\ InPtoD \in Seq(AnyBuffer) /\ InCodec \in Seq(AnyBuffer)
          /\ DecodedFrameRing \in Seq(AnyBuffer)
      BY FlightTypes
    <2> DEFINE s == InPtoD \o InCodec
    <2>2. s \in Seq(AnyBuffer) /\ ToSet(s) = ToSet(InPtoD) \cup ToSet(InCodec)
      BY <2>1, JoinedSet
    <2> HIDE DEF s
    <2>3. ToSet(s \o DecodedFrameRing) = ToSet(s) \cup ToSet(DecodedFrameRing)
      BY <2>1, <2>2, JoinedSet
    <2> QED BY <2>2, <2>3 DEF s
  <1>5. busy["PtoD"] \in {NoBuffer, m}
    BY DEF SwitchIInv, Marker
  <1> HIDE DEF m
  <1>6. ASSUME passed["PtoD"] < Number
        PROVE  m \in MarkersFor("PtoD") \/ m = busy["PtoD"]
    <2>1. InC \/ InP \/ busy["PtoD"] # NoBuffer
      BY <1>6 DEF SwitchIInv, Numbers
    <2>2. InC \/ InP => m \in MarkersFor("PtoD")
      BY <1>1, <1>2 DEF MarkersFor
    <2> QED BY <2>1, <2>2, <1>5
  <1>7. ASSUME seen["DtoM"] < Number
        PROVE  InC \/ InP \/ InQ \/ InK \/ InD
    BY <1>7 DEF SwitchIInv, Numbers
  <1>8. InC \/ InP \/ InQ \/ InK \/ InD => m \in MarkersFor("DtoM")
    BY <1>1, <1>2, <1>3, <1>4 DEF MarkersFor
  <1>9. InQ \/ InK \/ InD \/ (InP /\ "PtoD" \notin performing) => m \in Emerging
    BY <1>1, <1>2, <1>3, <1>4 DEF Emerging
  <1> QED BY <1>6, <1>7, <1>8, <1>9 DEF m

\* A call that is kept waits for the marker on its way, and the processes
\* that wait, inside SwitchFrameParser and SwitchCodec, for the last decode to
\* come out of the codec wait for a marker that none of them holds up.
THEOREM NoCallIsStranded ==
  SwitchesAlone => (SwitchSpec => []NoCallStranded)
  <1> SUFFICES ASSUME SwitchesAlone PROVE SwitchSpec => []NoCallStranded
    OBVIOUS
  <1>1. ASSUME SwitchIInv PROVE NoCallStranded
    <2> USE <1>1
    <2> DEFINE m == TheMarker(World)
    <2>1. /\ m.seq = Number /\ Number \in Nat
          /\ TheCall("codec", World).seq = Number
          /\ TheCall("timer", World).seq = Number
      BY Basics DEF SwitchIInv, TheMarker, TheCall, Buffer
    <2> HIDE DEF m
    <2>2. ASSUME NEW s \in Stages \ {"PostM"}, NEW c \in calls[s]
          PROVE  \E b \in MarkersFor(s)
                            \cup (IF s = "PtoD" THEN {busy["PtoD"]} ELSE {}) :
                   b.seq >= c.seq
      <3>1. CASE s = "CtoP"
        BY <3>1 DEF SwitchIInv, ParserCall
      <3>2. CASE s = "PtoD"
        <4>1. c.seq = Number /\ passed["PtoD"] < Number
          BY <2>1, <2>2, <3>2 DEF SwitchIInv, CodecCall
        <4>2. m \in MarkersFor(s) \cup (IF s = "PtoD" THEN {busy["PtoD"]} ELSE {})
          BY <3>2, <4>1, MarkerAhead DEF m
        <4> QED BY <2>1, <4>1, <4>2
      <3>3. CASE s = "DtoM"
        <4>1. c.seq = Number /\ seen["DtoM"] < Number
          BY <2>1, <2>2, <3>3 DEF SwitchIInv, TimerCall
        <4>2. m \in MarkersFor(s)
          BY <3>3, <4>1, MarkerAhead DEF m
        <4> QED BY <2>1, <4>1, <4>2
      <3> QED BY <3>1, <3>2, <3>3 DEF Stages
    <2>3. ASSUME performing \ {"halted"} # {}, ~LastOneOut,
                 switcher \notin {"PtoD", "DtoM"},
                 ~ \E x \in ToSet(DecodedFrameRing) : x.kind = "timer"
          PROVE  /\ calls["DtoM"] # {}
                 /\ \A c \in calls["DtoM"] : \E b \in Emerging : b.seq >= c.seq
      <3>1. /\ "CtoP" \in performing \/ "PtoD" \in performing
            /\ "CtoP" \in performing => Sent("CtoP") /\ ~InC
            /\ "PtoD" \in performing => Sent("PtoD") /\ passed["PtoD"] >= Number
        BY <2>3 DEF SwitchIInv, SwitchTypes, ParserCall, CodecCall
      <3>2. Underway /\ switcher \notin {"drain", "CtoP", "PtoD", "DtoM"}
        BY <2>3, <3>1 DEF Sent, Before
      <3>3. ~Out /\ Sent("DtoM")
        BY <2>3, <3>2 DEF Out, Sent, Before
      <3>4. ~Has(DecodedFrameRing, "timer")
        <4>1. DOMAIN DecodedFrameRing = 1 .. Len(DecodedFrameRing)
          BY LenProperties DEF SwitchIInv, SwitchTypes
        <4> QED BY <2>3, <4>1 DEF Has, ToSet
      <3>5. calls["DtoM"] # {}
        BY <3>3, <3>4 DEF SwitchIInv, TimerCall
      <3>6. /\ seen["DtoM"] < Number
            /\ calls["DtoM"] \subseteq {TheCall("timer", World)}
        BY <3>5 DEF SwitchIInv, TimerCall
      <3>7. ~InC /\ ("PtoD" \in performing => ~InP)
        <4>1. passed["PtoD"] \in Nat
          BY DEF SwitchIInv, SwitchTypes
        <4>2. "PtoD" \in performing => ~InC /\ ~InP
          BY <2>1, <3>1, <4>1 DEF SwitchIInv, Numbers
        <4> QED BY <3>1, <4>2
      <3>8. m \in Emerging
        BY <3>6, <3>7, MarkerAhead DEF m
      <3> QED BY <2>1, <3>5, <3>6, <3>8
    <2> QED BY <2>2, <2>3 DEF NoCallStranded
  <1>2. SwitchSpec => []SwitchIInv
    BY SwitchInductive
  <1> QED BY <1>1, <1>2, PTL

-----------------------------------------------------------------------------
(* What a step may not do.                                                 *)

\* When the last decode is out of the codec nothing in flight is old.
LEMMA AllInFlightIsNew ==
  ASSUME SwitchIInv, Out, NEW b \in ToSet(InFlight), b.kind = "frame"
  PROVE  New(b, World)
  <1>1. /\ ~InQ /\ ~InK /\ NoOld(DecodedFrameRing, World)
        /\ NoOld(codec.decoding, World) /\ NoOld(ParsedFrameRing, World)
    BY NothingUpstream
  <1>2. /\ InCodec = codec.decoding /\ InPtoD = <<>>
        /\ ParsedFrameRing \in Seq(AnyBuffer) /\ InPtoD \in Seq(AnyBuffer)
        /\ InCodec \in Seq(AnyBuffer) /\ DecodedFrameRing \in Seq(AnyBuffer)
    BY <1>1, FlightTypes
  <1> DEFINE s == DecodedFrameRing \o InCodec
             t == s \o InPtoD
  <1>3. s \in Seq(AnyBuffer) /\ NoOld(s, World)
    BY <1>1, <1>2, JoinKeeps DEF AnyBuffer
  <1>4. NoOld(InPtoD, World)
    BY <1>2, NothingIn
  <1> HIDE DEF s
  <1>5. t \in Seq(AnyBuffer) /\ NoOld(t, World)
    BY <1>2, <1>3, <1>4, JoinKeeps DEF AnyBuffer
  <1> HIDE DEF t
  <1>6. InFlight = t \o ParsedFrameRing
    BY DEF InFlight, s, t
  <1>7. InFlight \in Seq(AnyBuffer) /\ NoOld(InFlight, World)
    BY <1>1, <1>2, <1>5, <1>6, JoinKeeps DEF AnyBuffer
  <1>8. PICK i \in 1 .. Len(InFlight) : b = InFlight[i]
    <2>1. DOMAIN InFlight = 1 .. Len(InFlight)
      BY <1>7, LenProperties
    <2> QED BY <2>1 DEF ToSet
  <1>9. ~Old(b, World)
    BY <1>7, <1>8 DEF NoOld
  <1> QED BY <1>9 DEF Old, New

\* When the frame parser is replaced, no frame parsed by it is on its way to
\* the decoder or in it: "no-one will need to use any of the stream, or frame,
\* parameters of the current frame parser".
THEOREM NobodyNeedsTheParser ==
  SwitchesAlone => (SwitchSpec => NoOneNeedsTheParser)
  <1> DEFINE Needed == Stream'.FrameParser # Stream.FrameParser
                => \A b \in ToSet(InFlight) :
                     b.kind = "frame" => StreamOf(b) # Stream.FrameParser
  <1> SUFFICES ASSUME SwitchesAlone PROVE SwitchSpec => [][Needed]_svars
    BY DEF NoOneNeedsTheParser
  <1>1. ASSUME SwitchIInv, SwitchNext PROVE Needed
    <2> SUFFICES ASSUME Stream'.FrameParser # Stream.FrameParser,
                        NEW b \in ToSet(InFlight), b.kind = "frame"
                 PROVE  StreamOf(b) # Stream.FrameParser
      OBVIOUS
    <2>1. SwitchFrameParser
      <3>1. Stream \in [Collator : Nat, FrameParser : Nat, Codec : Nat]
        BY <1>1 DEF SwitchIInv, SwitchTypes
      <3> QED BY <3>1, <1>1 DEF SwitchNext, Writes, SwitchedCtoP, Arrives,
            SwitchedPtoD, SwitchCodecHalts, SwitchCodec, SwitchedDtoM,
            SwitchedPostM, Unswitched, DrainOnly, SwitchBegins, Switches,
            SwitchCollator, SwitchCalls, switch
    <2>2. "CtoP" \in performing /\ LastOneOut
      BY <2>1 DEF SwitchFrameParser, LastDecodeIsOut, SwitchesAlone
    <2>3. Sent("CtoP") /\ Stream.FrameParser # Newest
      BY <1>1, <2>2 DEF SwitchIInv, ParserCall
    <2>4. Out
      BY <2>2, <2>3 DEF Sent, Before, Out
    <2>5. New(b, World)
      BY <1>1, <2>4, AllInFlightIsNew
    <2>6. streamOf[b.id] = Newest
      BY <2>5 DEF New, World
    <2> QED BY <2>3, <2>6 DEF StreamOf
  <1>2. SwitchSpec => []SwitchIInv
    BY SwitchInductive
  <1> HIDE DEF Needed
  <1>3. SwitchSpec => [][SwitchNext]_svars
    BY PTL DEF SwitchSpec
  <1> QED BY <1>1, <1>2, <1>3, PTL

\* A frame that comes out of the manifestor goes back through the codec of
\* the stream if, and only if, that is the one that decoded it and it has not
\* been halted.
LEMMA FrameGoesBack ==
  ASSUME SwitchIInv, SwitchNext,
         ManifestedBufferRing # <<>>, Head(ManifestedBufferRing).kind = "frame",
         ManifestedBufferRing' = Tail(ManifestedBufferRing)
  PROVE  CodecReset' <=>
           \/ "halted" \in performing
           \/ StreamOf(Head(ManifestedBufferRing)) # Stream.Codec
  <1> DEFINE M == ManifestedBufferRing
             h == Head(M)
             due == DueCalls("PostM", h.seq)
             KM == {"frame", "marker", "drained", "complete"}
  <1>1. /\ M \in Seq(Of(KM)) /\ Number \in Nat /\ World.number = Number
        /\ World.newest = Newest /\ World.streams = streamOf
        /\ CodecReset \in BOOLEAN /\ Newest \in Nat
    BY Basics DEF SwitchIInv, SwitchTypes
  <1>2. /\ Beside(h, World) /\ InWorld(h, World)
        /\ Has(Tail(M), "complete") => ~New(h, World)
        /\ FlagsOfTail(M, World) /\ h.seq \in Nat
        /\ Len(M) \in Nat /\ Len(Tail(M)) \in Nat /\ Len(M) = Len(Tail(M)) + 1
    <2>1. /\ h \in Of(KM)
          /\ Beside(h, World) /\ InWorld(h, World)
          /\ Has(Tail(M), "complete") => ~New(h, World)
          /\ FlagsOfTail(M, World)
          /\ Len(M) \in Nat /\ Len(Tail(M)) \in Nat
          /\ Len(M) = Len(Tail(M)) + 1
      BY <1>1, ScreenTail, Flags DEF SwitchIInv, Contents
    <2> QED BY <2>1 DEF Of
  <1>3. PostMTake /\ SwitchComplete(due)
    <2>1. Len(M') # Len(M) /\ Len(M') < Len(M)
      <3>1. M' = Tail(M)
        OBVIOUS
      <3>2. Len(Tail(M)) # Len(M) /\ Len(Tail(M)) < Len(M)
        <4> HIDE DEF M
        <4> QED BY <1>2
      <3> QED BY <3>1, <3>2
    <2>2. SwitchedPostM
      <3>1. ~UNCHANGED M
        BY <2>1
      <3>2. ~DtoMMarker
        <4>1. ASSUME DtoMMarker PROVE FALSE
          <5>1. M' = Append(M, Head(DecodedFrameRing))
            BY <4>1 DEF DtoMMarker
          <5>2. Len(M') = Len(M) + 1
            BY <5>1, <1>1, AppendProperties
          <5> QED BY <5>2, <1>2
        <4> QED BY <4>1
      <3>3. ~Show
        <4>1. ASSUME Show PROVE FALSE
          <5>1. M' = Append(M, Head(shown))
            BY <4>1 DEF Show
          <5>2. Len(M') = Len(M) + 1
            BY <5>1, <1>1, AppendProperties
          <5> QED BY <5>2, <1>2
        <4> QED BY <4>1
      <3>4. ~DrainFlushes
        <4>1. ASSUME DrainFlushes PROVE FALSE
          <5>1. M' = M \o shown
            BY <4>1 DEF DrainFlushes
          <5>2. Len(M') = Len(M) + Len(shown) /\ Len(shown) \in Nat
            <6>1. shown \in Seq(Of({"frame"})) /\ Of({"frame"}) \subseteq Of(KM)
              BY DEF SwitchIInv, SwitchTypes, Of
            <6>2. shown \in Seq(Of(KM))
              BY <6>1, SeqMonotonic
            <6> QED BY <6>2, <5>1, <1>1, ConcatProperties, LenProperties
          <5> QED BY <5>2, <1>2
        <4> QED BY <4>1
      <3>5. ~DrainCalls
        <4>1. ASSUME DrainCalls PROVE FALSE
          <5>1. M' = Append(M, Buffer("drained", drain, DrainSequenceNumber))
            BY <4>1, <3>1 DEF DrainCalls
          <5>2. Len(M') = Len(M) + 1
            BY <5>1, <1>1, AppendProperties
          <5> QED BY <5>2, <1>2
        <4> QED BY <4>1
      <3>6. ~SwitchCalls
        <4>1. ASSUME SwitchCalls PROVE FALSE
          <5>1. PICK stage \in Stages :
                  RingsAre([Ring EXCEPT ![stage] = Append(@, Call(stage))])
            BY <4>1 DEF SwitchCalls
          <5>2. stage = "PostM" /\ M' = Append(M, Call("PostM"))
            BY <5>1, <3>1, OneRing DEF RingsAre, Ring, Stages
          <5>3. Len(M') = Len(M) + 1
            BY <5>2, <1>1, AppendProperties
          <5> QED BY <5>3, <1>2
        <4> QED BY <4>1
      <3>7. \A stage, n : Arrives(stage, n) /\ stage \in {"CtoP", "PtoD", "DtoM"}
              => UNCHANGED M
        BY OneRing DEF Arrives, RingsAre, Ring
      <3> QED BY <3>1, <3>2, <3>3, <3>4, <3>5, <3>6, <3>7
          DEF SwitchNext, Writes, Inject, SwitchedCtoP, CtoP, CtoPFrame,
              CtoPMarker, SwitchFrameParser, SwitchedPtoD, PtoDFrame,
              PtoDMarker, PtoDMarkerTest, MarkerInput, TestMarkerFramePassOn,
              SwitchCodecHalts, SwitchCodec, SwitchedDtoM, DtoMFrame,
              DtoMMarkerClear, DtoMCall,
              Unswitched, Callback, DecodeCompletes, CallbackCounts, Drain,
              DrainChecks, DrainNumbers, DrainLaunches, DrainWaits, DrainOnly,
              DrainBegins, SwitchBegins, Switches, SwitchCollator, vars, rings
    <2>3. ~PostMCall
      BY DEF PostMCall, IsCall
    <2>4. ~Arrives("PostM", seen["PostM"])
      BY OneRing DEF Arrives, Messages
    <2> QED BY <2>2, <2>3, <2>4 DEF SwitchedPostM
  <1>4. /\ New(h, World) => /\ streamOf[h.id] = Newest
                            /\ Stream.Codec = Newest /\ "halted" \notin performing
        /\ Old(h, World) => streamOf[h.id] + 1 = Newest
        /\ New(h, World) <=> ~Old(h, World)
    <2>1. New(h, World) => ~NoNew(M, World)
      BY <1>2 DEF FlagsOfTail
    <2>2. New(h, World) => Stream.Codec = Newest /\ "halted" \notin performing
      BY <2>1 DEF SwitchIInv, CodecCall
    <2>3. Old(h, World) => streamOf[h.id] + 1 = Newest
      <3>1. /\ h.id \in 1 .. frames /\ streamOf[h.id] <= Newest
            /\ Newest <= streamOf[h.id] + 1
        BY <1>1, <1>2, Basics DEF InWorld, SwitchIInv
      <3>2. streamOf[h.id] \in Nat
        BY <3>1, ElementOfSeq DEF SwitchIInv, SwitchTypes
      <3> QED BY <3>1, <3>2, <1>1 DEF Old
    <2> QED BY <1>1, <2>2, <2>3 DEF New, Old
  <1>5. due # {} <=> Underway /\ New(h, World)
    <2>1. TheCall("complete", World).seq = Number + 1
      BY <1>1 DEF TheCall, Buffer
    <2>2. calls["PostM"] \subseteq {TheCall("complete", World)}
      BY DEF SwitchIInv, CompleteCall
    <2>3. ASSUME due # {} PROVE Underway /\ New(h, World)
      <3>1. Number + 1 <= h.seq /\ calls["PostM"] # {}
        BY <2>1, <2>2, <2>3 DEF DueCalls
      <3>2. Underway
        BY <3>1 DEF SwitchIInv, CompleteCall, Sent
      <3>3. ~Old(h, World)
        BY <3>1, <1>1, <1>2 DEF Beside
      <3> QED BY <3>2, <3>3, <1>4
    <2>4. ASSUME Underway, New(h, World) PROVE due # {}
      <3>1. Sent("PostM")
        BY <2>4, <1>2, NewIsLate DEF SwitchIInv
      <3>2. ~Has(M, "complete")
        BY <2>4, <1>2 DEF FlagsOfTail
      <3>3. TheCall("complete", World) \in calls["PostM"]
        BY <3>1, <3>2, <2>2 DEF SwitchIInv, CompleteCall
      <3>4. Number + 1 <= h.seq
        BY <2>4, <1>1, <1>2 DEF Beside
      <3> QED BY <3>3, <3>4, <2>1 DEF DueCalls
    <2> QED BY <2>3, <2>4
  <1>6. ~Underway => New(h, World)
    <2>1. ~Underway => NoOld(M, World)
      BY DEF SwitchIInv, Screen
    <2> QED BY <2>1, <1>2, <1>4 DEF FlagsOfTail
  <1>7. CodecReset' <=> CodecReset /\ due = {}
    BY <1>1, <1>3 DEF SwitchComplete, CodecResetAfter
  <1>8. CodecReset <=>
          Underway /\ ("halted" \in performing \/ Stream.Codec = Newest)
    BY DEF SwitchIInv, CodecCall
  <1>9. Stream.Codec \in Nat /\ (Stream.Codec = Newest \/ Stream.Codec + 1 = Newest)
    BY DEF SwitchIInv, SwitchTypes, CodecCall
  <1>10. "halted" \in performing => Underway /\ Stream.Codec # Newest
    BY DEF SwitchIInv, CodecCall, Sent
  <1>11. CASE New(h, World)
    <2>1. ~CodecReset'
      BY <1>5, <1>7, <1>8, <1>11
    <2> QED BY <2>1, <1>4, <1>11 DEF StreamOf
  <1>12. CASE Old(h, World)
    <2>1. Underway /\ due = {}
      BY <1>4, <1>5, <1>6, <1>12
    <2>2. CodecReset' <=> "halted" \in performing \/ Stream.Codec = Newest
      BY <2>1, <1>7, <1>8
    <2>3. streamOf[h.id] + 1 = Newest
      BY <1>4, <1>12
    <2>4. streamOf[h.id] \in Nat
      <3>1. h.id \in 1 .. frames
        BY <1>1, <1>2, Basics DEF InWorld, SwitchIInv
      <3> QED BY <3>1, ElementOfSeq DEF SwitchIInv, SwitchTypes
    <2>5. Stream.Codec = Newest <=> streamOf[h.id] # Stream.Codec
      BY <2>3, <2>4, <1>9, <1>1
    <2> QED BY <2>2, <2>5 DEF StreamOf
  <1> QED BY <1>4, <1>11, <1>12

\* ProcessPostManifest returns a frame through the stream's codec as long as
\* the codec that decoded it is in use and has not been halted, and only then.
THEOREM FramesAreReleasedByTheirCodec ==
  SwitchesAlone => (SwitchSpec => ReleasedByItsCodec)
  <1> DEFINE Released ==
        LET b == Head(ManifestedBufferRing)
        IN ManifestedBufferRing # <<>> /\ b.kind = "frame"
             /\ ManifestedBufferRing' = Tail(ManifestedBufferRing)
           => /\ StreamOf(b) = Stream.Codec /\ "halted" \notin performing
                   => ~CodecReset'
              /\ SwitchesOnly /\ ~CodecReset' => StreamOf(b) = Stream.Codec
  <1> SUFFICES ASSUME SwitchesAlone PROVE SwitchSpec => [][Released]_svars
    BY DEF ReleasedByItsCodec
  <1>1. SwitchIInv /\ SwitchNext => Released
    BY FrameGoesBack
  <1>2. SwitchSpec => []SwitchIInv
    BY SwitchInductive
  <1> HIDE DEF Released
  <1>3. SwitchSpec => [][SwitchNext]_svars
    BY PTL DEF SwitchSpec
  <1> QED BY <1>1, <1>2, <1>3, PTL
=============================================================================
