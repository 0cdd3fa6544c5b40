---------------------------- MODULE StreamSwitch ----------------------------
(* The switch of a stream in place (player/player/player_switch.cpp): the  *)
(* collator, the frame parser and the codec are replaced one after the     *)
(* other, each when a non-blocking drain's marker has passed it.  Extends  *)
(* the chain of StreamDrain: an action of a process is the process' action *)
(* there and what the switch makes of it here.  An object is named by the  *)
(* number of the switch that brought it; the output timer is always kept   *)
(* (linux/drivers/media/dvb/stm/backend/havana_stream.cpp).                *)
EXTENDS StreamDrain

CONSTANTS MaxSwitches,       \* bound on the switches
          OtherDrains,       \* the values NonBlocking is called with for
                             \* drains that are not a switch's
          LastDecodeLate,    \* whether a wait for the last decode to come out
                             \* of the codec may time out
          WriterWaits        \* whether whoever injects frames waits for
                             \* SwitchStream to return: no lock makes it

ASSUME SwitchAssumption ==
  /\ MaxSwitches \in Nat
  /\ {WriterWaits, LastDecodeLate} \cup OtherDrains \subseteq BOOLEAN
\* One marker at a time in CollatedFrameRing: that of a switch has left it
\* when the next switch begins, that of another drain may be behind it.
ASSUME OverlapAssumption == MaxDrains <= 2 \/ OtherDrains = {}

VARIABLES switcher,          \* where the thread is that calls SwitchStream
          SwitchStreamInProgress, CodecReset,
          LastOneOut,        \* the event SwitchStreamLastOneOutOfTheCodec
          Stream,            \* the stream's Collator, FrameParser, Codec
          calls,             \* the tables AccumulatedAfterCtoP, AfterPtoD,
                             \* AfterDtoM, BeforePostM
          passed,            \* MaximumActualSequenceNumberSeen, CtoP and PtoD
          performing,        \* the processes inside SwitchFrameParser, Codec
          streamOf           \* for each frame, the collator it came through

switch == <<switcher, SwitchStreamInProgress, CodecReset, LastOneOut, Stream,
            calls, passed, performing, streamOf>>
svars == <<vars, switch>>

Messages == [CtoP |-> "parser", PtoD |-> "codec", DtoM |-> "timer",
             PostM |-> "complete"]

SwitchInit ==
  /\ Init
  /\ switcher = "idle"
  /\ SwitchStreamInProgress = FALSE /\ CodecReset = FALSE
  /\ LastOneOut = FALSE
  /\ Stream = [Collator |-> 0, FrameParser |-> 0, Codec |-> 0]
  /\ calls = [s \in Stages |-> {}]
  /\ passed = [s \in {"CtoP", "PtoD"} |-> 0]
  /\ performing = {}
  /\ streamOf = <<>>

-----------------------------------------------------------------------------
(* SwitchStream                                                            *)

\* Mutant: a switch that is in progress does not keep the next one out.
MaySwitchAgain == TRUE

MaySwitch == ~SwitchStreamInProgress

\* The drain, which may wait for an earlier marker before it launches its own.
SwitchBegins ==
  /\ switcher = "idle" /\ drainer.at = "idle"
  /\ Stream.Collator < MaxSwitches /\ MaySwitch
  /\ DrainBegins /\ drainer'.nonBlocking /\ ~Last(drains').parseAll
  /\ switcher' = "drain"
  /\ UNCHANGED <<SwitchStreamInProgress, CodecReset, LastOneOut, Stream,
                 calls, passed, performing, streamOf>>

\* Whether the drain has failed or not, the switch goes on.
SwitchMarks == SwitchStreamInProgress' = TRUE /\ LastOneOut' = FALSE

\* The marks of a switch, and the collator, in the calling thread.
SwitchCollator ==
  /\ switcher = "drain" /\ drainer.at = "idle"
  /\ SwitchMarks
  /\ Stream' = [Stream EXCEPT !.Collator = @ + 1]
  /\ switcher' = "CtoP"
  /\ UNCHANGED <<vars, CodecReset, calls, passed, performing, streamOf>>

\* DrainSequenceNumber: a drain that failed has launched no marker.
StreamDrainSequenceNumber == Max({0} \union {drains[d].seq : d \in 1 .. drain})

\* The call a process is sent: the last is for "before" the number after the
\* marker's, the others for "after" the marker's own.
Call(stage) ==
  Buffer(Messages[stage], Stream.Collator,
         StreamDrainSequenceNumber + (IF stage = "PostM" THEN 1 ELSE 0))

Ring == [CtoP |-> CollatedFrameRing, PtoD |-> ParsedFrameRing,
         DtoM |-> DecodedFrameRing, PostM |-> ManifestedBufferRing]
RingsAre(ring) ==
  /\ CollatedFrameRing' = ring.CtoP /\ ParsedFrameRing' = ring.PtoD
  /\ DecodedFrameRing' = ring.DtoM /\ ManifestedBufferRing' = ring.PostM

Following == [CtoP |-> "PtoD", PtoD |-> "DtoM", DtoM |-> "PostM",
              PostM |-> "idle"]

SwitchCalls ==
  \E stage \in Stages :
    /\ switcher = stage
    /\ RingsAre([Ring EXCEPT ![stage] = Append(@, Call(stage))])
    /\ switcher' = Following[stage]
    /\ UNCHANGED <<processes, player, codec, shown, drainer, input,
                   SwitchStreamInProgress, CodecReset, LastOneOut, Stream,
                   calls, passed, performing, streamOf>>

-----------------------------------------------------------------------------
(* The processes                                                           *)

\* Mutant: a call is performed behind the buffer after the one it is for.
DueCallsLater(stage, value) == {m \in calls[stage] : m.seq < value}

DueCalls(stage, value) == {m \in calls[stage] : m.seq <= value}

\* A process that blocks in the call it performs: CtoP in SwitchFrameParser,
\* PtoD in SwitchCodec.
Performs(stage, due) ==
  performing' = IF due = {} THEN performing ELSE performing \union {stage}

\* The end of the turn for a buffer: the calls that are for behind it.
Passes(stage, value) ==
  /\ passed' = [passed EXCEPT ![stage] = IF value > @ THEN value ELSE @]
  /\ Performs(stage, DueCalls(stage, value))
  /\ calls' = [calls EXCEPT ![stage] = @ \ DueCalls(stage, value)]

\* A call arrives at the process, which keeps it unless it is due already.
Arrives(stage, seenThere) ==
  /\ Ring[stage] # <<>> /\ Head(Ring[stage]).kind = Messages[stage]
  /\ RingsAre([Ring EXCEPT ![stage] = Tail(@)])
  /\ calls' = IF Head(Ring[stage]).seq <= seenThere THEN calls
              ELSE [calls EXCEPT ![stage] = @ \union {Head(Ring[stage])}]
  /\ UNCHANGED <<processes, player, codec, shown, drainer, input, switcher,
                 Stream, passed, streamOf>>

ArrivedDue(stage, seenThere) == Head(Ring[stage]).seq <= seenThere

Writes ==
  /\ WriterWaits => switcher = "idle"
  /\ Inject
  /\ streamOf' = Append(streamOf, Stream.Collator)
  /\ UNCHANGED <<switcher, SwitchStreamInProgress, CodecReset, LastOneOut,
                 Stream, calls, passed, performing>>

SwitchedCtoP ==
  /\ "CtoP" \notin performing
  /\ \/ /\ CollatedFrameRing # <<>> /\ Head(CollatedFrameRing).kind # "parser"
        /\ CtoP
        /\ Passes("CtoP", NextBufferSequenceNumber' - 1)
        /\ UNCHANGED <<SwitchStreamInProgress, CodecReset, LastOneOut,
                       switcher, Stream, streamOf>>
     \/ /\ Arrives("CtoP", passed["CtoP"])
        /\ Performs("CtoP", IF ArrivedDue("CtoP", passed["CtoP"])
                            THEN {Head(CollatedFrameRing)} ELSE {})
        /\ UNCHANGED <<SwitchStreamInProgress, CodecReset, LastOneOut>>

\* Mutant: the wait for the last decode is left out.
LastDecodeWhatever == TRUE

LastDecodeIsOut == LastOneOut \/ LastDecodeLate

SwitchFrameParser ==
  /\ "CtoP" \in performing /\ LastDecodeIsOut
  /\ Stream' = [Stream EXCEPT !.FrameParser = Stream.Collator]
  /\ performing' = performing \ {"CtoP"}
  /\ UNCHANGED <<vars, switcher, SwitchStreamInProgress, CodecReset,
                 LastOneOut, calls, passed, streamOf>>

\* The turn of PtoD for a marker ends when Codec->Input returns, or when the
\* marker is lost: the calls that are for behind it are performed all the same.
SwitchedPtoD ==
  /\ performing \intersect {"PtoD", "halted"} = {}
  /\ \/ /\ PtoDFrame /\ Passes("PtoD", Head(ParsedFrameRing).seq)
        /\ UNCHANGED <<SwitchStreamInProgress, CodecReset, LastOneOut,
                       switcher, Stream, streamOf>>
     \/ /\ \/ PtoDMarker \/ PtoDMarkerTest
           \/ MarkerInput \/ TestMarkerFramePassOn("input")
        /\ IF ~Idle("PtoD") /\ busy'["PtoD"] = NoBuffer
           THEN Passes("PtoD", busy["PtoD"].seq)
           ELSE UNCHANGED <<passed, performing, calls>>
        /\ UNCHANGED <<SwitchStreamInProgress, CodecReset, LastOneOut,
                       switcher, Stream, streamOf>>
     \/ /\ Idle("PtoD") /\ Arrives("PtoD", passed["PtoD"])
        /\ Performs("PtoD", IF ArrivedDue("PtoD", passed["PtoD"])
                            THEN {Head(ParsedFrameRing)} ELSE {})
        /\ UNCHANGED <<SwitchStreamInProgress, CodecReset, LastOneOut>>

\* Halt waits until the transformer is done with what it was sent, and loses
\* a marker that is still held.
SwitchCodecHalts ==
  /\ "PtoD" \in performing /\ LastDecodeIsOut
  /\ codec.decoding = <<>> /\ codec.callback # "count"
  /\ performing' = (performing \ {"PtoD"}) \union {"halted"}
  /\ CodecReset' = TRUE
  /\ UNCHANGED <<vars, switcher, SwitchStreamInProgress, LastOneOut, Stream,
                 calls, passed, streamOf>>

SwitchCodec ==
  /\ "halted" \in performing
  /\ performing' = performing \ {"halted"}
  /\ Stream' = [Stream EXCEPT !.Codec = Stream.Collator]
  /\ codec' = [decoding |-> <<>>, Prepared |-> 0, Completed |-> 0,
               DiscardUntil |-> 0, Marker |-> NoBuffer, PassOnAt |-> 0,
               input |-> "idle", callback |-> "idle"]
  /\ UNCHANGED <<rings, processes, player, shown, drainer, input, switcher,
                 SwitchStreamInProgress, CodecReset, LastOneOut, calls,
                 passed, streamOf>>

EventAt(due) == LastOneOut' = (LastOneOut \/ due # {})

SwitchedDtoM ==
  \/ /\ DtoMFrame \/ DtoMMarker
     /\ LET due == DueCalls("DtoM", Head(DecodedFrameRing).seq)
        IN EventAt(due) /\ calls' = [calls EXCEPT !["DtoM"] = @ \ due]
     /\ UNCHANGED <<SwitchStreamInProgress, CodecReset, switcher, Stream,
                    passed, performing, streamOf>>
  \/ /\ DtoMMarkerClear \/ DtoMCall
     /\ UNCHANGED switch
  \/ /\ Idle("DtoM") /\ Arrives("DtoM", seen["DtoM"])
     /\ EventAt(IF ArrivedDue("DtoM", seen["DtoM"])
                THEN {Head(DecodedFrameRing)} ELSE {})
     /\ UNCHANGED <<SwitchStreamInProgress, CodecReset, performing>>

\* Mutant: the codec is not marked as initialised again.
CodecResetStays(due) == CodecReset

CodecResetAfter(due) == CodecReset /\ due = {}

SwitchComplete(due) ==
  /\ CodecReset' = CodecResetAfter(due)
  /\ SwitchStreamInProgress' = (SwitchStreamInProgress /\ due = {})

\* A frame goes back through Stream.Codec, unless CodecReset' is set.
SwitchedPostM ==
  \/ /\ PostMTake /\ Head(ManifestedBufferRing).kind # "complete"
     /\ LET due == DueCalls("PostM", Head(ManifestedBufferRing).seq)
        IN SwitchComplete(due) /\ calls' = [calls EXCEPT !["PostM"] = @ \ due]
     /\ UNCHANGED <<LastOneOut, switcher, Stream, passed, performing,
                    streamOf>>
  \/ PostMCall /\ UNCHANGED switch
  \/ /\ Arrives("PostM", seen["PostM"])
     /\ SwitchComplete(IF ArrivedDue("PostM", seen["PostM"])
                       THEN {Head(ManifestedBufferRing)} ELSE {})
     /\ UNCHANGED <<LastOneOut, performing>>

-----------------------------------------------------------------------------
Unswitched == (Callback \/ Show \/ Drain) /\ UNCHANGED switch
DrainOnly ==
  /\ switcher = "idle" /\ DrainBegins
  /\ drainer'.nonBlocking \in OtherDrains
  /\ UNCHANGED switch
Switches == SwitchCollator \/ SwitchCalls

SwitchNext ==
  \/ Writes \/ SwitchedCtoP \/ SwitchFrameParser
  \/ SwitchedPtoD \/ SwitchCodecHalts \/ SwitchCodec
  \/ SwitchedDtoM \/ SwitchedPostM
  \/ Unswitched \/ DrainOnly \/ SwitchBegins \/ Switches

SwitchSpec == SwitchInit /\ [][SwitchNext]_svars

-----------------------------------------------------------------------------
Grows(ring, next) == Len(next) > Len(ring) /\ Last(next).kind = "frame"
StreamOf(b) == streamOf[b.id]

\* Every frame is parsed by the frame parser and decoded by the codec that
\* came with the collator it was collected by: the two are replaced behind
\* the last frame of the old stream and ahead of the first of the new one.
InItsOwnHands ==
  [][/\ Grows(ParsedFrameRing, ParsedFrameRing')
          => StreamOf(Last(ParsedFrameRing')) = Stream.FrameParser
     /\ Grows(codec.decoding, codec'.decoding)
          => StreamOf(Last(codec'.decoding)) = Stream.Codec]_svars

\* Only SwitchStream has drained the stream.
SwitchesOnly ==
  drain = Stream.Collator + (IF switcher = "drain" THEN 1 ELSE 0)

\* ProcessPostManifest returns a frame through the stream's codec as long as
\* the codec that decoded it is in use and has not been halted, and only then
\* (another would look its index up in its own table): at SwitchComplete "we
\* can safely mark the state of the codec as being initialized for this and
\* subsequent frames".  "Only then" is for the markers of switches: that of
\* another drain, put behind the switch's, passes a frame that is on display
\* and completes the switch ahead of it.
ReleasedByItsCodec ==
  [][LET b == Head(ManifestedBufferRing)
     IN ManifestedBufferRing # <<>> /\ b.kind = "frame"
          /\ ManifestedBufferRing' = Tail(ManifestedBufferRing)
        => /\ StreamOf(b) = Stream.Codec /\ "halted" \notin performing
                => ~CodecReset'
           /\ SwitchesOnly /\ ~CodecReset' => StreamOf(b) = Stream.Codec]_svars

\* When the frame parser is reset and replaced, no frame parsed by it is on
\* its way to the decoder or in it: "no-one will need to use any of the
\* stream, or frame, parameters of the current frame parser".
NoOneNeedsTheParser ==
  [][Stream'.FrameParser # Stream.FrameParser
       => \A b \in ToSet(InFlight) :
            b.kind = "frame" => StreamOf(b) # Stream.FrameParser]_svars

\* When SwitchStream has returned, the objects that came before the ones it
\* replaces are out of use, as HavanaStream_c::Switch takes it when it then
\* deletes them.
PreviousOutOfUse ==
  switcher = "idle" /\ Stream.Collator > 0 =>
    /\ Stream.FrameParser >= Stream.Collator - 1
    /\ Stream.Codec >= Stream.Collator - 1

\* The markers that come out of the codec without a process that is blocked
\* in a call of the switch.
Emerging == {b \in ToSet(InPtoD \o InCodec \o DecodedFrameRing)
                  \union (IF "PtoD" \in performing THEN {}
                          ELSE ToSet(ParsedFrameRing)) : b.kind = "marker"}

\* The call's own marker is gone, a discarding drain having begun behind it.
Lost(m) ==
  /\ \A b \in MarkersFor("DtoM") : b.seq # m.seq
  /\ \E d \in 1 .. drain : drains[d].discard /\ drains[d].seq \notin 1 .. m.seq

\* A call that is kept waits for a marker on its way, or that a drain is about
\* to launch, and the processes that wait, inside SwitchFrameParser and
\* SwitchCodec, for the last decode to come out wait for a marker that no one
\* of them holds up: the switch takes effect without the help of a time out,
\* unless a drain that began behind it, and discards, has caught its marker
\* in ProcessParseToDecode.
NoCallStranded ==
  /\ \A s \in Stages \ {"PostM"} : \A m \in calls[s] :
       \/ \E b \in MarkersFor(s)
                    \union (IF s = "PtoD" THEN {busy["PtoD"]} ELSE {}) :
            b.seq >= m.seq
       \/ LaunchesNext
  /\ performing \ {"halted"} # {} /\ ~LastOneOut =>
       \/ switcher \in {"PtoD", "DtoM"}
       \/ \E m \in ToSet(DecodedFrameRing) : m.kind = "timer"
       \/ /\ calls["DtoM"] # {}
          /\ \A m \in calls["DtoM"] :
               (\E b \in Emerging : b.seq >= m.seq) \/ Lost(m)
=============================================================================
