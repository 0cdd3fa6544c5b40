---------------------------- MODULE StreamDrain -----------------------------
(* The drain of a stream (driver/player2/player/player/player_playback.cpp) *)
(* through its four processes, player_process_*.cpp: a marker frame goes   *)
(* down the chain of rings behind the frames to be drained, and messages   *)
(* inserted further down the chain are held there until a buffer with the  *)
(* marker's sequence number comes by.  Each ring is the queue that Ring    *)
(* implements.  The codec (codec/codec_mme_base.cpp) decodes in its turn   *)
(* what it is given, and the manifestor shows in its turn what it is given:*)
(* the decoding and the display themselves are external.                   *)
EXTENDS Naturals, Sequences, FiniteSets, SequencesExt

CONSTANTS MaxFrames,        \* bound on the frames injected
          MaxDrains,        \* bound on the drains
          MaxRingSize,      \* PLAYER_MAX_RING_SIZE
          NonBlockingCalls, \* the values NonBlocking is called with
          ParseAllCalls,    \* the values ParseAllFrames is called with
          TimesOut,         \* whether a wait for the drain may time out
          Preempted         \* whether a thread may be preempted inside
                            \* TestMarkerFramePassOn

ASSUME BoundsAssumption == MaxFrames \in Nat /\ MaxDrains \in Nat
\* A ring is never full, of frames and of the buffers of input jumps.
ASSUME RingAssumption ==
  MaxRingSize \in Nat /\ MaxRingSize >= MaxFrames + MaxDrains
ASSUME CallsAssumption ==
  /\ NonBlockingCalls \subseteq BOOLEAN /\ ParseAllCalls \subseteq BOOLEAN
  /\ TimesOut \in BOOLEAN /\ Preempted \in BOOLEAN
\* There is one marker at a time in CollatedFrameRing.  Of three drains that
\* overlap, the last two can have theirs there: MarkerInCodedFrameIndex names
\* the last one, and the other is taken for a frame of no length from there
\* on, which is beyond this model.  What excludes it is assumed by whoever
\* says which drains are made (MCStreamDrain, StreamSwitch).

VARIABLES CollatedFrameRing, ParsedFrameRing, DecodedFrameRing,
          ManifestedBufferRing,
          busy,        \* the marker PtoD and DtoM are busy with
          seen,        \* MaximumActualSequenceNumberSeen, of DtoM and PostM
          messages,    \* the tables AccumulatedBeforeDtoM, AfterPostM
          NextBufferSequenceNumber, MarkerInCodedFrameIndex,
          Discarding,  \* DiscardingUntilMarkerFrameCtoP, PtoD, DtoM, PostM
          Drained,     \* the event
          codec,       \* what the codec object and its transformer hold
          shown,       \* what the manifestor holds
          drainer,     \* the thread that calls InternalDrainStream
          frames,      \* how many frames were injected
          drains,      \* for each drain, what was asked and when
          discarded,   \* the frames given up because of a flag
          resets       \* the drains whose ResetTimeMapping was performed

input == <<frames, drains, discarded, resets>>
player == <<NextBufferSequenceNumber, MarkerInCodedFrameIndex, Discarding,
            Drained>>
processes == <<busy, seen, messages>>
rings == <<CollatedFrameRing, ParsedFrameRing, DecodedFrameRing,
           ManifestedBufferRing>>
vars == <<rings, processes, player, codec, shown, drainer, input>>

-----------------------------------------------------------------------------
Stages == {"CtoP", "PtoD", "DtoM", "PostM"}
Kinds == {"none", "frame", "jump", "marker", "reset", "drained"}
INVALID == 0                  \* as an index of a marker; drains start at 1
Never == MaxFrames + 1        \* "after any frame"

\* A buffer in a ring: a coded frame or what was decoded of it, the empty
\* buffer of an input jump, a marker, or a control structure.  Its id is the
\* number of the frame, or of the drain that made it.
Buffer(kind, id, value) == [kind |-> kind, id |-> id, seq |-> value]
NoBuffer == Buffer("none", 0, 0)
IsCall(b) == b.kind \in {"reset", "drained"}

Init ==
  /\ CollatedFrameRing = <<>> /\ ParsedFrameRing = <<>>
  /\ DecodedFrameRing = <<>> /\ ManifestedBufferRing = <<>>
  /\ busy = [s \in {"PtoD", "DtoM"} |-> NoBuffer]
  /\ seen = [s \in {"DtoM", "PostM"} |-> 0]
  /\ messages = [s \in {"DtoM", "PostM"} |-> {}]
  /\ NextBufferSequenceNumber = 1
  /\ MarkerInCodedFrameIndex = INVALID
  /\ Discarding = [s \in Stages |-> FALSE]
  /\ Drained = FALSE
  /\ codec = [decoding |-> <<>>, Prepared |-> 0, Completed |-> 0,
              DiscardUntil |-> 0, Marker |-> NoBuffer, PassOnAt |-> 0,
              input |-> "idle", callback |-> "idle"]
  /\ shown = <<>>
  /\ drainer = [at |-> "idle", nonBlocking |-> FALSE]
  /\ frames = 0 /\ drains = <<>> /\ discarded = {} /\ resets = {}

Holds(stage, b) == busy' = [busy EXCEPT ![stage] = b]
LetsGo(stage) == Holds(stage, NoBuffer)
Idle(stage) == busy[stage] = NoBuffer
Spare(b, given) == discarded' = IF given THEN discarded \union {b.id}
                                ELSE discarded

-----------------------------------------------------------------------------
(* The collator                                                            *)

Inject ==
  /\ frames < MaxFrames
  /\ frames' = frames + 1
  /\ CollatedFrameRing' = Append(CollatedFrameRing,
                                 Buffer("frame", frames + 1, 0))
  /\ UNCHANGED <<ParsedFrameRing, DecodedFrameRing, ManifestedBufferRing,
                 processes, player, codec, shown, drainer, drains, discarded,
                 resets>>

(* ProcessCollateToParse.  In this and the next two processes one turn of  *)
(* the loop for a frame is one action: what it reads before the flag, it   *)
(* alone changes.                                                          *)

\* Mutant: the marker clears the flag of the next process too.
ClearedAtCtoPEarly == [Discarding EXCEPT !["CtoP"] = FALSE, !["PtoD"] = FALSE]
\* Mutant: the marker does not clear the flag.
ClearedAtCtoPNot == Discarding

ClearedAtCtoP == [Discarding EXCEPT !["CtoP"] = FALSE]

CtoPMarker ==
  /\ CollatedFrameRing # <<>>
  /\ LET b == Head(CollatedFrameRing)
     IN /\ b.kind = "marker" /\ b.id = MarkerInCodedFrameIndex
        /\ NextBufferSequenceNumber' = b.seq + 1
        /\ ParsedFrameRing' = Append(ParsedFrameRing, b)
  /\ CollatedFrameRing' = Tail(CollatedFrameRing)
  /\ Discarding' = ClearedAtCtoP
  /\ MarkerInCodedFrameIndex' = INVALID
  /\ UNCHANGED <<DecodedFrameRing, ManifestedBufferRing, processes, Drained,
                 codec, shown, drainer, input>>

\* A buffer of no length is not discarded, but the frame parser passes
\* nothing of an input jump on.
CtoPFrame ==
  /\ CollatedFrameRing # <<>>
  /\ LET b == [Head(CollatedFrameRing) EXCEPT !.seq = NextBufferSequenceNumber]
         drop == b.kind = "frame" /\ Discarding["CtoP"]
     IN /\ b.kind # "marker"
        /\ Spare(b, drop)
        /\ ParsedFrameRing' = IF drop \/ b.kind = "jump"
                              THEN ParsedFrameRing
                              ELSE Append(ParsedFrameRing, b)
  /\ CollatedFrameRing' = Tail(CollatedFrameRing)
  /\ NextBufferSequenceNumber' = NextBufferSequenceNumber + 1
  /\ UNCHANGED <<DecodedFrameRing, ManifestedBufferRing, processes,
                 MarkerInCodedFrameIndex, Discarding, Drained, codec, shown,
                 drainer, frames, drains, resets>>

(* ProcessParseToDecode                                                    *)

\* A frame is dropped because the flag, or the output timer, says so.
PtoDFrame ==
  /\ Idle("PtoD") /\ ParsedFrameRing # <<>>
  /\ Head(ParsedFrameRing).kind = "frame"
  /\ ParsedFrameRing' = Tail(ParsedFrameRing)
  /\ LET b == Head(ParsedFrameRing)
     IN \/ Spare(b, Discarding["PtoD"]) /\ UNCHANGED codec
        \/ /\ ~Discarding["PtoD"]
           /\ codec' = [codec EXCEPT !.decoding = Append(@, b),
                                     !.Prepared = @ + 1]
           /\ UNCHANGED discarded
  /\ UNCHANGED <<CollatedFrameRing, DecodedFrameRing, ManifestedBufferRing,
                 processes, player, shown, drainer, frames, drains, resets>>

\* A marker clears the flag, and is then tested against it like a frame: a
\* discarding drain may have set it again in between.
PtoDMarker ==
  /\ Idle("PtoD") /\ ParsedFrameRing # <<>>
  /\ Head(ParsedFrameRing).kind = "marker"
  /\ ParsedFrameRing' = Tail(ParsedFrameRing)
  /\ Holds("PtoD", Head(ParsedFrameRing))
  /\ Discarding' = [Discarding EXCEPT !["PtoD"] = FALSE]
  /\ codec' = [codec EXCEPT !.input = "flag"]
  /\ UNCHANGED <<CollatedFrameRing, DecodedFrameRing, ManifestedBufferRing,
                 seen, messages, NextBufferSequenceNumber,
                 MarkerInCodedFrameIndex, Drained, shown, drainer, input>>

\* The marker goes into Codec->Input, which lets go of one it still has, or
\* is lost.
PtoDMarkerTest ==
  /\ codec.input = "flag"
  /\ \/ /\ ~Discarding["PtoD"]
        /\ codec' = [codec EXCEPT !.Marker = NoBuffer, !.input = "at"]
        /\ UNCHANGED busy
     \/ /\ Discarding["PtoD"]
        /\ codec' = [codec EXCEPT !.input = "idle"]
        /\ LetsGo("PtoD")
  /\ UNCHANGED <<rings, seen, messages, player, shown, drainer, input>>

MarkerInput ==
  /\ \/ /\ codec.input = "at"
        /\ codec' = [codec EXCEPT !.PassOnAt = codec.Prepared,
                                  !.input = "hold"]
     \/ /\ codec.input = "hold"
        /\ codec' = [codec EXCEPT !.Marker = busy["PtoD"], !.input = "test"]
  /\ UNCHANGED <<rings, processes, player, shown, drainer, input>>

\* Mutant: the marker is passed on ahead of the decode that is in progress.
CanPassOnEarly ==
  codec.Marker # NoBuffer /\ codec.Completed + 1 >= codec.PassOnAt
\* Mutant: the marker waits for one completion more.
CanPassOnLate == codec.Marker # NoBuffer /\ codec.Completed > codec.PassOnAt

CanPassOn == codec.Marker # NoBuffer /\ codec.Completed >= codec.PassOnAt

\* TestMarkerFramePassOn, which both Codec->Input and the callback call: the
\* test, and then TakeMarkerBuffer of whatever marker there is.
Returns(who) == IF who = "input" THEN LetsGo("PtoD") ELSE UNCHANGED busy

Take(who) ==
  /\ codec' = [codec EXCEPT ![who] = "idle", !.Marker = NoBuffer]
  /\ DecodedFrameRing' = IF codec.Marker = NoBuffer THEN DecodedFrameRing
                         ELSE Append(DecodedFrameRing, codec.Marker)
  /\ Returns(who)

TestMarkerFramePassOn(who) ==
  /\ \/ codec[who] = "test" /\ CanPassOn /\ Take(who)
     \/ codec[who] = "take" /\ Take(who)
     \/ /\ codec[who] = "test" /\ CanPassOn /\ Preempted
        /\ codec' = [codec EXCEPT ![who] = "take"]
        /\ UNCHANGED <<DecodedFrameRing, busy>>
     \/ /\ codec[who] = "test" /\ ~CanPassOn
        /\ codec' = [codec EXCEPT ![who] = "idle"]
        /\ Returns(who)
        /\ UNCHANGED DecodedFrameRing
  /\ UNCHANGED <<CollatedFrameRing, ParsedFrameRing, ManifestedBufferRing,
                 seen, messages, player, shown, drainer, input>>

(* CallbackFromMME, for the decode the transformer has completed           *)

IsDiscarded == codec.Completed < codec.DiscardUntil

DecodeCompletes ==
  /\ codec.callback = "idle" /\ codec.decoding # <<>>
  /\ codec' = [codec EXCEPT !.decoding = Tail(@), !.callback = "count"]
  /\ LET b == Head(codec.decoding)
     IN /\ Spare(b, IsDiscarded)
        /\ DecodedFrameRing' = IF IsDiscarded THEN DecodedFrameRing
                               ELSE Append(DecodedFrameRing, b)
  /\ UNCHANGED <<CollatedFrameRing, ParsedFrameRing, ManifestedBufferRing,
                 processes, player, shown, drainer, frames, drains, resets>>

Counted == codec.Completed + 1

CallbackCounts ==
  /\ codec.callback = "count"
  /\ codec' = [codec EXCEPT !.Completed = Counted, !.callback = "test"]
  /\ UNCHANGED <<rings, processes, player, shown, drainer, input>>

-----------------------------------------------------------------------------
(* Messages, player_in_sequence.cpp                                        *)

\* Mutant: a message is performed behind the buffer with its own number.
DueLater(stage, value) == {m \in messages[stage] : m.seq < value}
\* Mutant: the table of DtoM is not looked at.
DueInPostMOnly(stage, value) ==
  {m \in messages["PostM"] : stage = "PostM" /\ m.seq <= value}

\* The messages of a table to be performed at a buffer with this number.
Due(stage, value) == {m \in messages[stage] : m.seq <= value}

PerformedOnArrival(stage, m) == m.seq <= seen[stage]

\* A buffer with this number: performs what is due, and keeps the rest.
Sees(stage, value) ==
  /\ seen' = [seen EXCEPT ![stage] = IF value > @ THEN value ELSE @]
  /\ messages' = [messages EXCEPT ![stage] = @ \ Due(stage, value)]

ResetTimeMapping(calls) == resets' = resets \union {m.id : m \in calls}

(* ProcessDecodeToManifest, for frames whose display is in decode order    *)

\* A frame is dropped because the flag, or the output timer, says so.
DtoMFrame ==
  /\ Idle("DtoM") /\ DecodedFrameRing # <<>>
  /\ Head(DecodedFrameRing).kind = "frame"
  /\ DecodedFrameRing' = Tail(DecodedFrameRing)
  /\ LET b == Head(DecodedFrameRing)
     IN /\ Sees("DtoM", b.seq)
        /\ ResetTimeMapping(Due("DtoM", b.seq))
        /\ \/ Spare(b, Discarding["DtoM"]) /\ UNCHANGED shown
           \/ /\ ~Discarding["DtoM"]
              /\ shown' = Append(shown, b)
              /\ UNCHANGED discarded
  /\ UNCHANGED <<CollatedFrameRing, ParsedFrameRing, ManifestedBufferRing,
                 busy, player, codec, drainer, frames, drains>>

\* The marker is passed on past the manifestor, and then the flag cleared.
DtoMMarker ==
  /\ Idle("DtoM") /\ DecodedFrameRing # <<>>
  /\ Head(DecodedFrameRing).kind = "marker"
  /\ DecodedFrameRing' = Tail(DecodedFrameRing)
  /\ LET b == Head(DecodedFrameRing)
     IN /\ Sees("DtoM", b.seq)
        /\ ResetTimeMapping(Due("DtoM", b.seq))
        /\ ManifestedBufferRing' = Append(ManifestedBufferRing, b)
        /\ Holds("DtoM", b)
  /\ UNCHANGED <<CollatedFrameRing, ParsedFrameRing, player, codec, shown,
                 drainer, frames, drains, discarded>>

DtoMMarkerClear ==
  /\ ~Idle("DtoM")
  /\ Discarding' = [Discarding EXCEPT !["DtoM"] = FALSE]
  /\ LetsGo("DtoM")
  /\ UNCHANGED <<rings, seen, messages, NextBufferSequenceNumber,
                 MarkerInCodedFrameIndex, Drained, codec, shown, drainer,
                 input>>

DtoMCall ==
  /\ Idle("DtoM") /\ DecodedFrameRing # <<>>
  /\ IsCall(Head(DecodedFrameRing))
  /\ DecodedFrameRing' = Tail(DecodedFrameRing)
  /\ LET m == Head(DecodedFrameRing)
     IN IF PerformedOnArrival("DtoM", m)
        THEN /\ ResetTimeMapping({m}) /\ UNCHANGED messages
        ELSE /\ messages' = [messages EXCEPT !["DtoM"] = @ \union {m}]
             /\ UNCHANGED resets
  /\ UNCHANGED <<CollatedFrameRing, ParsedFrameRing, ManifestedBufferRing,
                 busy, seen, player, codec, shown, drainer, frames, drains,
                 discarded>>

(* The manifestor shows a buffer, and gives it up for the next             *)

Show ==
  /\ shown # <<>>
  /\ shown' = Tail(shown)
  /\ ManifestedBufferRing' = Append(ManifestedBufferRing, Head(shown))
  /\ UNCHANGED <<CollatedFrameRing, ParsedFrameRing, DecodedFrameRing,
                 processes, player, codec, drainer, input>>

(* ProcessPostManifest; the only messages it gets from a drain set Drained *)

PostMTake ==
  /\ ManifestedBufferRing # <<>> /\ ~IsCall(Head(ManifestedBufferRing))
  /\ ManifestedBufferRing' = Tail(ManifestedBufferRing)
  /\ LET b == Head(ManifestedBufferRing)
     IN /\ Sees("PostM", b.seq)
        /\ Drained' = (Drained \/ Due("PostM", b.seq) # {})
        /\ Discarding' = IF b.kind = "marker"
                         THEN [Discarding EXCEPT !["PostM"] = FALSE]
                         ELSE Discarding
  /\ UNCHANGED <<CollatedFrameRing, ParsedFrameRing, DecodedFrameRing, busy,
                 NextBufferSequenceNumber, MarkerInCodedFrameIndex, codec,
                 shown, drainer, input>>

PostMCall ==
  /\ ManifestedBufferRing # <<>> /\ IsCall(Head(ManifestedBufferRing))
  /\ ManifestedBufferRing' = Tail(ManifestedBufferRing)
  /\ LET m == Head(ManifestedBufferRing)
     IN IF PerformedOnArrival("PostM", m)
        THEN Drained' = TRUE /\ UNCHANGED messages
        ELSE /\ messages' = [messages EXCEPT !["PostM"] = @ \union {m}]
             /\ UNCHANGED Drained
  /\ UNCHANGED <<CollatedFrameRing, ParsedFrameRing, DecodedFrameRing, busy,
                 seen, NextBufferSequenceNumber, MarkerInCodedFrameIndex,
                 Discarding, codec, shown, drainer, input>>

-----------------------------------------------------------------------------
(* InternalDrainStream                                                     *)

Goes(place) == drainer' = [drainer EXCEPT !.at = place]
drain == Len(drains)          \* the last one begun
DrainSequenceNumber == drains[drain].seq

\* The flags, and what lets a process out of its waits.
DrainBegins ==
  /\ drainer.at = "idle" /\ drain < MaxDrains
  /\ \E discard \in BOOLEAN, parseAll \in ParseAllCalls,
        nonBlocking \in NonBlockingCalls :
       /\ drains' = Append(drains, [discard |-> discard,
                                    parseAll |-> parseAll, seq |-> 0,
                                    behind |-> Never, back |-> Never])
       /\ Discarding' = IF discard
                        THEN [s \in Stages |-> s # "CtoP" \/ ~parseAll]
                        ELSE Discarding
       /\ drainer' = [at |-> IF discard THEN "flush" ELSE "check",
                      nonBlocking |-> nonBlocking]
  /\ UNCHANGED <<rings, processes, NextBufferSequenceNumber,
                 MarkerInCodedFrameIndex, Drained, codec, shown, frames,
                 discarded, resets>>

\* InputJump, DiscardQueuedDecodes and ReleaseQueuedDecodeBuffers.
DrainFlushes ==
  /\ drainer.at = "flush"
  /\ CollatedFrameRing' = Append(CollatedFrameRing, Buffer("jump", drain, 0))
  /\ codec' = [codec EXCEPT !.DiscardUntil = codec.Prepared]
  /\ ManifestedBufferRing' = ManifestedBufferRing \o shown
  /\ shown' = <<>>
  /\ Goes("check")
  /\ UNCHANGED <<ParsedFrameRing, DecodedFrameRing, processes, player, input>>

\* "Just in case there is another marker frame doing the rounds"
DrainChecks ==
  /\ drainer.at = "check"
  /\ Goes(IF MarkerInCodedFrameIndex = INVALID THEN "number" ELSE "await")
  /\ UNCHANGED <<rings, processes, player, codec, shown, input>>

\* Mutant: the marker has the number the next frame will have.
MarkerNumberNext == NextBufferSequenceNumber

MarkerNumber == NextBufferSequenceNumber + MaxRingSize

DrainNumbers ==
  /\ drainer.at = "number"
  /\ drains' = [drains EXCEPT ![drain].seq = MarkerNumber]
  /\ Goes("launch")
  /\ UNCHANGED <<rings, processes, player, codec, shown, frames, discarded,
                 resets>>

DrainLaunches ==
  /\ drainer.at = "launch"
  /\ Drained' = FALSE
  /\ MarkerInCodedFrameIndex' = drain
  /\ CollatedFrameRing' = Append(CollatedFrameRing,
                            Buffer("marker", drain, DrainSequenceNumber))
  /\ drains' = [drains EXCEPT ![drain].behind = frames]
  /\ Goes("reset")
  /\ UNCHANGED <<ParsedFrameRing, DecodedFrameRing, ManifestedBufferRing,
                 processes, NextBufferSequenceNumber, Discarding, codec,
                 shown, frames, discarded, resets>>

\* CallInSequence, for the time mapping and then for the event.
DrainCalls ==
  /\ \/ /\ drainer.at = "reset"
        /\ DecodedFrameRing' = Append(DecodedFrameRing,
                                 Buffer("reset", drain, DrainSequenceNumber))
        /\ Goes("event")
        /\ UNCHANGED ManifestedBufferRing
     \/ /\ drainer.at = "event"
        /\ ManifestedBufferRing' = Append(ManifestedBufferRing,
                                 Buffer("drained", drain, DrainSequenceNumber))
        /\ Goes(IF drainer.nonBlocking THEN "idle" ELSE "wait")
        /\ UNCHANGED DecodedFrameRing
  /\ UNCHANGED <<CollatedFrameRing, ParsedFrameRing, processes, player,
                 codec, shown, input>>

\* WaitForDrainCompletion, once before the marker and once behind it.
DrainWaits ==
  /\ \/ /\ drainer.at = "await" /\ Drained
        /\ Goes("number")
        /\ UNCHANGED drains
     \/ /\ drainer.at = "wait" /\ Drained
        /\ Goes("idle")
        /\ drains' = [drains EXCEPT ![drain].back = frames]
     \/ /\ TimesOut /\ drainer.at \in {"await", "wait"}
        /\ Goes("idle")
        /\ UNCHANGED drains
  /\ UNCHANGED <<rings, processes, player, codec, shown, frames, discarded,
                 resets>>

-----------------------------------------------------------------------------
CtoP == CtoPMarker \/ CtoPFrame
PtoD == \/ PtoDFrame \/ PtoDMarker \/ PtoDMarkerTest
        \/ MarkerInput \/ TestMarkerFramePassOn("input")
Callback == \/ DecodeCompletes \/ CallbackCounts
            \/ TestMarkerFramePassOn("callback")
DtoM == DtoMFrame \/ DtoMMarker \/ DtoMMarkerClear \/ DtoMCall
PostM == PostMTake \/ PostMCall
Drain == \/ DrainFlushes \/ DrainChecks \/ DrainNumbers \/ DrainLaunches
         \/ DrainCalls \/ DrainWaits

Next == \/ Inject \/ CtoP \/ PtoD \/ Callback \/ DtoM \/ Show \/ PostM
        \/ DrainBegins \/ Drain

\* The processes, the transformer and the display go on; nobody has to
\* inject a frame or begin a drain.
Fairness == /\ WF_vars(CtoP) /\ WF_vars(PtoD) /\ WF_vars(Callback)
            /\ WF_vars(DtoM) /\ WF_vars(Show) /\ WF_vars(PostM)
            /\ WF_vars(Drain)

Spec == Init /\ [][Next]_vars /\ Fairness

-----------------------------------------------------------------------------
\* The marker the codec holds comes behind the decodes commanded before it.
InCodec ==
  LET ahead == Len(codec.decoding) + codec.PassOnAt - codec.Prepared
  IN IF codec.Marker = NoBuffer THEN codec.decoding
     ELSE InsertAt(codec.decoding, IF ahead > 0 THEN ahead + 1 ELSE 1,
                   codec.Marker)
\* The codec has the marker before PtoD lets go of it.
InPtoD == IF codec.input \in {"flag", "at", "hold"} THEN << busy["PtoD"] >>
          ELSE <<>>

IsNumbered(b) == b.kind \in {"frame", "marker"}

\* What is on its way to the manifestor behind the collator's numbering, the
\* foremost first.
InFlight == DecodedFrameRing \o InCodec \o InPtoD \o ParsedFrameRing

\* From the collator's numbering to the manifestor, numbers rise: no frame
\* and no marker overtakes another, through the asynchronous codec and the
\* marker it holds back, and a marker's number, taken ahead of the frames
\* queued before it, is above theirs.
OrderKept ==
  \A i, j \in 1 .. Len(InFlight) :
    i < j /\ IsNumbered(InFlight[i]) /\ IsNumbered(InFlight[j])
      => InFlight[i].seq < InFlight[j].seq

Upcoming == ToSet(InFlight) \union ToSet(CollatedFrameRing)

\* A blocking drain (InternalDrainStream with NonBlocking false) that
\* returned without a time out has left none of the frames injected before
\* its marker in the chain ahead of the manifestor, and its marker neither.
DrainedMeansDrained ==
  \A d \in 1 .. drain : drains[d].back # Never =>
    \A b \in Upcoming :
      /\ b.kind = "frame" => b.id > drains[d].behind
      /\ b.kind = "marker" => b.id # d

\* A frame is given up because of a flag, or of the codec's discard, only
\* if some drain asked for that before its marker: frames after the last
\* marker are safe, though the flags are cleared one by one as it passes.
DiscardedForADrain ==
  \A f \in discarded :
    \E d \in 1 .. drain : drains[d].discard /\ f <= drains[d].behind

\* The markers still to be dealt with by the process.
MarkersFor(stage) ==
  {b \in ToSet(CollatedFrameRing)
         \union (IF stage = "CtoP" THEN {} ELSE ToSet(ParsedFrameRing))
         \union (IF stage \in {"CtoP", "PtoD"} THEN {}
                 ELSE ToSet(InPtoD \o InCodec \o DecodedFrameRing))
         \union (IF stage = "PostM" THEN ToSet(ManifestedBufferRing) ELSE {}) :
     b.kind = "marker"}

NotYetAt(stage, d) ==
  drains[d].behind = Never \/ \E b \in MarkersFor(stage) : b.id = d

\* Until the marker of a discarding drain reaches a process, the flag of
\* that process stays set: no frame slips past it into the decoder.
FlagHolds(stage) ==
  drain > 0 /\ drains[drain].discard /\ NotYetAt(stage, drain)
    => Discarding[stage]
DiscardsUntilMarker ==
  /\ (drain > 0 /\ ~drains[drain].parseAll) => FlagHolds("CtoP")
  /\ FlagHolds("PtoD")

\* Once a drain has returned, the time mapping is reset before any frame
\* injected afterwards gets its output timing: the message waits for the
\* marker and the frame comes behind both.
ResetBeforeNewFrames ==
  \A d \in 1 .. drain :
    \A b \in ToSet(shown) :
      b.kind = "frame" /\ b.id > drains[d].back => d \in resets

LaunchesNext == drainer.at \in {"flush", "check", "number", "launch"}

\* A message kept in a table waits for a marker that is on its way, or that
\* a drain is about to launch, with several drains at once and though a
\* marker is lost when the next drain catches it in ProcessParseToDecode and
\* let go when the next one comes into the codec: a blocking drain is never
\* left waiting for an event that nothing will set.
NoMessageStranded ==
  \A s \in {"DtoM", "PostM"} : \A m \in messages[s] :
    \/ \E b \in MarkersFor(s) : b.seq >= m.seq
    \/ LaunchesNext

\* A flag that is set has a marker on its way to clear it, or a drain about
\* to launch one.
NoFlagStranded ==
  \A s \in Stages : Discarding[s] =>
    \/ MarkersFor(s) # {} \/ (s = "DtoM" /\ ~Idle("DtoM"))
    \/ LaunchesNext

\* A drain that has begun ends, with nothing to help it but the threads
\* going on.
DrainEnds == drainer.at # "idle" ~> drainer.at = "idle"

-----------------------------------------------------------------------------
(* The chain of processes serves the drains as DrainService says.          *)

FramesOf(S) == {b.id : b \in {x \in S : x.kind = "frame"}}
UpstreamFrames ==
  FramesOf(ToSet(CollatedFrameRing) \union ToSet(ParsedFrameRing)
             \union ToSet(codec.decoding) \union ToSet(DecodedFrameRing))
Phase == IF drainer.at = "idle" THEN "idle"
         ELSE IF drains[drain].behind = Never THEN "begun" ELSE "marked"
FramesDue == IF Phase = "marked"
             THEN {f \in UpstreamFrames : f <= drains[drain].behind} ELSE {}

Service == INSTANCE DrainService
             WITH collated <- frames, upstream <- UpstreamFrames,
                  onScreen <- FramesOf(ToSet(shown)), phase <- Phase,
                  discarding <- drain > 0 /\ drains[drain].discard,
                  due <- FramesDue, givenUp <- discarded

\* For whoever calls InternalDrainStream and waits, the four processes, their
\* rings, flags, numbers and messages are one store that displays the frames
\* in order, gives up for a drain only what was ahead of its marker, and lets
\* the caller go when all of that has left.
ServesDrains == Service!Spec
=============================================================================
