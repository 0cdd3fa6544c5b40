---------------------------- MODULE FrameReorder ----------------------------
(* The re-ordering of decoded frames for display, in                       *)
(* player_process_decode_to_manifest.cpp (DtoM), with the two other        *)
(* processes it depends on: the video frame parser, which gives a frame    *)
(* its display index, a reference frame only when the next one comes       *)
(* (frame_parser/frame_parser_video.cpp), and ParseToDecode (PtoD), which  *)
(* decodes a frame or drops it and records the index that will not come.   *)
(* Frames are parsed in decode order; DtoM holds in a table those whose    *)
(* turn has not come.  The decoding and the display are external.          *)
(*                                                                         *)
(* The three threads share the frames' parameters, the list of non decoded *)
(* frames and the flags without a lock.  DtoM reads each table in one step *)
(* here: only the index of the one deferred frame can change while it      *)
(* reads, so a reading is as if made when it looks at that frame.          *)
EXTENDS Naturals, Sequences, FiniteSets, SequencesExt

CONSTANTS MaxFrames, MaxJumps, MaxDrains, \* bounds on the input
          PossibleDecodeBuffers, \* of the manifestor (GetDecodeBufferCount)
          MinimumWorking,        \* PLAYER_MINIMUM_NUMBER_OF_WORKING_...
          LimitOutOfOrder,       \* PLAYER_LIMIT_ON_OUT_OF_ORDER_DECODES
          MaxDiscardedFrames,    \* PLAYER_MAX_DISCARDED_FRAMES
          Drains,                \* the kinds of drain that are made
          Droppable              \* what the output timer drops undecoded

ASSUME BoundsAssumption ==
  {MaxFrames, MaxJumps, MaxDrains, MaxDiscardedFrames} \subseteq Nat
ASSUME BuffersAssumption ==
  /\ {PossibleDecodeBuffers, MinimumWorking, LimitOutOfOrder} \subseteq Nat
  /\ PossibleDecodeBuffers >= MinimumWorking
ASSUME DrainsAssumption ==
  /\ Drains \subseteq {"playout", "discard"}
  /\ Droppable \subseteq {"reference", "other"}

VARIABLES
  frames,   \* all frames and markers, in decode order: their parameters
  NextDisplayFrameIndex, CollapseHoles, Deferred, \* of the frame parser
  references, \* EntryCount of its ReferenceFrameList
  ParsedFrameRing, DecodedFrameRing,
  input,    \* the frame PtoD is in Codec->Input with
  ReferenceFrameList, \* the reference frames the codec is to keep
  NonDecodedBuffers, DisplayIndicesCollapse,
  DiscardingPtoD, DiscardingDtoM, \* DiscardingUntilMarkerFrame...
  Table,    \* AccumulatedBufferTable
  pc, current, MarkerFrame, DesiredFrameIndex, \* locals of DtoM
  MinimumAccumulated, MaximumSeen,
  passed,   \* what DtoM has passed on, with the sequence number it gave
  displayed,\* how many of the manifested frames have been displayed
  drain, jumps, drains \* the drain in progress; how many were made

parser  == <<frames, NextDisplayFrameIndex, CollapseHoles, Deferred,
             references>>
nonDecoded == <<NonDecodedBuffers, DisplayIndicesCollapse>>
flags   == <<DiscardingPtoD, DiscardingDtoM>>
ptod    == <<input, ReferenceFrameList>>
reorder == <<Table, MarkerFrame, MinimumAccumulated>>
output  == <<DesiredFrameIndex, MaximumSeen, passed>>
control == <<drain, jumps, drains>>
vars == <<parser, ParsedFrameRing, DecodedFrameRing, ptod, nonDecoded, flags,
          reorder, pc, current, output, displayed, control>>

-----------------------------------------------------------------------------
INVALID_INDEX == MaxFrames + 1
None          == 0                  \* no frame; frames are numbered from 1
ReleaseAll    == 0                  \* in ParsedFrameRing: CODEC_RELEASE_ALL
Poke          == 0                  \* in DecodedFrameRing: NULL
ReferencesNeeded == 2               \* of MPEG2: REFERENCE_FRAMES_NEEDED
Infinity      == MaxFrames + MaxDrains + 1

Lower(a, b)  == IF a < b THEN a ELSE b
Higher(a, b) == IF a > b THEN a ELSE b
Smallest(S)  == CHOOSE x \in S : \A y \in S : x <= y

\* A frame's number here is its sequence number, and names its buffer.
IsMarker(f) == frames[f].kind \in {"playout", "discard"}
Index(f)    == frames[f].DisplayFrameIndex
HasIndex(f) == Index(f) # INVALID_INDEX

Init ==
  /\ frames = << >>
  /\ NextDisplayFrameIndex = 0 /\ CollapseHoles = TRUE /\ Deferred = None
  /\ references = 0
  /\ ParsedFrameRing = << >> /\ DecodedFrameRing = << >>
  /\ input = None /\ ReferenceFrameList = << >>
  /\ NonDecodedBuffers = {} /\ DisplayIndicesCollapse = 0
  /\ DiscardingPtoD = FALSE /\ DiscardingDtoM = FALSE
  /\ Table = {} /\ pc = "scan" /\ current = None /\ MarkerFrame = None
  /\ DesiredFrameIndex = 0
  /\ MinimumAccumulated = Infinity /\ MaximumSeen = 0
  /\ passed = << >> /\ displayed = 0
  /\ drain = "none" /\ jumps = 0 /\ drains = 0

-----------------------------------------------------------------------------
(* The frame parser, forward play, frame pictures                          *)

Unnumbered(kind) == [kind |-> kind, DisplayFrameIndex |-> INVALID_INDEX,
                     Collapse |-> FALSE]

\* CalculateFrameIndexAndPts: the frame fs[f] gets the next display index.
Numbered(fs, f) ==
  [fs EXCEPT ![f].DisplayFrameIndex = NextDisplayFrameIndex,
             ![f].Collapse = CollapseHoles]

\* A frame that can be shown before any other still to be decoded.  It is
\* refused without two reference frames (PrepareReferenceFrameList).
ParseOther ==
  /\ references = ReferencesNeeded
  /\ frames' = Numbered(Append(frames, Unnumbered("other")), Len(frames) + 1)
  /\ NextDisplayFrameIndex' = NextDisplayFrameIndex + 1
  /\ CollapseHoles' = FALSE
  /\ UNCHANGED <<Deferred, references>>

\* The deferred frame, if any, is numbered.
NumberDeferred(fs) ==
  IF Deferred = None
  THEN /\ frames' = fs
       /\ UNCHANGED <<NextDisplayFrameIndex, CollapseHoles>>
  ELSE /\ frames' = Numbered(fs, Deferred)
       /\ NextDisplayFrameIndex' = NextDisplayFrameIndex + 1
       /\ CollapseHoles' = FALSE

\* A reference frame is deferred; the one before it gets its index.
ParseReference ==
  /\ NumberDeferred(Append(frames, Unnumbered("reference")))
  /\ Deferred' = Len(frames) + 1
  /\ references' = Lower(references + 1, ReferencesNeeded)

\* The flag is set ahead of the jump: between the jump and the marker,
\* CollateToParse discards what was collected.  What is ahead of the jump may
\* have been in its hands when the flag was set.
DiscardingCtoP == drain = "discard"

ParseFrame ==
  /\ ~DiscardingCtoP
  /\ Cardinality({f \in DOMAIN frames : ~IsMarker(f)}) < MaxFrames
  /\ ParseOther \/ ParseReference
  /\ ParsedFrameRing' = Append(ParsedFrameRing, Len(frames) + 1)
  /\ UNCHANGED <<DecodedFrameRing, ptod, nonDecoded, flags, reorder, pc,
                 current, output, displayed, control>>

\* Mutant: a discontinuity leaves the deferred frame without an index.
PurgeNothing == UNCHANGED <<frames, NextDisplayFrameIndex>>

\* ForPlayPurgeQueuedPostDecodeParameterSettings
Purge == IF Deferred = None
         THEN UNCHANGED <<frames, NextDisplayFrameIndex>>
         ELSE /\ frames' = Numbered(frames, Deferred)
              /\ NextDisplayFrameIndex' = NextDisplayFrameIndex + 1

\* A discontinuity in the input: a jump of its own, or that of a drain.
ParseJump ==
  /\ \/ drain = "jump" /\ drain' = "discard" /\ UNCHANGED jumps
     \/ drain = "none" /\ jumps < MaxJumps /\ jumps' = jumps + 1
        /\ UNCHANGED drain
  /\ Purge
  /\ Deferred' = None
  /\ CollapseHoles' = TRUE
  /\ references' = 0
  /\ ParsedFrameRing' = Append(ParsedFrameRing, ReleaseAll)
  /\ UNCHANGED <<DecodedFrameRing, ptod, nonDecoded, flags, reorder, pc,
                 current, output, displayed, drains>>

\* The marker is passed on as it is.
ParseMarker ==
  /\ drain \in {"playout", "discard"}
  /\ frames' = Append(frames, Unnumbered(drain))
  /\ drain' = "marker"
  /\ ParsedFrameRing' = Append(ParsedFrameRing, Len(frames) + 1)
  /\ UNCHANGED <<NextDisplayFrameIndex, CollapseHoles, Deferred, references,
                 DecodedFrameRing, ptod, nonDecoded, flags, reorder, pc,
                 current, output, displayed, jumps, drains>>

\* InternalDrainStream: one drain at a time (StreamDrain has the others).
DrainBegins(kind) ==
  /\ drain = "none" /\ drains < MaxDrains
  /\ drains' = drains + 1
  /\ drain' = IF kind = "discard" THEN "jump" ELSE "playout"
  /\ DiscardingPtoD' = (kind = "discard" \/ DiscardingPtoD)
  /\ DiscardingDtoM' = (kind = "discard" \/ DiscardingDtoM)
  /\ UNCHANGED <<parser, ParsedFrameRing, DecodedFrameRing, ptod, nonDecoded,
                 reorder, pc, current, output, displayed, jumps>>

-----------------------------------------------------------------------------
(* ParseToDecode                                                           *)

Taken == ParsedFrameRing' = Tail(ParsedFrameRing)

\* The frame parser's list of two reference frames, which the codec is told
\* of behind each of them; a frame that was not decoded holds no buffer.
Referenced(f, decoded) ==
  IF frames[f].kind # "reference" THEN ReferenceFrameList
  ELSE LET longer == Append(ReferenceFrameList, IF decoded THEN f ELSE None)
       IN  IF Len(longer) > ReferencesNeeded THEN Tail(longer) ELSE longer

ReleaseReferences ==
  /\ ParsedFrameRing # << >> /\ Head(ParsedFrameRing) = ReleaseAll
  /\ input = None
  /\ Taken
  /\ ReferenceFrameList' = << >>
  /\ UNCHANGED <<parser, DecodedFrameRing, input, nonDecoded, flags, reorder,
                 pc, current, output, displayed, control>>

AtFrame == /\ ParsedFrameRing # << >> /\ input = None
           /\ Head(ParsedFrameRing) # ReleaseAll
           /\ ~IsMarker(Head(ParsedFrameRing))

\* The marker ends the discard here, and goes through the codec.
PtoDMarker ==
  /\ ParsedFrameRing # << >> /\ input = None
  /\ Head(ParsedFrameRing) # ReleaseAll /\ IsMarker(Head(ParsedFrameRing))
  /\ Taken
  /\ DiscardingPtoD' = FALSE
  /\ DecodedFrameRing' = Append(DecodedFrameRing, Head(ParsedFrameRing))
  /\ UNCHANGED <<parser, ptod, nonDecoded, DiscardingDtoM, reorder, pc,
                 current, output, displayed, control>>

\* The last look at the flag; Codec->Input may then wait for a buffer.
Accept ==
  /\ AtFrame /\ ~DiscardingPtoD
  /\ Taken
  /\ input' = Head(ParsedFrameRing)
  /\ UNCHANGED <<parser, DecodedFrameRing, ReferenceFrameList, nonDecoded,
                 flags, reorder, pc, current, output, displayed, control>>

\* The decode buffers in use: decoded, in the table, with the manifestor,
\* kept for reference.
Manifested == SelectSeq(passed, LAMBDA e : e.shown)
Occupied(ring) == Range(ring) \ {Poke}
Held == {f \in Occupied(DecodedFrameRing) : ~IsMarker(f)} \cup Table
          \cup ({current} \ {None})
          \cup {Manifested[i].frame :
                  i \in Higher(displayed, 1) .. Len(Manifested)}
          \cup (Range(ReferenceFrameList) \ {None})

Decode ==
  /\ input # None
  /\ Cardinality(Held) < PossibleDecodeBuffers
  /\ DecodedFrameRing' = Append(DecodedFrameRing, input)
  /\ ReferenceFrameList' = Referenced(input, TRUE)
  /\ input' = None
  /\ UNCHANGED <<parser, ParsedFrameRing, nonDecoded, flags, reorder, pc,
                 current, output, displayed, control>>

HasRoom == Cardinality(NonDecodedBuffers) < MaxDiscardedFrames

\* RecordNonDecodedFrame.  With no room the frame is a hole in the indices.
Record(f) ==
  IF HasRoom
  THEN /\ NonDecodedBuffers' = NonDecodedBuffers \cup
                      {[frame |-> f, ReleasedBuffer |-> HasIndex(f)]}
       /\ DisplayIndicesCollapse' =
            IF HasIndex(f) /\ (DiscardingPtoD \/ frames[f].Collapse)
            THEN Higher(DisplayIndicesCollapse, Index(f))
            ELSE DisplayIndicesCollapse
       /\ DecodedFrameRing' =
            IF Cardinality(NonDecodedBuffers) + 3 > MaxDiscardedFrames
            THEN Append(DecodedFrameRing, Poke) ELSE DecodedFrameRing
  ELSE UNCHANGED <<nonDecoded, DecodedFrameRing>>

Drop ==
  /\ AtFrame
  /\ DiscardingPtoD \/ frames[Head(ParsedFrameRing)].kind \in Droppable
  /\ Taken
  /\ Record(Head(ParsedFrameRing))
  /\ ReferenceFrameList' = Referenced(Head(ParsedFrameRing), FALSE)
  /\ UNCHANGED <<parser, input, flags, reorder, pc, current, output,
                 displayed, control>>

-----------------------------------------------------------------------------
(* DecodeToManifest                                                        *)

\* Mutant: all the buffers may be waiting.
MaxDecodesAll == PossibleDecodeBuffers

\* Mutant: the buffer being decoded into is reckoned with once more.
MaxDecodesFewer ==
  Lower(LimitOutOfOrder, Lower(PossibleDecodeBuffers - MinimumWorking - 1,
                               PossibleDecodeBuffers \div 2))

MaxDecodesOutOfOrder ==
  Lower(LimitOutOfOrder, Lower(PossibleDecodeBuffers - MinimumWorking,
                               PossibleDecodeBuffers \div 2))

WithIndex == {f \in Table : HasIndex(f)}
Lowest == CHOOSE f \in WithIndex : \A g \in WithIndex : Index(f) <= Index(g)

\* Mutant: a marker does not push the table out.
IsTurnUnmarked == /\ WithIndex # {}
                  /\ \/ Index(Lowest) = DesiredFrameIndex
                     \/ Cardinality(Table) >= MaxDecodesOutOfOrder
                     \/ frames[Lowest].Collapse

IsTurn == /\ WithIndex # {}
          /\ \/ Index(Lowest) = DesiredFrameIndex
             \/ Cardinality(Table) >= MaxDecodesOutOfOrder
             \/ frames[Lowest].Collapse
             \/ MarkerFrame # None

Scan ==
  /\ pc = "scan"
  /\ MinimumAccumulated' = Smallest(Table \cup {Infinity})
  /\ IF IsTurn
     THEN /\ current' = Lowest /\ Table' = Table \ {Lowest}
          /\ pc' = "pass"
     ELSE /\ UNCHANGED <<current, Table>>
          /\ pc' = "skip"
  /\ UNCHANGED <<parser, ParsedFrameRing, DecodedFrameRing, ptod, nonDecoded,
                 flags, MarkerFrame, output, displayed, control>>

\* CheckForNonDecodedFrame: the entries that have an index by now.
Known == {e \in NonDecodedBuffers : HasIndex(e.frame)}

\* What is learnt from entries whose frame had none when it was recorded.
Collapsed ==
  LET late == {e.frame : e \in {k \in Known : ~k.ReleasedBuffer}}
      far == {Index(f) : f \in {g \in late :
                                  DiscardingDtoM \/ frames[g].Collapse}}
  IN  CHOOSE m \in far \cup {DisplayIndicesCollapse} :
        \A x \in far \cup {DisplayIndicesCollapse} : x <= m

\* The collapse is not looked at once the last entry has been removed.
Emptied(d) == /\ d > DesiredFrameIndex
              /\ \A e \in NonDecodedBuffers :
                   HasIndex(e.frame) /\ Index(e.frame) < d

\* The first index that is neither recorded nor below the collapse.
FirstWanted ==
  Smallest({d \in DesiredFrameIndex .. MaxFrames :
              /\ \A e \in Known : Index(e.frame) # d
              /\ d >= Collapsed \/ Emptied(d)})

Skip ==
  /\ pc = "skip"
  /\ IF NonDecodedBuffers = {}
     THEN UNCHANGED <<nonDecoded, DesiredFrameIndex>>
     ELSE /\ DesiredFrameIndex' = FirstWanted
          /\ DisplayIndicesCollapse' = Collapsed
          /\ NonDecodedBuffers' =
               (NonDecodedBuffers \ Known) \cup
               {[frame |-> e.frame, ReleasedBuffer |-> TRUE] :
                  e \in {k \in Known : Index(k.frame) > FirstWanted}}
  /\ pc' = "extract"
  /\ UNCHANGED <<parser, ParsedFrameRing, DecodedFrameRing, ptod, flags,
                 reorder, current, MaximumSeen, passed, displayed, control>>

\* Mutant: the frames still in the table are not reckoned with.
NumberSeen(f) == Higher(f, MaximumSeen)

\* The sequence number that applies to what is passed on.
NumberGiven(f) == Lower(Higher(f, MaximumSeen), MinimumAccumulated)

PassMarker ==
  /\ pc = "extract" /\ MarkerFrame # None
  /\ MaximumSeen' = Higher(MarkerFrame, MaximumSeen)
  /\ passed' = Append(passed, [frame |-> MarkerFrame, number |-> MarkerFrame,
                               shown |-> FALSE])
  /\ MarkerFrame' = None
  /\ DiscardingDtoM' = FALSE
  /\ drain' = "none"
  /\ pc' = "scan"
  /\ UNCHANGED <<parser, ParsedFrameRing, DecodedFrameRing, ptod, nonDecoded,
                 DiscardingPtoD, Table, MinimumAccumulated, current,
                 DesiredFrameIndex, displayed, jumps, drains>>

Extract ==
  /\ pc = "extract" /\ MarkerFrame = None
  /\ IF DecodedFrameRing = << >>
     THEN /\ pc' = "scan"
          /\ UNCHANGED <<DecodedFrameRing, Table, MarkerFrame, current>>
     ELSE LET f == Head(DecodedFrameRing) IN
          /\ DecodedFrameRing' = Tail(DecodedFrameRing)
          /\ \/ /\ f = Poke
                /\ pc' = "scan" /\ UNCHANGED <<Table, MarkerFrame, current>>
             \/ /\ f # Poke /\ IsMarker(f)
                /\ MarkerFrame' = f
                /\ pc' = "scan" /\ UNCHANGED <<Table, current>>
             \/ /\ f # Poke /\ ~IsMarker(f) /\ Index(f) <= DesiredFrameIndex
                /\ current' = f
                /\ pc' = "pass" /\ UNCHANGED <<Table, MarkerFrame>>
             \/ /\ f # Poke /\ ~IsMarker(f) /\ Index(f) > DesiredFrameIndex
                /\ Table' = Table \cup {f}
                /\ pc' = "scan" /\ UNCHANGED <<MarkerFrame, current>>
  /\ UNCHANGED <<parser, ParsedFrameRing, ptod, nonDecoded, flags,
                 MinimumAccumulated, output, displayed, control>>

\* The frame goes to the manifestor, or back to the codec.
Pass ==
  /\ pc = "pass"
  /\ MaximumSeen' = Higher(current, MaximumSeen)
  /\ \E shown \in {FALSE, ~DiscardingDtoM} :
       passed' = Append(passed, [frame |-> current,
                                 number |-> NumberGiven(current),
                                 shown |-> shown])
  /\ DesiredFrameIndex' = Index(current) + 1
  /\ current' = None
  /\ pc' = "scan"
  /\ UNCHANGED <<parser, ParsedFrameRing, DecodedFrameRing, ptod, nonDecoded,
                 flags, reorder, displayed, control>>

\* External: the next frame is on the screen, the one before is returned.
Display ==
  /\ displayed < Len(Manifested)
  /\ displayed' = displayed + 1
  /\ UNCHANGED <<parser, ParsedFrameRing, DecodedFrameRing, ptod, nonDecoded,
                 flags, reorder, pc, current, output, control>>

-----------------------------------------------------------------------------
PtoD == ReleaseReferences \/ PtoDMarker \/ Accept \/ Decode \/ Drop
DtoM == Scan \/ Skip \/ PassMarker \/ Extract \/ Pass

Next == \/ ParseFrame \/ ParseJump \/ ParseMarker
        \/ \E kind \in Drains : DrainBegins(kind)
        \/ PtoD \/ DtoM
        \/ Display

Spec == Init /\ [][Next]_vars

(* The processes are loops with bounded waits, and the display goes on.    *)
(* Nobody is obliged to inject, to jump or to drain.                       *)
LiveSpec == Spec /\ WF_vars(PtoD) /\ WF_vars(DtoM) /\ WF_vars(Display)

-----------------------------------------------------------------------------
\* What was parsed and has not been passed on or dropped.
Behind == (Range(ParsedFrameRing) \ {ReleaseAll}) \cup ({input} \ {None})
            \cup Occupied(DecodedFrameRing) \cup Table
            \cup ({current, MarkerFrame} \ {None})

(* "Frame re-ordering failure" (DtoM): between two markers, frames are     *)
(* manifested in the order of their display indices.                       *)
OutputInOrder ==
  \A i, j \in DOMAIN passed :
    /\ i < j /\ passed[i].shown /\ passed[j].shown
    /\ \A k \in i .. j : ~IsMarker(passed[k].frame)
    => Index(passed[i].frame) < Index(passed[j].frame)

(* "any command to be executed at the end of the stream will appear 1      *)
(* frame early, the calculations below will re-wossname the sequence       *)
(* numbers" (DtoM): a command for the number given to a frame is not       *)
(* performed while a frame of a lower number is still to come.             *)
NotEarly ==
  \A i \in DOMAIN passed : ~IsMarker(passed[i].frame) =>
    \A f \in Behind : passed[i].number <= f

(* The frames DtoM holds back, the ones kept for reference and the one on  *)
(* the screen always leave a buffer to decode into in the end              *)
(* (MaxDecodesOutOfOrder): the processes do not wait for each other.       *)
DecoderGetsABuffer == (input # None) ~> (input = None)

(* "If we get here with a marker frame, then we have emptied our           *)
(* accumulated list" (DtoM): no frame is left behind by the marker of a    *)
(* drain that discards, which has a jump before it.                        *)
LeftBehind(kind) ==
  {f \in Table : \E i \in DOMAIN passed :
     frames[passed[i].frame].kind = kind /\ f < passed[i].frame}
DiscardEmptiesTable == LeftBehind("discard") = {}

\* The same of the marker of a drain that plays out.
PlayoutEmptiesTable == LeftBehind("playout") = {}
=============================================================================
