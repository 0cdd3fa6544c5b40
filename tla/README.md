# A verification project for the Player2 playback engine of NeutrinoNG

NeutrinoNG builds the image of a set-top box: make files, kernel
configurations and patches, a root file system, helper tools, and the kernel
drivers under `driver/`. The part of the repository that has logic of its own
to get right, and that no test reaches, is `driver/player2`: the engine that
takes a broadcast or a file as a stream of bytes and shows it as frames. It is
a set of kernel threads per stream, connected by rings of reference-counted
buffers, started, drained, switched and stopped while they run.

This directory holds TLA+ modules translated from that source, TLC
configurations that check them on small instances, and TLAPS proofs for every
instance. Paths below are relative to `src/driver/player2/`.

## 1. The system

```
            injecting thread                                    (player control threads: AddStream, DrainStream,
                  |                                              SwitchStream, RemoveStream, CallInSequence)
               Collator
                  | CollatedFrameRing
        [ CollateToParse process ] -> FrameParser
                  | ParsedFrameRing
        [ ParseToDecode process ] -> Codec
                  | DecodedFrameRing
        [ DecodeToManifest process ] -> OutputTimer, Manifestor
                  | ManifestedBufferRing
        [ PostManifest process ] -> Codec.ReleaseDecodeBuffer
```

| Component | Source | State | Operations | Interacts by |
|---|---|---|---|---|
| Ring | `components/infrastructure/ring_generic.cpp` | slots, two indices, a mutex, an event | Insert, Extract, Flush, NonEmpty | every process extracts from one ring and inserts in the next |
| Events and mutexes | `linux/components/inline/osinline.c` | a flag and a wait queue | Set, Reset, Wait with timeout | everything that waits |
| Buffer manager, pools, buffers | `player/buffer/*.cpp` | free ring, reference counts, owner identifiers, attached buffers and meta data | GetBuffer, Increment/DecrementReferenceCount, Attach/Detach, AbortBlockingGetBuffer, destruction | buffers are held by several processes at once |
| Memory allocator | `components/infrastructure/allocator_simple.cpp` | table of free blocks | Allocate, AllocateLargest, ExtendToLargest, Free | pools with variable size buffers |
| Processes | `player/player/player_process_*.cpp` | sequence numbers, discard flags, accumulated buffers and control messages | one loop each | rings, buffers, control messages |
| Playback control | `player/player/player_playback.cpp`, `player_in_sequence.cpp`, `player_switch.cpp` | lists of playbacks and streams, running count, flags | create, add, drain, switch, remove | calls from other threads, flags polled by the processes |
| Player events, input, time, policies | `player/player/player_{events,input,time,policy,...}.cpp` | lists | register, signal, inject, translate | callbacks |
| Collators, frame parsers, codecs, output timer, manifestors | `player/{collator,frame_parser,codec,output_timer,manifestor}` | per format | format specific | called by the processes |

What is hard in it, part by part, and what must hold:

| Part | Hard behaviour | What makes it correct |
|---|---|---|
| Ring | Extract tests the indices without the mutex that Insert changes them under, in several steps; the event is reset before the test | first in first out, nothing lost or read twice, no wakeup lost, a consumer that keeps calling gets everything |
| Buffers | counts of buffer and pool under different locks; two threads drop the last two references; buffers hold buffers | the counts are the references; one thread releases, once; a free buffer holds nothing; nothing is lost |
| Pool wait | one event and one flag for all getters; abort from the destructor without the lock | nobody sleeps for ever in front of a buffer; the abort gets everybody out |
| Allocator | a local computed before the lock; a table that can be full; a destructor that waits on a flag written without the lock | no memory is two things at once; none is lost; free neighbours are joined; nothing crosses a 64MB boundary; the deletion ends |
| Drain | a marker travels through four threads and an asynchronous codec; messages overtake it; flags are set at once and cleared one by one; drains overlap | order is kept; a drain that returned is complete; only what had to be discarded is; flags and messages never stay behind; every drain ends |
| Re-ordering | indices are given late, frames are dropped on the way, three threads share lists without a lock, all buffers can be held at once | display order; no command too early; the decoder always gets a buffer; no frame left behind a marker |
| Stream life cycle | processes are ended by flags and bounded waits, then everything they use is deleted | the rings, and then the stream, are destroyed when nobody uses them any more; a stream that is listed runs; nothing stays in a ring; the end comes |
| Stream switch | a non-blocking drain and five calls in sequence replace collator, parser and codec under running processes, two of which block for an event a third sets | each frame is parsed and decoded by what came with its collator, and released by the codec that decoded it; what is reset or deleted is out of use; nobody waits in vain |
| Events | a bounded queue, a list, callbacks out of the display's interrupt | an event is delivered at most once, in order, to who registered |

PROJECT.json lists every other part of the repository as a component, with the
reason it is left out, and the hazards, each at its line.

## 2. Modules

| Module | Models | Used by |
|---|---|---|
| `FifoQueue` | what a ring promises (`components/include/ring.h`) | refined by `Ring` |
| `Ring` | `ring_generic.cpp` | `MCRing`, `RingProofs` |
| `RingProofs` | proofs about `Ring` | |
| `BufferReferences` | `buffer_pool_generic.cpp`, `buffer_individual_generic.cpp`: references | `MCBufferReferences`, `BufferReferencesProofs` |
| `BufferReferencesProofs` | proofs about `BufferReferences` | |
| `BufferPoolWait` | `buffer_pool_generic.cpp`: the blocking GetBuffer | `MCBufferPoolWait` |
| `AllocatorSimple` | `allocator_simple.cpp` | `MCAllocatorSimple`, `AllocatorSimpleProofs` |
| `AllocatorSimpleProofs` | proofs about `AllocatorSimple`: for any number of calls, and the wakeup and the destructor for one thread in Allocate | |
| `StreamDrain` | `player_playback.cpp` (InternalDrainStream), `player_in_sequence.cpp`, the four processes, the marker in `codec_mme_base.cpp` | `MCStreamDrain`, `StreamDrainProofs`, `StreamSwitch` |
| `DrainService` | what InternalDrainStream promises a caller who waits | refined by `StreamDrain` |
| `StreamDrainProofs` | proofs about `StreamDrain`, for drains that wait | |
| `StreamSwitch` | `player_switch.cpp`; extends `StreamDrain` | `MCStreamSwitch`, `StreamSwitchProofs` |
| `StreamSwitchProofs` | proofs about `StreamSwitch`, for switches without other drains | |
| `StreamLifecycle` | `player_playback.cpp` (AddStream, RemoveStream, CleanUpAfterStream), start and end of the four processes | `MCStreamLifecycle`, `StreamLifecycleProofs` |
| `StreamLifecycleProofs` | proofs about `StreamLifecycle` | |
| `FrameReorder` | `player_process_decode_to_manifest.cpp`, `player_process_parse_to_decode.cpp`, `frame_parser_video*.cpp` | its runs directly, `FrameReorderProofs`, `FrameOutputProofs` |
| `FrameReorderProofs` | proofs about `FrameReorder`: decode order, commands, the discard | `FrameOutputProofs` |
| `FrameOutputProofs` | proofs about `FrameReorder`: display order | |

The layers use each other by what the layer below has been shown to promise:
`StreamDrain` and `FrameReorder` take each ring as a sequence, which `Ring`
implements (`Fifo == INSTANCE FifoQueue WITH queue <- Contents`);
`BufferPoolWait` takes the free ring as a number, `BufferReferences` as a set.
`StreamSwitch` is `StreamDrain` with more in every action: it EXTENDS it, and each
of its actions is one of the chain's and what the switch makes of it, or leaves the
chain alone. The MC modules name the sets that the configurations give to CONSTANTS.

### Ring

One action is a stretch of code nobody can see the middle of. Insert runs
under `Lock`, but since Extract tests `NextExtract = NextInsert` without it,
each value `NextInsert` takes is a state: `InsertStore` (slot written, index
raised, possibly to `Limit`), `InsertWrap`, then `InsertCommit` and
`InsertSignal`, or `InsertRollBack` when the ring was full. Extract is
`ExtractReset`, `ExtractTest`, `ExtractWake` or `ExtractTimeout`,
`ExtractTake`. The players use a ring with many inserters and one extractor,
and only the frame parsers, with rings of their own, flush (`MayFlush`).

### BufferReferences and BufferPoolWait

The unit of `BufferReferences` is the reference, not the thread: every call in
progress makes or drops one reference, `pc[r]` says where that call is, and
`holder[r]` whether a client or another buffer (AttachBuffer) holds it. A
reference can then change hands freely, as it does in the rings. The pool's
count and the buffer's are under two locks, and every stretch between two
critical sections is where another thread runs: `Increment`, `IncPool`,
`IncBuffer`; `Decrement`, `DecPool`, `DecBuffer`, `DropLast` or `DropOther`,
`ReleaseAttached`, `ReleaseFree`. `pins` states the caller's duty on which the
code rests: whoever makes a reference to a buffer, attaches to it or detaches
from it holds one itself until the call returns.

`BufferPoolWait` is the other side of the same pool: which thread sleeps on
`BufferReleaseSignal`, with the one flag `BufferReleaseSignalWaitedOn`, and
TidyUp's abort, which reads that flag and sets `AbortGetBuffer` without the lock.

### AllocatorSimple

Addresses are offsets in the pool's memory, in allocation units. What a loop
over the table under the lock does is one step: `TakeFirst`, `TakeLargest`,
`ExtendUpwards`, `ExtendDownwards`, `FreeInsert`, `FreeTooMany`. The loop of Free
(concatenate above and below, find a free entry, find the new highest one) is
stated by what it computes, `Concatenated`, `Target`, `NextHighest`;
`Loop` is the loop turn by turn (`Turn`), and `FreeIsTheLoop` sets the two
against each other in every state a Free can meet. `LowestFreeBlock`, which the
code computes before it takes the lock, is a local of its own, so a table that
changed in between is met. The destructor is `Delete`, `DeleteSignal`,
`DeleteEnd`.

### StreamDrain

The chain of rings, the four processes, the codec and the manifestor as a drain
sees them. Buffers are frames, markers, the empty buffers of an input jump and
control structures, with the sequence number the collate-to-parse process gives
them. InternalDrainStream is cut where another thread can see a difference:
`DrainBegins` (the flags), `DrainFlushes` (InputJump, DiscardQueuedDecodes,
ReleaseQueuedDecodeBuffers), `DrainChecks` (is another marker in the coded
ring), `DrainNumbers` (`NextBufferSequenceNumber` is read without a lock),
`DrainLaunches`, `DrainCalls` (two CallInSequence) and `DrainWaits`. The codec
holds the marker back until as many decodes are completed as were prepared
before it: `MarkerInput`, `TestMarkerFramePassOn`, `DecodeCompletes`,
`CallbackCounts`, each in its own thread. ParseToDecode clears its flag for a marker (`PtoDMarker`,
`player_process_parse_to_decode.cpp:129`) and then tests it for the marker as for a frame (`PtoDMarkerTest`, :151):
a discarding drain that sets the flag in between has the marker dropped (:188-209).

Abstractions, and why they are sound for what is checked:

- one turn of a process' loop for a frame is one action: what the turn reads
  before the flag it tests, this process alone changes. Turns for a marker are
  split where a drain can set the flag between two of its steps: between the clearing and the test in
  ParseToDecode (`PtoDMarkerTest`), and where DecodeToManifest clears the flag after it has passed the marker on
  (`DtoMMarkerClear`);
- the test of the flag for a frame and Codec->Input are one step. A frame that has passed the test when a drain sets
  the flag goes into the codec as if it had come before the drain; that it can come there after DiscardQueuedDecodes, and is
  then decoded and not discarded, is left out;
- a Codec->Input that fails is left out, for frames as for markers (:196-198), which would be dropped then;
- the four flags of a discarding drain are set in one step, and so are
  InputJump, DiscardQueuedDecodes and ReleaseQueuedDecodeBuffers done;
- the output timer may drop a frame for reasons of time at any place where the
  code lets it; only drops because of a flag or of the codec's discard enter
  `discarded`;
- frames are displayed in decode order (audio, and video without B pictures);
  re-ordering is `FrameReorder`;
- commands that set the stream parameters of a transformer, a failing
  MME_SendCommand and SignalEvent are left out; a wait for the drain times out
  where `TimesOut` says so, then the drain is left as the code leaves it.

`DrainService` is the chain as the caller of a drain that waits sees it: one set of frames upstream of the
manifestor, what is on the screen, and a drain that begins, flushes the screen if it discards, is
marked for the frames collated so far, and returns when none of those is upstream. Frames are displayed lowest
first; a frame is given up only for a discarding drain in progress, and once that is marked only if it
is one of those due. `Service` in `StreamDrain` maps the rings and the codec to the set, the places of the calling thread to three
phases, and the last drain's `behind` to what is due; numbers, flags, messages, counts and the event have no
counterpart.

### StreamSwitch

SwitchStream launches a drain that does not wait, replaces the collator in the
calling thread, and sends each process a call for behind the drain's marker:
CollateToParse replaces the frame parser, ParseToDecode the codec,
DecodeToManifest tells both, by one event, that the last decode is out, and
PostManifest ends the switch. In the model an object is the number of the switch that
brought it, `streamOf` remembers the collator of each frame. `SwitchBegins` is the
drain (with `StreamDrain`'s own steps in between), `SwitchCollator` the marks and the
collator, `SwitchCalls` one call at a time. `calls` and `passed` are the
tables of accumulated messages and the numbers seen in the first two processes, which
`StreamDrain` has no need of. A process in a call that blocks is in
`performing`: `SwitchFrameParser` and `SwitchCodecHalts` wait for the event, the
latter for the transformer too.

Abstractions: those of `StreamDrain`; the codec and the manifestor hand over what
they hold in the order they got it; the halt of a codec and `CodecReset` are one
step; the event a caller may ask for, the demultiplexor and the wait of a blocking switch
(Havana's does not block) are left out; one thread switches.

### StreamLifecycle

`pc` is where the caller is, from `setup` to `deleted`; `proc[p]` where process p is, with
`counted` and `uncounted` inside the lock under which it changes the count and sets
the event. The caller reads the count without the lock (`AllRun`, `NoneToWaitFor`), and its
waits can end without the event: `WaitForStart` always, `Sleep` and `WaitEnds` as soon as
`Patience` allows. `LongEnough` is the assumption the code makes: when the wait for the
end is over, a process has at most its last lines to do. A buffer is in one place, free,
in a ring, in the hand of a process or in one of its tables; `Handle` is all that a
process may do with one, so that every order of events in `StreamDrain` or
`FrameReorder` is among its behaviours. Every process can fail to be created or be slow.

Abstractions: the halt of the classes and the flags between `ResetEvent` and `Terminate`
change what the processes do with a buffer, not where they can be; the reset of the
classes and the destruction of events, pool and stream is one step, `Delete`; a
transformer or display that still holds a buffer when its class is halted hands it back
before that returns; of the playback there is only whether it lists the stream.

### FrameReorder

The video path alone: parser, ParseToDecode, DecodeToManifest. A reference
picture gets its display index only when the next one comes
(`NumberDeferred`), other pictures at once; a frame ParseToDecode does not
decode is recorded in `NonDecodedBuffers`, whose overflow raises
`DisplayIndicesCollapse`, and DecodeToManifest is poked. `Scan`, `Skip`,
`PassMarker`, `Extract`, `Pass` are the stages of DecodeToManifest's loop, `pc`
where it is. `FirstWanted` is the choice which frame of the table is due.
Decode buffers are counted: a frame held in the table, kept for reference,
queued or on the screen has one, and `Accept` waits for a free one.

Abstractions: frame pictures only (no fields), forward play at normal speed,
decodes complete in order and at once, no InitialFrame shortcut, no single step,
one drain at a time. CollateToParse collects nothing between the jump of a drain that discards
and its marker (`DiscardingCtoP`); a frame parsed there would be the first of the discontinuity, be dropped by
ParseToDecode and raise `DisplayIndicesCollapse` over frames that come after the marker. A table is read in one step: only the
index of the one deferred frame can change meanwhile.

## 3. Runs

Twelve configurations. Ten pass, two show a disagreement between the code and
what its comments say of it.

| Run | Question | Bounds | States |
|---|---|---|---|
| `ring` | is the ring a FIFO, with its interleavings, and does a polling consumer get everything | 2 inserters, 3 values, 2 entries, flushes | 108 k |
| `buffer_refs` | do counts, release and attachments agree, is every buffer released | 3 buffers attached two deep, 3 references | 35 k |
| `pool_wait` | is a getter ever stuck in front of a buffer, does the abort get all out | 3 getters, 2 buffers, destruction | 15 k |
| `allocator` | one thread at a time in Allocate and one in Free: is memory conserved and concatenated, also when the table is full, is Free its loop, does the deletion end | 4 units, boundary at 3, 3 buffers, table of 2 | 122 k |
| `allocator_lost` | (violated) does Free keep what it reports it kept | 5 units, table of 6 | |
| `drain` | drains that wait, one after the other: order, completeness, does the chain implement `DrainService`, does every drain end | 1 frame, 2 drains, liveness | 146 k |
| `drain_overlap` | drains that do not wait, time outs, preemption in the codec's test, a marker lost in ParseToDecode: is a message or flag ever stranded | 1 frame, 2 drains | 5.02 M |
| `switch` | does every frame stay with its own parser and codec, is anything reset or deleted in use, does anybody wait in vain | 1 frame, 2 drains, of switches or of others | 4.31 M |
| `lifecycle` | is anything destroyed in use, left in a ring, or awaited in vain | 4 processes, 1 frame, 1 message | 181 k |
| `reorder` | display order, commands not too early, discarding markers leave nothing | 5 frames, 1 jump, 1 drain of either kind | 5.58 M |
| `reorder_buffers` | does the decoder always get a buffer | 7 frames, 4 decode buffers, list of 1, liveness | 1.73 M |
| `reorder_marker` | (violated) does the marker of a playout drain leave nothing | 4 frames, 1 drain | |

**Why the bounds are enough.** A ring of two entries wraps, is full, and rolls
back, with the third slot the code keeps empty; two inserters are what contend
for one lock while the extractor tests without it. Three references to three
buffers have two threads drop the last two references to one buffer while the
third attaches it or releases the buffer that holds it; attachments two deep
are what the codec and the frame parsers make. Three getters are needed for one
to swallow the signal of another while the third holds the flag; two buffers
make the count more than a bit. In the allocator three buffers make every
pattern of neighbours (free on both sides, one side, across the boundary); the table
of `allocator` is smaller than the memory, so it fills, and `Conserved` then counts
what Free reports it could not keep. Frees that overlap are left to the proofs,
which have any number of them, and to `allocator_lost`. Two drains are what it takes for one
marker to meet another in every ring, in the codec and in each table. In
`drain` a frame can be before, between or behind the two markers; with two frames and
rings of four, so that one could overtake the other, its properties hold too (2.44 M states, one minute for the
safety properties and the refinement, close to five with `DrainEnds`, so the
configuration keeps one). In
`reorder` five frames hold two references with B pictures between them and
either side, and a jump or a drain at every place; `LimitOutOfOrder` and
`MinimumWorking` have the code's values, `PossibleDecodeBuffers` 5 is the
smallest that gives `MaxDecodesOutOfOrder` 2. In `reorder_buffers` there are
fewer buffers and more frames than buffers, so all can be held at once.
Two switches are what it
takes for one to meet the other, and to have the classes of the first deleted; a frame
can come before, between and behind them, through each of three collators. In `lifecycle` one frame
and one message can be at every place of the chain, in every order with the ends of the four
processes; with two frames (1.3 M states, five minutes) nothing else comes out, and
the proofs have any number of them and of processes.
`MaxRingSize` is smaller than the code's 1024 in proportion to the frames;
`RingAssumption` states what is used of it: the rings are never full.

The mutants keep the models honest, and where a loop is stated by its result `FreeIsTheLoop` does. Every property of a
passing run has a mutant, a plausible mistake in a mapped definition
(a forgotten signal, a missing wrap, an off-by-one, an early clear), that
breaks it under the same configuration.

**Deadlock** is checked in `ring`. Elsewhere CHECK_DEADLOCK is FALSE because
the system may rightly stop: no reference is left to drop, the pool or allocator
is destroyed, all frames and drains of the bound are used up. Where "does not get
stuck" matters it is a liveness property.

**Fairness.** Threads inside a call go on (weak fairness of their steps), a
timer expires, the transformer completes and the display goes on. Nobody is
obliged to call, inject, drain, release or destroy. Strong fairness is assumed
at two places, both for taking a lock that others keep taking: `ExtractTake` in
`Ring`, `Reset` and `Relock` in `BufferPoolWait`. The mutexes are semaphores of
the kernels the image is built for (2.6.32; `osinline.c`), which serve waiters in
their order of arrival. Nobody has to remove
a stream; one that could not be added, or is being removed, has its caller and its
processes go on, since none of them waits but with a time out. Only `ReleaseCompletes`,
`NeverStuckBeforeABuffer`, `AbortEndsAll`, `DeleteCompletes`, `DrainEnds`,
`DecoderGetsABuffer`, `ProcessesEnd`, `CleanUpEnds` and `FifoLiveSpec` use any of it.

### What each property says

- `NoLostWakeup` (Ring), `FifoLiveSpec`: the reset comes before the unlocked test and
  the signal after the unlock, so an extractor that waits while there is an
  entry has been or will be signalled, except in front of a full ring (section 5). With
  a bounded wait the ring implements the queue, liveness included.
- `CountsExact`, `ReleasedOnce`, `FreeHoldsNothing`, `Conserved`,
  `ReleaseCompletes` (BufferReferences): the counts tell the truth though two locks
  protect them; "only one will do the actual release"; GetBuffer may clear
  `AttachedBuffers` without looking; nothing is lost but by a GetBuffer that fails; the
  last reference being an attachment does not keep a buffer from its pool.
- `NeverStuckBeforeABuffer`, `AbortEndsAll` (BufferPoolWait): the timeout of the wait is what
  makes up for swallowed signals.
- `NoOverlap`, `Conserved`, `NoneCrosses`, `Concatenation`, `NoLostWakeup`, `DeletedEmpty`,
  `DeleteCompletes`, `FreeIsTheLoop` (AllocatorSimple): memory is one thing at a time, whole, joined, and
  within its partition; a lone Allocate is always woken; the destructor's wait is right and ends. `NoOverlap` survives overlapping Frees; `Conserved` does not
  (`allocator_lost`), but what is lost is lost in one way only (`OnlyOverwritingLoses`, which is proved and in no run).
- `OrderKept`, `DrainedMeansDrained`, `DiscardsUntilMarker`, `ResetBeforeNewFrames`,
  `NoMessageStranded`, `NoFlagStranded`, `DrainEnds`, `ServesDrains` (StreamDrain): a drain is complete when it says so, discards what
  it has to and no more, ends, and leaves nothing behind; to its caller the whole chain is one store. With drains that overlap, a message that is kept has a marker
  on its way, be it the next one's, or a drain about to launch one (`NoMessageStranded`). (`DiscardedForADrain`
  is proved, and no run has it: `ServesDrains` says more.)
- `InItsOwnHands`, `ReleasedByItsCodec`, `NoOneNeedsTheParser`, `PreviousOutOfUse`, `NoCallStranded` (StreamSwitch): the
  objects are replaced behind the last old and ahead of the first new frame; a codec gets back all its own frames
  and, when only switches drain the stream (`SwitchesOnly`; section 5 says why), no others; "no-one will need to use any of the stream, or frame, parameters of the current frame
  parser"; "the previous classes are now definitely no longer in use"; nobody waits in vain (`NoCallStranded`: a call that is
  kept has a marker coming or about to be launched, and a process blocked in one is let go without a time out's help, but for a switch
  whose marker was lost to a discarding drain behind it, `Lost`).
- `RingsOutOfUse`, `StreamOutOfUse`, `ListedMeansRunning`, `NothingLeftInRings`, `ProcessesEnd`, `CleanUpEnds`
  (StreamLifecycle): one event and one count, read without the lock, are enough to start and end four threads;
  `StreamOutOfUse` rests on the lock of the playback's list, taken for another reason.
- `OutputInOrder`, `NotEarly`, `DiscardEmptiesTable`, `DecoderGetsABuffer` (FrameReorder).

## 4. Proofs

| Theorem | Module | For every |
|---|---|---|
| `RingInvariant`: Spec => []IInv | `RingProofs` | set of inserters and buffers, ring size, blocking periods, with and without flushes |
| `RingNoLostWakeup`: Spec => []NoLostWakeup | | |
| `RingIsFifo`: Spec => FifoSpec | | |
| `PoolInvariant`: Spec => []IInv | `BufferReferencesProofs` | finite set of buffers and references, relation of attachment, MaxAttached |
| `CountsAreExact`, `BuffersAreReleasedOnce`, `FreeBuffersHoldNothing`, `AssertionHolds`, `BuffersAreConserved` | | |
| `AllocatorInvariant`: Spec => []IInv | `AllocatorSimpleProofs` | memory, table size, set of boundaries, number of buffers and of overlapping calls |
| `MemoryIsOnce`: Spec => []NoOverlap | | |
| `NothingCrosses`: Spec => []NoneCrosses | | |
| `BlocksAreConcatenated`: Spec => []Concatenation | | |
| `FreesAreTheLoop`: Spec => []FreeIsTheLoop | | |
| `LoneWakeupIsKept`: Spec => []NoLostWakeup | | the same, with MaxAllocating = 1 |
| `DeletedIsEmpty`: Spec => []DeletedEmpty | | the same, with MaxAllocating = 1 |
| `MemoryIsLostByOverwriting`: Spec => OnlyOverwritingLoses | | the same as for `AllocatorInvariant` |
| `LifecycleInvariant`: LongEnough => (Spec => []IInv) | `StreamLifecycleProofs` | number of processes, sets of frames and messages |
| `RingsAreOutOfUse`, `StreamIsOutOfUse`, `ListedStreamsRun`, `RingsEndEmpty` | | |
| `DrainInvariant`: OneAtATime => (Spec => []IInv) | `StreamDrainProofs` | number of frames and of drains, ring size, with drains that wait |
| `ChainKeepsOrder`, `DrainIsComplete`, `OnlyDoomedFramesGo`, `FlagsHold`, `TimeMappingIsReset`, `MessagesAreNotStranded`, `FlagsAreNotStranded` | | |
| `DrainsAreServed`: OneAtATime => (Spec => ServesDrains) | | the same |
| `SwitchInductive`: SwitchesAlone => (SwitchSpec => []SwitchIInv) | `StreamSwitchProofs` | number of frames and of switches, ring size, with and without preemption in the codec's test, when only switches drain |
| `PreviousIsOutOfUse`, `NoCallIsStranded` | | |
| `FramesAreReleasedByTheirCodec`, `NobodyNeedsTheParser` | | |
| `FramesInvariant`: Spec => []IInv | `FrameReorderProofs` | number of frames, jumps and drains, decode buffers, size of the list, kinds of drain, droppable frames |
| `FramesAreInOrder`, `CommandsAreNotEarly`, `DiscardLeavesNothing` | | |
| `OutputInvariant`: Spec => []OutputInv, `FramesAreShownInOrder` | `FrameOutputProofs` | the same, with MaxDecodesOutOfOrder >= 2 and Droppable within {"other"} |

The assumptions are the named ASSUMEs of the modules: sizes are natural
numbers, some at least one; the thread that extracts is not an inserter; null
values are not values; users, buffers and references are finite sets. Each is
evaluated by TLC in the runs of its module.

**Ring.** The indices alone say nothing while an Insert is inside its critical
section: `NextInsert` may be `Limit`, or equal to `NextExtract` in front of a
full ring. `IInv` therefore relates the locals to the place in the code
(`InsertInv`: who has `Lock`, and that `NextInsert` is one past `OldNextInsert`,
wrapped or about to be) and counts with `CommittedInsert`, the index Insert will
be seen to have started from until it unlocks; `EntriesInv` adds that every
entry between the indices is a stored value, which is what makes Extract's result
meaningful. Three lemmas say what a step does to the contents: a store leaves
them, a commit appends, a take removes the first (`StoreKeepsEntries`,
`CommitAppends`, `TakeRemovesFirst`); the refinement maps the commit to FifoQueue's Insert,
the take to its Extract, and all else to stuttering. `NoLostWakeup` is proved with
`IInv` as an invariant.

**BufferReferences.** That a buffer is released once needs the counts to be
exact: only then does the thread that sees zero know that it is the last. That
the counts stay exact needs, in turn, that whoever is making a reference holds
another meanwhile (`PinsHold`), since the pool's count is raised before the
buffer's and a release in between would be seen by neither; and that a buffer on its way to the
free ring holds no other, since GetBuffer clears `AttachedBuffers`. `IInv` is
the conjunction `TypeOK /\ PinsHold /\ CountsExact /\ ReleasedOnce /\
FreeHoldsNothing`, with one step lemma per conjunct and one case per action. `BuffersAreConserved`
adds that a buffer that is neither free nor lost has a keeper (`Kept`): the thread that takes the count to zero becomes
one, and the exact count says that otherwise another reference is left; `ReleasedOnce` makes the keepers
exclude each other, which gives the sum its value.

**AllocatorSimple.** `IInv` is `TypeOK /\ NoOverlap /\ NoneCrosses`. It is
inductive although the local `LowestFreeBlock` may be stale: a stale index makes
Free overwrite an entry, which loses memory but never makes it two things.
The proof rests on one shape that all actions share (`OneMoves`): one owner, a
block of the table, what a buffer holds, or what is being freed, takes a piece
that is within the memory and apart from all others, and every other owner
keeps or loses some of its own. Free's concatenation has that shape because
what it makes is the freed piece with at most one block below and one above
(`FreeInsertJoins`, `JoinDisjoint`, `JoinWithin`). `NoneCrosses` is needed for the
induction itself: it bounds the ends of all pieces, without which the greatest
of them could not be shown to exist. The initial state is the partition Free()
makes: pieces start at 0 and at the boundaries (`StartsAre`, `PiecesAre`).

The module goes on from there. Tightness (`TableInv`: no two free blocks touch but at a boundary,
no block in use is empty or above `HighestUsedBlockIndex`, no request is for nothing) survives overlapping Frees too:
a table only loses an entry, has the front of one cut off, or gets one that Free has joined with
all it touches, and what touches the join on its far side would have touched the block it took in. Tightness is also why the
loop of Free, each of whose turns reads the table and the piece that the turns before it have changed, computes what the
definitions read off the table as it was (`FreesAreTheLoop`): a block is joined in its turn exactly if it touches the piece as it was
at the start, because what the piece has grown by touches nothing else. `Turned` says what is so after any number of turns, `TurnKeeps` that a
turn more keeps it; the induction is over the set of the entries for which it is so, in which one that is missing would have a least
(`InductionOver`), since the library's rule takes an operator. The wakeup and the destructor need that
one thread at a time is in Allocate, because `InAllocate` and `EntryFreed` are one flag and one event for all callers
(`OneIsIn`): the one that leaves leaves nobody behind, and the one that resets the event has just seen
no block. The collator's thread is the only one that calls Allocate on a pool of coded frames, so MaxAllocating = 1 is what the
player does. That one thread at a time is in Free is not (section 5), and memory is lost then; so what is proved is how,
for any number of overlapping calls (`MemoryIsLostByOverwriting`). `Somewhere` follows each unit from place to place: taking, extending and
beginning to free lose none (`TakeLosesNone`, `ExtendLosesNone`, `FreeLosesNone`), a full table loses only what Free reports
(`TooManyLosesNone`), and where a Free writes into an entry that is in use and not joined to what it frees, that entry is the one it
guessed before the lock (`TargetIsFree`, `InsertLoses`). The corollary `MemoryIsConserved` puts it the other way: as long as no Free overwrites,
and the table has an entry for each piece between boundaries, `Conserved` holds; `allocator_lost` shows that Frees do.

**StreamLifecycle.** The theorems assume `LongEnough`: without it the first two are not
true. What has to be carried along is what the caller may conclude from a number it reads
without a lock. `CountExact` says that the number is that of the processes between their two critical
sections, so 0 means that nobody is in a loop and `ExpectedProcessCount` that everybody is past the first
section, except for the event of the last (`CountTells`); `OneHasLock` makes that last one leave before the
list can be changed. `BeforeTheEnd` and `TheEnd` list for each stage of the caller where the processes can be: in the
loop until the end begins, then on their way out with the event reset, or all of them out, and past
the lock of the list all gone. The event can be set only by a process that takes the count to 0 or to its maximum, and
the latter is over before the stream is listed; so if it is set in `wait`, the count is 0. `BuffersPlaced` says that a ring that has
been deleted is empty, and that a hand or a table has its process. Each conjunct has its
own step lemma (`TypeStep`, `LockStep`, `CountStep`, `BeforeStep`, `EndStep` and that of the places), with
one case per kind of action.

**StreamDrain.** The theorems assume `OneAtATime`: the player's drains wait, no wait times out, and the thread that has
found that a marker can be passed on is not preempted before it does. Section 5 tells what fails without each of the three, and
`drain_overlap` checks what is left then. `IInv` is what the code relies on and says nowhere. `Order` has the numbers rise
along every ring, and through the hands of the processes from one ring to the next. That needs the codec's two counts:
`Counts` says that the first `MarkerPlace` decodes in flight are those in front of the marker it holds and the
others behind it, so the test on the counts lets it go exactly between them (`MarkerForemost`). `Injected` gives each marker its place: frames
collated before the drain have lower numbers, those after it higher ones, which is where a number read without a lock would go
wrong, and `Room` says that it cannot be one too many for the ring of numbers. `Event` says that only the message of
the last drain can set `Drained`, and only when its marker is through; `DrainedMeansDrained` is then the order applied to
what is still upstream. `Flags` and `Discards` follow a drain's four flags and the frames they doom,
`Resets` the second message, for the time mapping. Each conjunct has its own step lemma (`OrderStep`, `CountsStep`,
`InjectedStep`, `EventStep`, `FlagsStep`, ...).

That no message and no flag is stranded is a statement about what is still to come, and needs a second layer, `Coming`: for
every message not yet performed and every flag still set, the marker that will do it is upstream of it, and for every drain
whose marker is on its way but for which the calls have not been made, the caller is about to make them. It is
inductive only together with `IInv` (`ComingInvariant`).

`DrainsAreServed` is the refinement of `DrainService`. The mapping needs to know that frames come to the manifestor in the
order in which they were collated, which `InOrder` says for each pair of places: from it each frame is in one place once,
and what DecodeToManifest takes is the lowest of all that is upstream (`Apart`, `WithoutHead`). Then a step that moves a frame along is
not seen, and one that takes it out is a Display, a Drop or a GiveUp (`Loses`); that a GiveUp is allowed follows from `Discards` and
from what a drain that has returned has left behind (`LeftBehind`, `GoesForTheDrain`): the only drain that can have asked for it is the one
in progress. Launching the marker makes all that is upstream due, because no frame has a higher number than `frames` (`Marks`), and the
return finds nothing due (`ReturnsServed`).

**StreamSwitch.** The theorems assume `SwitchesAlone`: whoever injects frames waits until SwitchStream has returned, the waits
for the last decode are long enough, and the drains are those of the switches. The first two are needed, as section 5 tells; the third keeps the proof to one
marker, and `switch` checks the same properties with other drains among the switches. `Preempted` may be either: a thread
that is preempted in the codec's test is in the codec which this switch replaces, and cannot take the marker of the next.

No single thread knows that a switch is going well, so `SwitchIInv` says for each place of the chain what it may hold. Its
frame of reference is a `World`: the stream of each frame, the last switch whose marker was launched (`Newest`), and that marker's number. There are frames of
two streams at most, `Old` and `New` (`TwoStreams`); the marker is in one place at most and stands between them (`Marker`,
`OneMarker`), the old have lower and the new higher numbers (`Around`); each of the calls is ahead of every new frame (`OneCall`).
`ParserCall`, `CodecCall`, `TimerCall` and `CompleteCall` then say, for each of the four, where it is, sent or not, in the ring, in the table
or performed, what that shows of the marker, and what there cannot be of the new stream until it has been performed. `Numbers` ties the numbers seen by each process to the place of the marker,
which is how a call that finds its number already seen may be performed at once; it rests in turn on `Room`, that the number
the drain chose without a lock is one that the collated buffers do not reach. `Counts` is the codec's test, `Streams` and `Thread` the thread
that switches. `Cleared` says that no drain begins while the marker is between the clearing and the test of ParseToDecode's flag, so that
it is not lost. `Screen` says that the manifestor shows no old frame behind a new one, so the switch is not complete while one is left.
TLC checked `SwitchIInv` on instances of two and three switches before it was proved.

Each action has its step lemma, and those rest on what is said of a ring when a buffer leaves or enters
it (`TailKeeps`, `AppendKeeps`, `JoinKeeps`, and for the three kinds of rings `CollatedTail`, `LineTail`, `ScreenTail` and so on) and on
`Stands`, for a step that leaves the calling thread alone and so the world. Where the world changes there are two more: the marker is launched,
which makes all new frames old (`WorldTurns`), or a frame of the new collator is injected (`WorldGrows`). The properties follow in a few steps each:
`NoCallIsStranded` because a call not yet performed is behind nothing but the one marker (`MarkerAhead`), `NobodyNeedsTheParser`
because when the last decode is out all that is in flight is new (`AllInFlightIsNew`), `FramesAreReleasedByTheirCodec` because `CodecReset` is set exactly
while the codec in use, or the halt, is that of another stream than an old frame's (`FrameGoesBack`).

**FrameReorder.** Frames reach the re-ordering table in decode order (`Order`: the numbers rise along the two
rings, and everything in the table is below what is still in them), and a command that came with a frame is not
performed before that frame (`Numbering`): this is all that `NotEarly` needs, and `OrderInv` is inductive by itself. That
a discarding drain leaves the table empty also needs to know where the display indices are given: `Indexing` says that a frame
without one is upstream of the next input jump, `Deferred` and `Markers` where the deferred references and the marker
are, and `Discards` that a discarding drain lets nothing in behind the jump. None of it needs a hypothesis about the constants.

That frames come out in display order (`FramesAreShownInOrder`) does: section 5 tells what goes wrong when only one frame may wait in
the table, and when a reference frame is dropped undecoded. DecodeToManifest counts in `DesiredFrameIndex` and corrects itself from
`NonDecodedBuffers`, `DisplayIndicesCollapse` and the size of the table; that this comes to the right order is nowhere local, so the
invariant has a part for each place an index has been. `Indices`: behind a frame there are lower indices only until the next
reference frame, and only if it is one, so at most one frame can be inverted against any other (`OneInverted`), which is where
two places in the table are enough. `Holes` and `Partition`: the frame that collapses holes, the jump and the marker of a drain that discards
part the indices cleanly, which is what makes it right to take the frame that collapses them at once. `DrainFlags` says when the flags
of that drain are set, `Doomed` which frames they make nobody show. `Recorded`: what the list and
`DisplayIndicesCollapse` tell DecodeToManifest not to wait for is out of the chain, and a recorded reference frame was
before all that is still to be shown. `Desired`: a frame whose index has been passed by is still upstream and next to come. `Turn`
is the state between the choice and the hand-over, and `Overtaken` is what makes `OutputInOrder` inductive: no frame that
is due has a lower index than one shown since the last marker. Each part has its step lemma; those rest on two lists of what a step can do,
to the indices (`ParserStep`) and to the places of the frames (`MovesStep`).

**Not proved.** Liveness, for which the prover has no rules for fairness and
ENABLED, is model-checked only (`DeleteCompletes`, `ReleaseCompletes`, `DrainEnds` and `DecoderGetsABuffer` among it), and so are everything about BufferPoolWait,
the drains that overlap or time out, and a switch among drains of other kinds. `InItsOwnHands` is model-checked only, too: it is
a statement about switches for which writers wait (`WriterWaits`), which no lock of the code sees to (section 5). No
module declares a RECURSIVE operator.

## 5. What was found

Two runs show the code do something else than its comments say:

- `allocator_lost`: the comment in Free says its loop "does concatenation of
  free blocks as well as freeing the current block". `LowestFreeBlock` is computed
  before the lock: two threads in Free can both take the entry behind the last, and
  the second overwrites the first, whose memory is gone for good. Two threads do free: the
  codec's callback and the decoding process drop references to coded buffers of one pool.
- `reorder_marker`: "If we get here with a marker frame, then we have emptied
  our accumulated list". In front of a drain that plays out there is no input jump, so the last
  reference frame has no display index when the marker arrives; DecodeToManifest
  passes the marker on and keeps the frame.

Found while modelling, and not kept as a run of their own:

- **Ring, a full ring** (`ring_generic.cpp:57`). A refused Insert makes
  `NextInsert` equal to `NextExtract` for a moment. An Extract that tests just then
  takes a full ring for an empty one and waits, and the refused Insert sets no event.
  `NoLostWakeup` excepts the full ring for that reason. With a bounded wait nothing
  is lost; `manifestor_clone.cpp:401` waits with OS_INFINITE, and does not look at
  the status of Extract either.
- **Pool, the destructor** (`buffer_pool_generic.cpp:842`). "Ensure no-one is
  waiting on anything" reads `BufferReleaseSignalWaitedOn` without the lock: a getter
  about to set it is overlooked, and one that another getter's wakeup cleared it
  for. `AbortEndsAll` speaks of the getters an abort reaches, unless the pool is gone
  first. Nor does TidyUp wait for them to leave before it deletes the event.
- **Pool, a failing GetBuffer** (505): the buffer extracted is not put back
  when its memory cannot be allocated; it is lost to the pool. `Conserved` counts it.
- **Drain, behind a drain that does not wait** (`player_playback.cpp:815`).
  "Just in case there is another marker frame doing the rounds" is looked for in the
  coded ring only. An earlier marker further down, whose message sets the one event
  `Drained`, ends the wait of the later drain early: `DrainedMeansDrained` fails once
  `NonBlockingCalls` has TRUE. The comment at `player_playback.cpp:535` counts on it:
  blocking drains follow the non-blocking ones of RemoveStream.
- **Drain, the last flag** (`player_process_decode_to_manifest.cpp:197`). The flag
  is cleared after the marker has been passed on. The drain can return and the next
  one set the flag in between; it is then cleared, and frames the new drain should
  discard are shown.
- **Drain, the codec's test** (`codec_mme_base.cpp:1605`). The test is made outside the
  lock, the take inside. A thread preempted between the two takes the marker of the next drain
  ahead of its decodes: with `Preempted` TRUE `DrainedMeansDrained` fails, and
  `drain_overlap` shows that even then no message and no flag is stranded. A second marker
  replaces one still held (621), which is let go of.
- **Drain, a lost marker** (`player_process_parse_to_decode.cpp:129`, `151`). ParseToDecode clears its flag for a marker and then tests it
  for the marker too. A discarding drain that begins between the two, behind one that does not wait, has the process drop the marker (188-209),
  and perform the calls behind it all the same (214). The messages further down are then kept until the marker of the second drain
  comes, which is the reason for the last clause of `NoMessageStranded`. If the lost marker is a switch's, ParseToDecode goes into SwitchCodec
  and CollateToParse is in SwitchFrameParser, both waiting for an event that DecodeToManifest sets behind that marker; the next marker is
  stuck in front of CollateToParse, so they wait until their time outs (1 s and 4 s), report, and go on. `NoCallStranded` excepts
  this (`Lost`). `switch` has LastDecodeLate FALSE, so it says nothing of what comes after the time outs; with LastDecodeLate TRUE see
  "late decodes" below.
- **Drain, three at once** (`player_process_collate_to_parse.cpp:142`). With three drains that overlap, the wait for
  "another marker frame doing the rounds" can end for an earlier marker's message while a later marker is still in the
  coded ring. Two markers are then in it, `MarkerInCodedFrameIndex` names only the last, and the earlier one is
  taken for an ordinary coded frame: it is renumbered, goes through the parser as a frame without data, and ends
  in DecodeToManifest's table for good. `MCStreamDrain` and `StreamSwitch` assume what excludes it (`OverlapAssumption`): with drains that do not wait, at
  most two, unless they are all of switches, which wait for each other.
- **Re-ordering, buffers.** With four decode buffers `MaxDecodesOutOfOrder` is 1 and
  `OutputInOrder` fails: a B picture behind two references is pushed out of turn. Streams with
  B pictures need five; the code only insists on `PLAYER_MINIMUM_NUMBER_OF_WORKING_CODEC_BUFFERS`.
- **Re-ordering, dropped references.** When the first frame after a
  discontinuity is dropped undecoded, `DisplayIndicesCollapse` jumps over frames
  still in the ring or table, and `OutputInOrder` fails ("Frame re-ordering failure ...
  Implementation error", DtoM:318). `reorder` assumes what `output_timer_base.cpp:458-670`
  does in normal play: only frames that no other frame refers to are dropped there.
- **Re-ordering, a late message** (DtoM:470). A message that arrives when its number has been seen is
  performed at once, though frames of lower numbers can still be in the table.
  The example in the comment at 297-303, "0 1 1 3", is not what the code gives (0 1 1 1).
- **Life cycle, the waits** (`player_playback.cpp:611`). Two event periods are 100 ms. SwitchFrameParser
  waits up to four seconds for its event and SwitchCodec one, and ParseToDecode can be in GetDecodeBuffer; the stream
  is destroyed all the same, with a report. With `LongEnough` FALSE `RingsOutOfUse` and `StreamOutOfUse` are
  violated at once.
- **Life cycle, what is let go of**. A process that meets `Terminating` with a buffer just extracted drops it, and the
  calls it keeps for later it only counts ("Holding control structures"): they are from the player's own pool of
  512, and never get back (place `Lost`).
- **Switch, the writers** (`dvb_video.c:982`, `dvb_audio.c:659`). A switch takes the device's lock, and those who write to it
  do not. With `WriterWaits` FALSE a frame of the new collator is ahead of the calls, and `InItsOwnHands` fails.
- **Switch, late decodes** (`player_switch.cpp:170`, `209`). Both waits report a time out and go on. With
  `LastDecodeLate` TRUE `NoOneNeedsTheParser` fails, and `NoCallStranded`, since the halt of the codec drops a marker it
  still holds; `PreviousOutOfUse`, `InItsOwnHands` and `ReleasedByItsCodec` hold even then (8.4 M states).
- **Switch, another drain** (`player_switch.cpp:295`). "We can safely mark the state of the codec as being initialized
  for this and subsequent frames": SwitchComplete is for "before" the number after the marker's, and any buffer with a higher number brings
  it about. A frame on display is not passed by the switch's own marker alone, but the marker of another drain, launched behind the switch, passes it
  too: the switch is then complete, and the frame goes back to a codec that did not decode it. `ReleasedByItsCodec` keeps its second half to switches
  without other drains (`SwitchesOnly`).
- **Without a model**: `player_playback.cpp:645` strips the rings as if the
  pokes (NULL) of ParseToDecode could not be among the entries, and 682 resets a
  manifestor that 601 found could be NULL; 600 halts the codec while ParseToDecode can be in its Input;
  821 lets go of a marker not yet obtained; SwitchStream goes on when its drain has failed;
  `manifestor_base.cpp:438` drops the oldest event of a full queue and returns success,
  where its contract says "failure if event queue full"; `buffer_pool_generic.cpp:640`
  area: an error return of ReleaseBuffer in a dynamic pool leaves `Lock` held; `buffer_individual_generic.cpp:609` clears an
  owner identifier behind the count, that of the next owner if the buffer has one by then; two threads in
  Allocate would share one event (the players have one);
  `codec_mme_base.cpp:1513` asks for the owner count and then decrements, so two
  owners that leave together can both see two, if one of them does not come through the codec.

## 6. What is not modelled

Formats (collators, frame parsers, codecs' commands), clock recovery and
synchronisation (output timer, coordinator), hardware (manifestors, mixers,
demultiplexor), the DVB and ALSA glue, imported drivers (`multicom`, `stgfb`,
frontends, `compcache`, wireless), the small device drivers, and the image build:
PROJECT.json has the reason for each. In the parts that are modelled:

- pools: meta data, registration of types, dynamic pools, shrink and expand, owner identifiers;
- streams: playbacks, the demultiplexor's attachment, the switch of an output timer, single step, reverse play, the time mapping itself;
- memory: the contents of buffers. Time: only as "the wait may end".

Memory is sequentially consistent in all models. The receivers have one CPU (ST40),
where preemption gives the same interleavings, up to what a compiler keeps in registers: the flags
are plain members read in loops with calls in between.

## 7. Plan

What is done is sections 2 to 4: the ring, the pool and its memory, the drain, the
re-ordering, the switch, the life cycle. What is left, in order of importance:

1. `EventQueue`: QueueEventSignal and ServiceEventQueue of the base manifestor, and the player's
   list of registered and signalled events. Abstract specification: a bounded queue that refuses.
2. `CodecBuffers`: decode contexts, `BufferState`, the reference frame list and the release by owner count.
3. `CloneRelease`: the thread of the clone manifestor, on Ring with OS_INFINITE.
4. `NonDecodedFrames`: the list and the collapse shared by ParseToDecode and DecodeToManifest, at the
   grain of single reads and writes.
5. An abstract switch (atomic, at the marker) that StreamSwitch is shown to implement, and an abstract
   re-ordering (a bag from which the least index is taken).

Theorems, in order: `NoMessageStranded` and `NoFlagStranded` for drains that overlap; the switch with other drains
around it, for which `Marker` has to speak of a sequence of markers.
