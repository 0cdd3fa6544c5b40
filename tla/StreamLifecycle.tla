---------------------------- MODULE StreamLifecycle ----------------------------
(* The life of a stream: AddStream starts a process for each ring,         *)
(* RemoveStream ends them and destroys what they share                     *)
(* (driver/player2/player/player/player_playback.cpp, and the first and    *)
(* last lines of the four player_process_*.cpp).                           *)
(*                                                                         *)
(* One event and one count tell the caller both that all processes run and *)
(* that all have ended; both waits give up after a time, and the caller    *)
(* reads the count without the lock it is written under.  A process p      *)
(* takes from ring p and feeds ring p + 1.                                 *)
EXTENDS Integers, FiniteSets

CONSTANTS ExpectedProcessCount, \* 4, or 2 without a manifestor
          Frames, Messages,     \* the buffers: with data, and calls in sequence
          LongEnough            \* whether the waits for the end are (Patience)

ASSUME ProcessesAssumption == ExpectedProcessCount \in Nat \ {0}
ASSUME BuffersAssumption == Frames \cap Messages = {}
ASSUME LongEnoughAssumption == LongEnough \in BOOLEAN

Processes == 1 .. ExpectedProcessCount
Buffers   == Frames \cup Messages

CollateToParse == 1
DecodeToManifest == 3
PostManifest == 4

VARIABLES pc,                  \* where the caller is in AddStream, CleanUp...
          created,             \* how many threads it has created
          proc,                \* where each process is
          ProcessRunningCount,
          StartStopEvent,
          Terminating,
          inList,              \* whether the playback lists the stream
          stripped,            \* how many rings are stripped and deleted
          where                \* where each buffer is

vars == <<pc, created, proc, ProcessRunningCount, StartStopEvent, Terminating,
          inList, stripped, where>>

caller == <<pc, created, Terminating, inList, stripped>>
count  == <<ProcessRunningCount, StartStopEvent>>

Free    == <<"free", 0>>
Lost    == <<"lost", 0>>
Ring(p) == <<"ring", p>>
Hand(p) == <<"hand", p>>  \* just extracted
Kept(p) == <<"kept", p>>  \* in one of the tables of p, for later
At(place) == {b \in Buffers : where[b] = place}

Init ==
  /\ pc = "setup" /\ created = 0
  /\ proc = [p \in Processes |-> "none"]
  /\ ProcessRunningCount = 0
  /\ StartStopEvent = FALSE
  /\ Terminating = FALSE
  /\ inList = FALSE
  /\ stripped = 0
  /\ where = [b \in Buffers |-> Free]

-----------------------------------------------------------------------------
(* A process.  Its count is changed, and the event set, under the Lock of  *)
(* the player: it is "counted" or "uncounted" while it has it.             *)

HasLock(p) == proc[p] \in {"counted", "uncounted"}
LockFree == \A p \in Processes : ~HasLock(p)

Goto(p, place) == proc' = [proc EXCEPT ![p] = place]
Move(b, place) == where' = [where EXCEPT ![b] = place]

Start(p) ==
  /\ proc[p] = "created" /\ LockFree
  /\ ProcessRunningCount' = ProcessRunningCount + 1
  /\ Goto(p, "counted")
  /\ UNCHANGED <<caller, StartStopEvent, where>>

\* Whether the count the process has reached is worth the event.
Signals(n) == ProcessRunningCount = n

Started(p) ==
  /\ proc[p] = "counted"
  /\ StartStopEvent' = (StartStopEvent \/ Signals(ExpectedProcessCount))
  /\ Goto(p, "loop")
  /\ UNCHANGED <<caller, ProcessRunningCount, where>>

\* Mutant: a process that keeps something goes on until it is rid of it.
GoesOnWhileKept(p) == ~Terminating \/ At(Kept(p)) # {}

GoesOn(p) == ~Terminating

(* The test of the loop.  DecodeToManifest looks into its table of frames  *)
(* before it looks into its ring.                                          *)
Test(p) ==
  /\ proc[p] = "loop"
  /\ \/ ~GoesOn(p) /\ Goto(p, "leaving")
     \/ GoesOn(p) /\ Goto(p, "extract")
     \/ GoesOn(p) /\ p = DecodeToManifest /\ At(Kept(p)) # {} /\ Goto(p, "work")
  /\ UNCHANGED <<caller, count, where>>

NothingToGet(p) ==
  /\ proc[p] = "extract" /\ At(Ring(p)) = {}
  /\ Goto(p, "loop")
  /\ UNCHANGED <<caller, count, where>>

(* All but PostManifest test Terminating again, and then let go of what    *)
(* they have just extracted without releasing it.                          *)
Extract(p) ==
  /\ proc[p] = "extract"
  /\ \E b \in At(Ring(p)) :
       IF Terminating /\ p # PostManifest
       THEN Move(b, Lost) /\ Goto(p, "loop")
       ELSE Move(b, Hand(p)) /\ Goto(p, "work")
  /\ UNCHANGED <<caller, count>>

\* Where a frame goes from p, if it does: PostManifest may have the
\* manifestor show one again, without a manifestor ParseToDecode is the last.
HasNext(p) == p = PostManifest \/ p + 1 \in Processes
Onwards(p) == IF p = PostManifest THEN Ring(p) ELSE Ring(p + 1)

(* What p does with a buffer: a frame goes on, or is released; a message   *)
(* is performed and released; either may wait in a table.                  *)
Handle(p) ==
  /\ proc[p] = "work"
  /\ \E b \in At(Hand(p)) \cup At(Kept(p)) :
       \/ Move(b, Free)
       \/ b \in Frames /\ HasNext(p) /\ Move(b, Onwards(p))
       \/ /\ where[b] = Hand(p)
          /\ b \in Messages \/ p = DecodeToManifest
          /\ Move(b, Kept(p))
  /\ UNCHANGED <<caller, count, proc>>

Done(p) ==
  /\ proc[p] = "work" /\ At(Hand(p)) = {}
  /\ Goto(p, "loop")
  /\ UNCHANGED <<caller, count, where>>

(* The lines behind the loop: DecodeToManifest releases its table of       *)
(* frames; the messages that wait are let go of.                           *)
Stop(p) ==
  /\ proc[p] = "leaving" /\ LockFree
  /\ where' = [b \in Buffers |->
                 IF where[b] # Kept(p) THEN where[b]
                 ELSE IF b \in Frames THEN Free ELSE Lost]
  /\ ProcessRunningCount' = ProcessRunningCount - 1
  /\ Goto(p, "uncounted")
  /\ UNCHANGED <<caller, StartStopEvent>>

Stopped(p) ==
  /\ proc[p] = "uncounted"
  /\ StartStopEvent' = (StartStopEvent \/ Signals(0))
  /\ Goto(p, "gone")
  /\ UNCHANGED <<caller, ProcessRunningCount, where>>

-----------------------------------------------------------------------------
(* AddStream                                                               *)

From(here, there) == pc = here /\ pc' = there

\* The pools or the rings cannot be had.
SetupFails ==
  /\ From("setup", "reset")
  /\ UNCHANGED <<created, proc, count, Terminating, inList, stripped, where>>

Setup ==
  /\ From("setup", "create")
  /\ StartStopEvent' = FALSE
  /\ UNCHANGED <<created, proc, ProcessRunningCount, Terminating, inList,
                 stripped, where>>

CreateThread ==
  /\ pc = "create" /\ created < ExpectedProcessCount
  /\ created' = created + 1
  /\ proc' = [proc EXCEPT ![created + 1] = "created"]
  /\ UNCHANGED <<pc, count, Terminating, inList, stripped, where>>

\* Mutant: the processes that do run are not told.
GiveUpSilently == UNCHANGED Terminating

GiveUp == Terminating' = TRUE

CreateThreadFails ==
  /\ created < ExpectedProcessCount
  /\ From("create", "sleep")
  /\ GiveUp
  /\ UNCHANGED <<created, proc, count, inList, stripped, where>>

\* The wait ends with the event, or, when some are slow, without it: the
\* event is not read again.
WaitForStart ==
  /\ created = ExpectedProcessCount
  /\ From("create", "started")
  /\ UNCHANGED <<created, proc, count, Terminating, inList, stripped, where>>

\* Mutant: the wait is trusted to have ended with the event.
AllRunAlways == TRUE

AllRun == ProcessRunningCount = ExpectedProcessCount

StartFails ==
  /\ ~AllRun /\ From("started", "sleep")
  /\ GiveUp
  /\ UNCHANGED <<created, proc, count, inList, stripped, where>>

\* Mutant: the list is changed without the lock.
HaveLockAlways == TRUE

HaveLock == LockFree

InsertInList ==
  /\ AllRun /\ HaveLock /\ From("started", "register")
  /\ inList' = TRUE
  /\ UNCHANGED <<created, proc, count, Terminating, stripped, where>>

(* How long the waits for the end are: "a simple delay to shut down the    *)
(* threads".  If they are long enough, then only the last lines of the     *)
(* processes, under the lock, can be left when they are over.              *)
Out(p) == proc[p] \in {"none", "uncounted", "gone"}
Patience == LongEnough => \A p \in Processes : Out(p)

Sleep ==
  /\ Patience /\ From("sleep", "reset")
  /\ ProcessRunningCount' = 0
  /\ UNCHANGED <<created, proc, StartStopEvent, Terminating, inList, stripped,
                 where>>

Register ==
  /\ \/ From("register", "live")
     \/ From("register", "reset")
  /\ UNCHANGED <<created, proc, count, Terminating, inList, stripped, where>>

(* While it lives: what the collator feeds, and the calls in sequence, of  *)
(* which AddStream makes one itself, for the event it may have to signal.  *)
Feed ==
  /\ pc = "live"
  /\ \E b \in Frames \cap At(Free) : Move(b, Ring(CollateToParse))
  /\ UNCHANGED <<caller, count, proc>>

CallInSequence ==
  /\ pc \in {"register", "live"}
  /\ \E b \in Messages \cap At(Free), p \in Processes :
       /\ pc = "register" => p = DecodeToManifest
       /\ Move(b, Ring(p))
  /\ UNCHANGED <<caller, count, proc>>
-----------------------------------------------------------------------------
(* RemoveStream, behind its drain, which may have failed, and              *)
(* CleanUpAfterStream.  The classes are halted between ResetEvent and      *)
(* Terminate.                                                              *)

RemoveStream ==
  /\ From("live", "reset")
  /\ UNCHANGED <<created, proc, count, Terminating, inList, stripped, where>>

\* Mutant: the event of the start is still set when the end is awaited.
ClearedNot == StartStopEvent

Cleared == FALSE

ResetEvent ==
  /\ From("reset", "terminate")
  /\ StartStopEvent' = Cleared
  /\ UNCHANGED <<created, proc, ProcessRunningCount, Terminating, inList,
                 stripped, where>>

Terminate ==
  /\ From("terminate", "stop")
  /\ Terminating' = TRUE
  /\ UNCHANGED <<created, proc, count, inList, stripped, where>>

NoneToWaitFor ==
  /\ ProcessRunningCount = 0 /\ From("stop", "strip")
  /\ UNCHANGED <<created, proc, count, Terminating, inList, stripped, where>>

WaitForStop ==
  /\ ProcessRunningCount # 0 /\ From("stop", "wait")
  /\ UNCHANGED <<created, proc, count, Terminating, inList, stripped, where>>

WaitEnds ==
  /\ StartStopEvent \/ Patience
  /\ From("wait", "strip")
  /\ UNCHANGED <<created, proc, count, Terminating, inList, stripped, where>>

\* The ring that is stripped next.
Stripping == stripped + 1

Strip ==
  /\ pc = "strip" /\ stripped < ExpectedProcessCount
  /\ \E b \in At(Ring(Stripping)) : Move(b, Free)
  /\ UNCHANGED <<caller, count, proc>>

\* Mutant: a ring is deleted with what is in it.
RingEmptyAlways(p) == TRUE

RingEmpty(p) == At(Ring(p)) = {}

DeleteRing ==
  /\ pc = "strip" /\ stripped < ExpectedProcessCount
  /\ RingEmpty(Stripping)
  /\ stripped' = Stripping
  /\ UNCHANGED <<pc, created, proc, count, Terminating, inList, where>>

ExtractFromList ==
  /\ stripped = ExpectedProcessCount /\ HaveLock
  /\ From("strip", "delete")
  /\ inList' = FALSE
  /\ UNCHANGED <<created, proc, count, Terminating, stripped, where>>

\* The classes are reset, then the events and the stream destroyed.
Delete ==
  /\ From("delete", "deleted")
  /\ UNCHANGED <<created, proc, count, Terminating, inList, stripped, where>>

-----------------------------------------------------------------------------
Process(p) ==
  \/ Start(p) \/ Started(p)
  \/ Test(p) \/ NothingToGet(p) \/ Extract(p) \/ Handle(p) \/ Done(p)
  \/ Stop(p) \/ Stopped(p)

Adding ==
  \/ SetupFails \/ Setup \/ CreateThread \/ CreateThreadFails
  \/ WaitForStart \/ StartFails \/ InsertInList \/ Sleep \/ Register

CleaningUp ==
  \/ ResetEvent \/ Terminate \/ NoneToWaitFor \/ WaitForStop \/ WaitEnds
  \/ Strip \/ DeleteRing \/ ExtractFromList \/ Delete

Next == \/ \E p \in Processes : Process(p)
        \/ Adding \/ CleaningUp
        \/ Feed \/ CallInSequence \/ RemoveStream

Spec == Init /\ [][Next]_vars

(* The threads and the caller go on: no process waits in a place that      *)
(* Terminating, or the time a call takes, does not end.  Nobody has to     *)
(* feed a stream or to remove it.                                          *)
LiveSpec == /\ Spec
            /\ \A p \in Processes : WF_vars(Process(p))
            /\ WF_vars(Adding) /\ WF_vars(CleaningUp)
-----------------------------------------------------------------------------
InLoop == {"loop", "extract", "work"}
Places == {"none", "created", "counted", "leaving", "uncounted", "gone"}
            \cup InLoop
Stages == {"setup", "create", "started", "sleep", "register", "live", "reset",
           "terminate", "stop", "wait", "strip", "delete", "deleted"}

TypeOK ==
  /\ pc \in Stages
  /\ created \in 0 .. ExpectedProcessCount
  /\ proc \in [Processes -> Places]
  /\ ProcessRunningCount \in Int
  /\ StartStopEvent \in BOOLEAN /\ Terminating \in BOOLEAN
  /\ inList \in BOOLEAN
  /\ stripped \in 0 .. ExpectedProcessCount
  /\ where \in [Buffers -> {Free, Lost} \cup
                             ({"ring", "hand", "kept"} \X Processes)]

(* The rings are stripped and deleted when no process can come to them any *)
(* more, though the one event of the wait also tells of the start, and the *)
(* count is read without the lock (CleanUpAfterStream, "Strip the rings"). *)
RingsOutOfUse ==
  pc \in {"strip", "delete", "deleted"} =>
    \A p \in Processes : proc[p] \notin InLoop \cup {"created"}

(* The event and the stream are destroyed when the last process, which may *)
(* have told of its end by the count and be about to set the event, is     *)
(* done with them: only the lock of the list, which the caller takes       *)
(* behind its wait, keeps it from being too early.                         *)
StreamOutOfUse ==
  pc \in {"delete", "deleted"} =>
    \A p \in Processes : proc[p] \in {"none", "gone"}

(* AddStream reports success, and lists the stream, when every process     *)
(* runs and the event of their start is behind: nobody is left to set it   *)
(* when CleanUpAfterStream has reset it.                                   *)
ListedMeansRunning ==
  pc \in {"register", "live"} =>
    inList /\ \A p \in Processes : proc[p] \in InLoop

(* What a process puts into the ring of one that has already ended is      *)
(* released with it: a stream ends with no buffer in a ring or a hand.     *)
NothingLeftInRings ==
  pc = "deleted" =>
    \A b \in Buffers : where[b] \in {Free, Lost}

(* What the caller waits for comes: every process ends once Terminating is *)
(* set, whatever it was doing and keeps, and the stream is then destroyed, *)
(* whether it was removed or could not be added.                           *)
ProcessesEnd ==
  Terminating ~> (\A p \in Processes : proc[p] \in {"none", "gone"})
CleanUpEnds  == pc \in {"sleep", "reset"} ~> pc = "deleted"
-----------------------------------------------------------------------------
(* What the safety rests on, for every step when LongEnough holds.         *)

Counted == {p \in Processes : proc[p] \in InLoop \cup {"counted", "leaving"}}
CountExact == ProcessRunningCount = Cardinality(Counted)

OneHasLock == \A p, q \in Processes : HasLock(p) /\ HasLock(q) => p = q

AllIn(places) == \A p \in Processes : proc[p] \in places
Over   == {"none", "uncounted", "gone"}
Ending == InLoop \cup {"leaving", "uncounted", "gone"}

\* From the first stage to the last: which processes there can be.
BeforeTheEnd ==
  /\ pc = "setup" => created = 0
  /\ pc \in {"setup", "create"} =>
       \A p \in Processes : p > created => proc[p] = "none"
  /\ pc \in {"setup", "create", "started", "register", "live"} => ~Terminating
  /\ pc \in {"register", "live"} => inList /\ AllIn(InLoop)

TheEnd ==
  /\ \A p \in Processes :
       proc[p] \in {"leaving", "uncounted", "gone"} => Terminating
  /\ pc \in {"reset", "terminate"} =>
       \/ AllIn(Over)
       \/ AllIn(InLoop) /\ ~Terminating /\ (pc = "terminate" => ~StartStopEvent)
  /\ pc \in {"stop", "wait"} =>
       \/ AllIn(Over)
       \/ AllIn(Ending) /\ ~StartStopEvent
  /\ pc = "strip" => AllIn(Over)
  /\ pc \in {"delete", "deleted"} => AllIn({"none", "gone"})

\* A ring that is deleted is empty, and a hand or a table has its process.
BuffersPlaced ==
  /\ pc \notin {"strip", "delete", "deleted"} => stripped = 0
  /\ pc \in {"delete", "deleted"} => stripped = ExpectedProcessCount
  /\ \A b \in Buffers, p \in Processes :
       /\ where[b] = Ring(p) => p > stripped
       /\ where[b] = Hand(p) => proc[p] = "work"
       /\ where[b] = Kept(p) => proc[p] \in InLoop \cup {"leaving"}

IInv == /\ TypeOK /\ CountExact /\ OneHasLock
        /\ BeforeTheEnd /\ TheEnd /\ BuffersPlaced
=============================================================================
