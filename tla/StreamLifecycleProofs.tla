------------------------ MODULE StreamLifecycleProofs ------------------------
(* StreamLifecycle, for any number of processes and any buffers: if the    *)
(* waits for the end are long enough, nothing is destroyed that a process  *)
(* still uses, and no buffer is left in a ring.                            *)
EXTENDS StreamLifecycle, FiniteSetTheorems, TLAPS

\* The steps of the caller by what they change.
Advancing ==
  \/ SetupFails \/ CreateThreadFails \/ WaitForStart \/ StartFails
  \/ InsertInList \/ Register \/ RemoveStream \/ Terminate
  \/ NoneToWaitFor \/ WaitForStop \/ WaitEnds \/ DeleteRing
  \/ ExtractFromList \/ Delete
Clearing == Setup \/ ResetEvent
Placing  == Feed \/ CallInSequence \/ Strip

LEMMA CountedFinite ==
  /\ IsFiniteSet(Counted) /\ Cardinality(Counted) \in Nat
  /\ IsFiniteSet(Processes) /\ Cardinality(Processes) = ExpectedProcessCount
  <1>1. Counted \in SUBSET Processes
    BY DEF Counted
  <1>2. /\ IsFiniteSet(Processes)
        /\ Cardinality(Processes) = ExpectedProcessCount
    BY ProcessesAssumption, FS_Interval DEF Processes
  <1>3. QED BY <1>1, <1>2, FS_Subset, FS_CardinalityType

\* What the two comparisons of the count tell.
LEMMA CountTells ==
  ASSUME TypeOK, CountExact
  PROVE  /\ ProcessRunningCount = 0 => Counted = {}
         /\ AllRun => Counted = Processes
  <1>1. Counted \in SUBSET Processes
    BY DEF Counted
  <1>2. ProcessRunningCount = 0 => Counted = {}
    BY CountedFinite, FS_EmptySet DEF CountExact
  <1>3. AllRun => Counted = Processes
    BY <1>1, CountedFinite, FS_Subset DEF CountExact, AllRun
  <1>4. QED BY <1>2, <1>3

\* A process that is in none of the counted places, and none that is not.
LEMMA NobodyCounted ==
  ASSUME TypeOK, CountExact, ProcessRunningCount = 0, AllIn(Ending)
  PROVE  AllIn(Over)
  <1>1. Counted = {}
    BY CountTells
  <1>2. QED BY <1>1 DEF Counted, AllIn, Ending, Over, InLoop

-----------------------------------------------------------------------------
LEMMA InitIInv == Init => IInv
  <1> SUFFICES ASSUME Init PROVE IInv OBVIOUS
  <1>1. TypeOK
    <2>1. created \in 0 .. ExpectedProcessCount /\ stripped = created
      BY ProcessesAssumption DEF Init
    <2>2. where \in [Buffers -> {Free, Lost} \cup
                                 ({"ring", "hand", "kept"} \X Processes)]
      <3> DEFINE Wheres == {Free, Lost} \cup
                             ({"ring", "hand", "kept"} \X Processes)
      <3>1. Free \in Wheres
        OBVIOUS
      <3> HIDE DEF Wheres
      <3>2. where \in [Buffers -> Wheres]
        BY <3>1 DEF Init
      <3>3. QED BY <3>2 DEF Wheres
    <2>3. proc \in [Processes -> Places]
      BY DEF Init, Places
    <2>4. pc \in Stages /\ ProcessRunningCount \in Int
      BY DEF Init, Stages
    <2>5. QED BY <2>1, <2>2, <2>3, <2>4 DEF Init, TypeOK
  <1>2. CountExact
    <2>1. Counted = {}
      BY DEF Init, Counted, InLoop
    <2>2. QED BY <2>1, FS_EmptySet DEF Init, CountExact
  <1>3. OneHasLock
    BY DEF Init, OneHasLock, HasLock
  <1>4. BeforeTheEnd /\ TheEnd
    BY DEF Init, BeforeTheEnd, TheEnd
  <1>5. BuffersPlaced
    BY ProcessesAssumption
       DEF Init, BuffersPlaced, Free, Ring, Hand, Kept, Processes
  <1>6. QED BY <1>1, <1>2, <1>3, <1>4, <1>5 DEF IInv

-----------------------------------------------------------------------------
(* Types.                                                                  *)

\* Where a step can put a buffer.
LEMMA Destinations ==
  ASSUME TypeOK, NEW b \in Buffers, NEW place,
         \/ place \in {Free, Lost}
         \/ \E p \in Processes : place \in {Ring(p), Hand(p), Kept(p)},
         Move(b, place)
  PROVE  where' \in [Buffers -> {Free, Lost} \cup
                                  ({"ring", "hand", "kept"} \X Processes)]
  <1>1. place \in {Free, Lost} \cup ({"ring", "hand", "kept"} \X Processes)
    BY DEF Ring, Hand, Kept
  <1>2. QED BY <1>1 DEF TypeOK, Move

LEMMA OnwardsIsARing ==
  ASSUME NEW p \in Processes, HasNext(p)
  PROVE  \E q \in Processes : Onwards(p) = Ring(q)
  BY DEF HasNext, Onwards

LEMMA TypeStep == ASSUME TypeOK, [Next]_vars PROVE TypeOK'
  <1> DEFINE Wheres == {Free, Lost} \cup
                         ({"ring", "hand", "kept"} \X Processes)
  <1>1. CASE UNCHANGED vars
    BY <1>1 DEF vars, TypeOK
  <1>2. ASSUME NEW p \in Processes, Process(p) PROVE TypeOK'
    <2>1. where' \in [Buffers -> Wheres]
      <3>1. CASE Extract(p)
        <4>1. PICK b \in Buffers : Move(b, Lost) \/ Move(b, Hand(p))
          BY <3>1 DEF Extract, At
        <4>2. QED BY <4>1, Destinations
      <3>2. CASE Handle(p)
        <4>1. PICK b \in Buffers : \/ Move(b, Free) \/ Move(b, Kept(p))
                                   \/ HasNext(p) /\ Move(b, Onwards(p))
          BY <3>2 DEF Handle, At
        <4>2. QED BY <4>1, Destinations, OnwardsIsARing
      <3>3. CASE Stop(p)
        BY <3>3 DEF Stop, TypeOK
      <3>4. CASE UNCHANGED where
        BY <3>4 DEF TypeOK
      <3>5. QED BY <1>2, <3>1, <3>2, <3>3, <3>4
                   DEF Process, Start, Started, Test, NothingToGet, Done, Stopped
    <2>2. proc' \in [Processes -> Places]
      BY <1>2 DEF Process, Start, Started, Test, NothingToGet, Extract, Handle,
                  Done, Stop, Stopped, Goto, Places, InLoop, TypeOK
    <2>3. /\ ProcessRunningCount' \in Int
          /\ StartStopEvent' \in BOOLEAN
      <3>1. CASE Started(p) \/ Stopped(p)
        BY <3>1 DEF Started, Stopped, TypeOK
      <3>2. CASE ~Started(p) /\ ~Stopped(p)
        BY <1>2, <3>2 DEF Process, Start, Test, NothingToGet, Extract, Handle,
                          Done, Stop, count, TypeOK
      <3>3. QED BY <3>1, <3>2
    <2>4. UNCHANGED caller
      BY <1>2 DEF Process, Start, Started, Test, NothingToGet, Extract, Handle,
                  Done, Stop, Stopped
    <2>5. QED BY <2>1, <2>2, <2>3, <2>4 DEF TypeOK, caller
  <1>3. CASE Advancing
    <2> USE DEF SetupFails, CreateThreadFails, WaitForStart, StartFails,
                InsertInList, Register, RemoveStream, Terminate, NoneToWaitFor,
                WaitForStop, WaitEnds, DeleteRing, ExtractFromList, Delete
    <2>1. pc' \in Stages
      BY <1>3 DEF Advancing, From, Stages, TypeOK
    <2>2. Terminating' \in BOOLEAN /\ inList' \in BOOLEAN
      BY <1>3 DEF Advancing, GiveUp, TypeOK
    <2>3. stripped' \in 0 .. ExpectedProcessCount
      <3>1. CASE DeleteRing
        BY <3>1, ProcessesAssumption DEF Stripping, TypeOK
      <3>2. CASE ~DeleteRing
        BY <1>3, <3>2 DEF Advancing, TypeOK
      <3>3. QED BY <3>1, <3>2
    <2>4. UNCHANGED <<created, proc, count, where>>
      BY <1>3 DEF Advancing
    <2>5. QED BY <2>1, <2>2, <2>3, <2>4 DEF TypeOK, count
  <1>4. CASE Clearing
    BY <1>4 DEF Clearing, Setup, ResetEvent, Cleared, From, TypeOK, Stages
  <1>5. CASE CreateThread
    <2>1. created + 1 \in Processes
      BY <1>5, ProcessesAssumption DEF CreateThread, TypeOK, Processes
    <2>2. QED BY <1>5, <2>1, ProcessesAssumption
                 DEF CreateThread, count, TypeOK, Places
  <1>6. CASE Sleep
    BY <1>6 DEF Sleep, From, TypeOK, Stages
  <1>7. CASE Placing
    <2>1. PICK b \in Buffers :
             \/ Move(b, Ring(CollateToParse))
             \/ \E p \in Processes : Move(b, Ring(p))
             \/ Move(b, Free)
      BY <1>7 DEF Placing, Feed, CallInSequence, Strip, At, Buffers
    <2>2. CollateToParse \in Processes
      BY ProcessesAssumption DEF CollateToParse, Processes
    <2>3. where' \in [Buffers -> Wheres]
      BY <2>1, <2>2, Destinations
    <2>4. QED BY <1>7, <2>3
                 DEF Placing, Feed, CallInSequence, Strip, caller, count, TypeOK
  <1>8. QED
    BY <1>1, <1>2, <1>3, <1>4, <1>5, <1>6, <1>7
       DEF Next, Adding, CleaningUp, Advancing, Clearing, Placing

-----------------------------------------------------------------------------
(* The lock and the count.                                                 *)

\* A thread is only created where there was none.
LEMMA CreatedWhereNone ==
  ASSUME TypeOK, BeforeTheEnd, CreateThread
  PROVE  /\ created + 1 \in Processes /\ proc[created + 1] = "none"
         /\ proc' = [proc EXCEPT ![created + 1] = "created"]
  <1>1. created + 1 \in Processes
    BY ProcessesAssumption DEF CreateThread, TypeOK, Processes
  <1>2. created + 1 > created
    BY DEF TypeOK
  <1>3. QED BY <1>1, <1>2 DEF CreateThread, BeforeTheEnd

LEMMA CallerKeepsProc ==
  ASSUME Advancing \/ Clearing \/ Sleep \/ Placing
  PROVE  UNCHANGED proc
  BY DEF Advancing, SetupFails, CreateThreadFails, WaitForStart, StartFails,
     InsertInList, Register, RemoveStream, Terminate, NoneToWaitFor,
     WaitForStop, WaitEnds, DeleteRing, ExtractFromList, Delete,
     Clearing, Setup, ResetEvent, Sleep, Placing, Feed, CallInSequence, Strip

LEMMA LockStep ==
  ASSUME TypeOK, BeforeTheEnd, OneHasLock, [Next]_vars PROVE OneHasLock'
  <1> USE DEF OneHasLock, HasLock
  <1>1. CASE UNCHANGED proc
    BY <1>1
  <1>2. CASE CreateThread
    BY <1>2, CreatedWhereNone DEF TypeOK
  <1>3. ASSUME NEW p \in Processes, Process(p) PROVE OneHasLock'
    <2>1. CASE Start(p) \/ Stop(p)
      BY <2>1 DEF Start, Stop, LockFree, Goto, TypeOK
    <2>2. CASE ~Start(p) /\ ~Stop(p)
      BY <1>3, <2>2 DEF Process, Started, Test, NothingToGet, Extract, Handle,
                        Done, Stopped, Goto, TypeOK
    <2>3. QED BY <2>1, <2>2
  <1>4. CASE UNCHANGED vars
    BY <1>4 DEF vars
  <1>5. QED
    BY <1>1, <1>2, <1>3, <1>4, CallerKeepsProc
       DEF Next, Adding, CleaningUp, Advancing, Clearing, Placing

LEMMA CountStep ==
  ASSUME LongEnough, TypeOK, BeforeTheEnd, CountExact, [Next]_vars
  PROVE  CountExact'
  <1> USE DEF CountExact
  <1>1. CASE UNCHANGED <<proc, ProcessRunningCount>>
    BY <1>1 DEF Counted
  <1>2. CASE CreateThread
    <2>1. Counted' = Counted
      BY <1>2, CreatedWhereNone DEF Counted, InLoop, TypeOK
    <2>2. QED BY <1>2, <2>1 DEF CreateThread, count
  <1>3. ASSUME NEW p \in Processes, Process(p) PROVE CountExact'
    <2>1. CASE Start(p)
      <3>1. Counted' = Counted \cup {p} /\ p \notin Counted
        BY <2>1 DEF Start, Goto, Counted, InLoop, TypeOK
      <3>2. Cardinality(Counted \cup {p}) = Cardinality(Counted) + 1
        BY <3>1, CountedFinite, FS_AddElement
      <3>3. QED BY <2>1, <3>1, <3>2 DEF Start
    <2>2. CASE Stop(p)
      <3>1. Counted' = Counted \ {p} /\ p \in Counted
        BY <2>2 DEF Stop, Goto, Counted, InLoop, TypeOK
      <3>2. Cardinality(Counted \ {p}) = Cardinality(Counted) - 1
        BY <3>1, CountedFinite, FS_RemoveElement
      <3>3. QED BY <2>2, <3>1, <3>2 DEF Stop
    <2>3. CASE ~Start(p) /\ ~Stop(p)
      <3>1. Counted' = Counted
        BY <1>3, <2>3 DEF Process, Started, Test, NothingToGet, Extract, Handle,
                          Done, Stopped, Goto, Counted, InLoop, TypeOK
      <3>2. UNCHANGED ProcessRunningCount
        BY <1>3, <2>3 DEF Process, Started, Test, NothingToGet, Extract, Handle,
                          Done, Stopped, count
      <3>3. QED BY <3>1, <3>2
    <2>4. QED BY <2>1, <2>2, <2>3
  <1>4. CASE Sleep
    <2>1. Counted = {}
      BY <1>4 DEF Sleep, Patience, Out, Counted, InLoop
    <2>2. Counted' = {}
      BY <1>4, <2>1 DEF Sleep, Counted
    <2>3. QED BY <1>4, <2>2, FS_EmptySet DEF Sleep
  <1>5. CASE UNCHANGED vars
    BY <1>1, <1>5 DEF vars
  <1>6. CASE Advancing
    <2>1. UNCHANGED count
      BY <1>6 DEF Advancing, SetupFails, CreateThreadFails, WaitForStart,
         StartFails, InsertInList, Register, RemoveStream, Terminate,
         NoneToWaitFor, WaitForStop, WaitEnds, DeleteRing, ExtractFromList,
         Delete
    <2>2. QED BY <1>1, <1>6, <2>1, CallerKeepsProc DEF count
  <1>7. CASE Clearing \/ Placing
    <2>1. UNCHANGED ProcessRunningCount
      BY <1>7 DEF Clearing, Setup, ResetEvent, Placing, Feed, CallInSequence,
                  Strip, count
    <2>2. QED BY <1>1, <1>7, <2>1, CallerKeepsProc
  <1>8. QED
    BY <1>2, <1>3, <1>4, <1>5, <1>6, <1>7
       DEF Next, Adding, CleaningUp, Advancing, Clearing, Placing

-----------------------------------------------------------------------------
(* Which processes there can be at each stage of the caller.               *)

\* What a step of a process does to the sets of places that matter.
LEMMA ProcessMoves ==
  ASSUME TypeOK, NEW p \in Processes, Process(p)
  PROVE  /\ UNCHANGED caller
         /\ \A q \in Processes \ {p} : proc'[q] = proc[q]
         /\ proc[p] # "none"
         /\ proc[p] \in InLoop /\ ~Terminating => proc'[p] \in InLoop
         /\ proc[p] \in Over => proc[p] = "uncounted" /\ proc'[p] = "gone"
         /\ proc[p] \in Ending => proc'[p] \in Ending
         /\ proc'[p] \in {"leaving", "uncounted", "gone"} =>
              Terminating \/ proc[p] \in {"leaving", "uncounted", "gone"}
  <1>1. UNCHANGED caller
    BY DEF Process, Start, Started, Test, NothingToGet, Extract, Handle, Done,
           Stop, Stopped
  <1>2. \A q \in Processes \ {p} : proc'[q] = proc[q]
    BY DEF Process, Start, Started, Test, NothingToGet, Extract, Handle, Done,
           Stop, Stopped, Goto, TypeOK
  <1>3. \/ proc[p] = "created" /\ proc'[p] = "counted"
        \/ proc[p] = "counted" /\ proc'[p] = "loop"
        \/ proc[p] = "loop" /\ Terminating /\ proc'[p] = "leaving"
        \/ proc[p] = "loop" /\ proc'[p] \in {"extract", "work"}
        \/ proc[p] = "extract" /\ proc'[p] \in {"loop", "work"}
        \/ proc[p] = "work" /\ proc'[p] \in {"work", "loop"}
        \/ proc[p] = "leaving" /\ proc'[p] = "uncounted"
        \/ proc[p] = "uncounted" /\ proc'[p] = "gone"
    BY DEF Process, Start, Started, Test, NothingToGet, Extract, Handle, Done,
           Stop, Stopped, Goto, GoesOn, TypeOK
  <1>4. QED BY <1>1, <1>2, <1>3 DEF InLoop, Over, Ending

LEMMA BeforeStep ==
  ASSUME TypeOK, CountExact, BeforeTheEnd, TheEnd, [Next]_vars
  PROVE  BeforeTheEnd'
  <1>1. CASE UNCHANGED vars
    BY <1>1 DEF vars, BeforeTheEnd, AllIn
  <1>2. ASSUME NEW p \in Processes, Process(p) PROVE BeforeTheEnd'
    <2>1. UNCHANGED <<pc, created, Terminating, inList>>
      BY <1>2, ProcessMoves DEF caller
    <2>2. (\A q \in Processes : q > created => proc[q] = "none")
            => (\A q \in Processes : q > created => proc'[q] = "none")
      BY <1>2, ProcessMoves
    <2>3. ~Terminating /\ AllIn(InLoop) => AllIn(InLoop)'
      BY <1>2, ProcessMoves DEF AllIn, InLoop
    <2>4. QED BY <2>1, <2>2, <2>3 DEF BeforeTheEnd
  <1>3. CASE CreateThread
    <2>1. \A q \in Processes : q > created + 1 =>
            q > created /\ q # created + 1
      BY DEF TypeOK, Processes
    <2>2. QED
      BY <1>3, <2>1, CreatedWhereNone DEF CreateThread, BeforeTheEnd, TypeOK
  <1>4. CASE InsertInList
    <2>1. Counted = Processes
      BY <1>4, CountTells DEF InsertInList
    <2>2. ~Terminating
      BY <1>4 DEF InsertInList, From, BeforeTheEnd
    <2>3. AllIn(InLoop)
      BY <1>4, <2>1, <2>2 DEF InsertInList, HaveLock, LockFree, HasLock,
         Counted, AllIn, TheEnd
    <2>4. QED
      BY <1>4, <2>2, <2>3 DEF InsertInList, From, BeforeTheEnd, AllIn
  <1>5. CASE Register
    BY <1>5 DEF Register, From, BeforeTheEnd, AllIn
  <1>6. CASE SetupFails \/ Setup
    BY <1>6 DEF SetupFails, Setup, From, BeforeTheEnd, AllIn
  <1>7. CASE WaitForStart \/ CreateThreadFails \/ StartFails \/ Sleep
    BY <1>7 DEF WaitForStart, CreateThreadFails, StartFails, Sleep, From,
                BeforeTheEnd
  <1>8. CASE Feed \/ CallInSequence
    BY <1>8 DEF Feed, CallInSequence, caller, BeforeTheEnd, AllIn
  <1>9. CASE RemoveStream \/ CleaningUp
    BY <1>9 DEF RemoveStream, CleaningUp, ResetEvent, Terminate, NoneToWaitFor,
       WaitForStop, WaitEnds, Strip, DeleteRing, ExtractFromList, Delete, From,
       caller, BeforeTheEnd
  <1>10. QED
    BY <1>1, <1>2, <1>3, <1>4, <1>5, <1>6, <1>7, <1>8, <1>9 DEF Next, Adding

LEMMA EndStep ==
  ASSUME LongEnough, TypeOK, CountExact, BeforeTheEnd, TheEnd, [Next]_vars
  PROVE  TheEnd'
  <1>1. CASE UNCHANGED vars
    BY <1>1 DEF vars, TheEnd, AllIn
  <1>2. ASSUME NEW p \in Processes, Process(p) PROVE TheEnd'
    <2>1. UNCHANGED <<pc, Terminating>>
      BY <1>2, ProcessMoves DEF caller
    <2>2. \A q \in Processes :
            proc'[q] \in {"leaving", "uncounted", "gone"} => Terminating
      BY <1>2, ProcessMoves DEF TheEnd
    <2>3. AllIn(Over) => AllIn(Over)'
      BY <1>2, ProcessMoves DEF AllIn, Over
    <2>4. AllIn({"none", "gone"}) => FALSE
      BY <1>2, ProcessMoves DEF AllIn, Over
    <2>5. ~Terminating /\ AllIn(InLoop) => AllIn(InLoop)' /\ UNCHANGED StartStopEvent
      <3>1. ~Terminating /\ AllIn(InLoop) => AllIn(InLoop)'
        BY <1>2, ProcessMoves DEF AllIn, InLoop
      <3>2. AllIn(InLoop) => UNCHANGED StartStopEvent
        BY <1>2 DEF AllIn, InLoop, Process, Start, Started, Test, NothingToGet,
           Extract, Handle, Done, Stop, Stopped, count
      <3>3. QED BY <3>1, <3>2
    <2>6. AllIn(Ending) /\ ~StartStopEvent =>
            AllIn(Over)' \/ (AllIn(Ending)' /\ ~StartStopEvent')
      <3>1. AllIn(Ending) => AllIn(Ending)'
        BY <1>2, ProcessMoves DEF AllIn, Ending, InLoop
      <3>2. CASE Stopped(p) /\ ProcessRunningCount = 0
        <4>1. AllIn(Ending) => AllIn(Over)
          BY <3>2, NobodyCounted
        <4>2. QED BY <4>1, <2>3
      <3>3. CASE Stopped(p) /\ ProcessRunningCount # 0
        BY <3>3, <3>1 DEF Stopped, Signals
      <3>4. CASE ~Stopped(p)
        <4>1. AllIn(Ending) => UNCHANGED StartStopEvent
          BY <1>2, <3>4 DEF AllIn, Ending, InLoop, Process, Start, Started, Test,
             NothingToGet, Extract, Handle, Done, Stop, count
        <4>2. QED BY <3>1, <4>1
      <3>5. QED BY <3>2, <3>3, <3>4
    <2>7. QED BY <2>1, <2>2, <2>3, <2>4, <2>5, <2>6 DEF TheEnd
  <1>3. CASE CreateThread
    BY <1>3, CreatedWhereNone DEF CreateThread, TheEnd, TypeOK
  <1>4. CASE SetupFails
    <2>1. AllIn(Over)
      BY <1>4 DEF SetupFails, From, BeforeTheEnd, AllIn, Over, Processes
    <2>2. QED BY <1>4, <2>1 DEF SetupFails, From, TheEnd, AllIn
  <1>5. CASE Sleep
    <2>1. AllIn(Over)
      BY <1>5 DEF Sleep, Patience, Out, AllIn, Over
    <2>2. QED BY <1>5, <2>1 DEF Sleep, From, TheEnd, AllIn
  <1>6. CASE Register \/ RemoveStream
    BY <1>6 DEF Register, RemoveStream, From, BeforeTheEnd, TheEnd, AllIn
  <1>7. CASE Setup \/ CreateThreadFails \/ WaitForStart \/ StartFails
             \/ InsertInList
    BY <1>7 DEF Setup, CreateThreadFails, WaitForStart, StartFails,
       InsertInList, GiveUp, From, TheEnd
  <1>8. CASE ResetEvent
    BY <1>8 DEF ResetEvent, Cleared, From, TheEnd, AllIn
  <1>9. CASE Terminate
    BY <1>9 DEF Terminate, From, TheEnd, AllIn, Ending, count
  <1>10. CASE NoneToWaitFor
    <2>1. AllIn(Over)
      BY <1>10, NobodyCounted DEF NoneToWaitFor, From, TheEnd
    <2>2. QED BY <1>10, <2>1 DEF NoneToWaitFor, From, TheEnd, AllIn
  <1>11. CASE WaitForStop
    BY <1>11 DEF WaitForStop, From, TheEnd, AllIn, count
  <1>12. CASE WaitEnds
    <2>1. AllIn(Over)
      BY <1>12 DEF WaitEnds, Patience, Out, From, TheEnd, AllIn, Over
    <2>2. QED BY <1>12, <2>1 DEF WaitEnds, From, TheEnd, AllIn
  <1>13. CASE Strip \/ DeleteRing \/ Feed \/ CallInSequence \/ Delete
    BY <1>13 DEF Strip, DeleteRing, Feed, CallInSequence, Delete, From, caller,
       count, TheEnd, AllIn
  <1>14. CASE ExtractFromList
    <2>1. AllIn({"none", "gone"})
      BY <1>14 DEF ExtractFromList, HaveLock, LockFree, HasLock, From, TheEnd,
                   AllIn, Over
    <2>2. QED BY <1>14, <2>1 DEF ExtractFromList, From, TheEnd, AllIn
  <1>15. QED
    BY <1>1, <1>2, <1>3, <1>4, <1>5, <1>6, <1>7, <1>8, <1>9, <1>10, <1>11,
       <1>12, <1>13, <1>14 DEF Next, Adding, CleaningUp
-----------------------------------------------------------------------------
(* Where the buffers are.                                                  *)

\* What BuffersPlaced says of a buffer and a process.
Placed(b, p) ==
  /\ where[b] = Ring(p) => p > stripped
  /\ where[b] = Hand(p) => proc[p] = "work"
  /\ where[b] = Kept(p) => proc[p] \in InLoop \cup {"leaving"}

StagesStripped ==
  /\ pc \notin {"strip", "delete", "deleted"} => stripped = 0
  /\ pc \in {"delete", "deleted"} => stripped = ExpectedProcessCount

\* A process that is in its loop finds its ring, and the next one, in use.
LEMMA NotStrippedInLoop ==
  ASSUME TheEnd, BuffersPlaced, NEW p \in Processes, proc[p] \in InLoop
  PROVE  stripped = 0
  BY DEF TheEnd, BuffersPlaced, AllIn, Over, InLoop

\* A buffer that is not moved stays placed if its process stays with it.
LEMMA StaysPlaced ==
  ASSUME NEW b \in Buffers, NEW q \in Processes, Placed(b, q),
         where'[b] = where[b], stripped' = stripped,
         \/ proc'[q] = proc[q]
         \/ proc[q] # "work" /\ proc[q] \notin InLoop \cup {"leaving"}
         \/ proc[q] # "work" /\ proc'[q] \in InLoop \cup {"leaving"}
  PROVE  Placed(b, q)'
  BY DEF Placed, Ring, Hand, Kept, InLoop

LEMMA ProcessPlaces ==
  ASSUME TypeOK, TheEnd, BuffersPlaced, NEW p \in Processes, Process(p)
  PROVE  BuffersPlaced'
  <1>1. UNCHANGED <<pc, stripped>>
    BY ProcessMoves DEF caller
  <1>2. SUFFICES ASSUME NEW b \in Buffers, NEW q \in Processes
                 PROVE  Placed(b, q)'
    BY <1>1 DEF BuffersPlaced, Placed
  <1>3. Placed(b, q)
    BY DEF BuffersPlaced, Placed
  <1>4. CASE where'[b] = where[b] /\ proc'[q] = proc[q]
    BY <1>1, <1>3, <1>4, StaysPlaced
  <1>5. CASE Extract(p)
    <2>1. PICK c \in Buffers :
            \/ Move(c, Lost) /\ Goto(p, "loop")
            \/ Move(c, Hand(p)) /\ Goto(p, "work")
      BY <1>5 DEF Extract, At
    <2>2. proc[p] = "extract"
      BY <1>5 DEF Extract
    <2>3. CASE c # b
      BY <1>1, <1>3, <2>1, <2>2, <2>3, StaysPlaced
         DEF Move, Goto, InLoop, TypeOK
    <2>4. CASE c = b
      BY <2>1, <2>4 DEF Move, Goto, Placed, Lost, Ring, Hand, Kept, TypeOK
    <2>5. QED BY <2>3, <2>4
  <1>6. CASE Handle(p)
    <2>1. PICK c \in Buffers :
            \/ Move(c, Free) \/ Move(c, Kept(p))
            \/ HasNext(p) /\ Move(c, Onwards(p))
      BY <1>6 DEF Handle, At
    <2>2. proc[p] = "work" /\ UNCHANGED proc
      BY <1>6 DEF Handle
    <2>3. CASE c # b
      BY <1>1, <1>3, <2>1, <2>2, <2>3, StaysPlaced DEF Move, TypeOK
    <2>4. CASE c = b
      <3>1. stripped = 0
        BY <2>2, NotStrippedInLoop DEF InLoop
      <3>2. \/ where'[b] \in {Free, Kept(p)}
            \/ \E r \in Processes : where'[b] = Ring(r)
        BY <2>1, <2>4, OnwardsIsARing DEF Move, TypeOK
      <3>3. QED BY <1>1, <2>2, <3>1, <3>2
                   DEF Placed, Free, Ring, Hand, Kept, InLoop, Processes
    <2>5. QED BY <2>3, <2>4
  <1>7. CASE Done(p)
    <2>1. where[b] # Hand(p) /\ UNCHANGED where /\ Goto(p, "loop")
      BY <1>7 DEF Done, At
    <2>2. QED BY <1>1, <1>3, <2>1
                 DEF Goto, Placed, Ring, Hand, Kept, InLoop, TypeOK
  <1>8. CASE Stop(p)
    <2>1. /\ where'[b] # Kept(p)
          /\ where'[b] \in {where[b], Free, Lost}
      BY <1>8 DEF Stop, Free, Lost, Kept
    <2>2. Goto(p, "uncounted") /\ proc[p] = "leaving"
      BY <1>8 DEF Stop
    <2>3. QED BY <1>1, <1>3, <2>1, <2>2
                 DEF Goto, Placed, Free, Lost, Ring, Hand, Kept, InLoop, TypeOK
  <1>9. CASE Start(p) \/ Started(p) \/ Test(p) \/ NothingToGet(p) \/ Stopped(p)
    <2>1. UNCHANGED where
      BY <1>9 DEF Start, Started, Test, NothingToGet, Stopped
    <2>2. \/ proc'[q] = proc[q]
          \/ proc[q] # "work" /\ proc[q] \notin InLoop \cup {"leaving"}
          \/ proc[q] # "work" /\ proc'[q] \in InLoop \cup {"leaving"}
      BY <1>9 DEF Start, Started, Test, NothingToGet, Stopped, Goto, InLoop,
                  TypeOK
    <2>3. QED BY <1>1, <1>3, <2>1, <2>2, StaysPlaced
  <1>10. QED BY <1>5, <1>6, <1>7, <1>8, <1>9 DEF Process

LEMMA PlacedStep ==
  ASSUME TypeOK, BeforeTheEnd, TheEnd, BuffersPlaced, [Next]_vars
  PROVE  BuffersPlaced'
  <1>1. CASE UNCHANGED vars
    BY <1>1 DEF vars, BuffersPlaced
  <1>2. CASE \E p \in Processes : Process(p)
    BY <1>2, ProcessPlaces
  <1>3. CASE CreateThread
    <2>1. \A p \in Processes : proc[p] # "none" => proc'[p] = proc[p]
      BY <1>3, CreatedWhereNone DEF TypeOK
    <2>2. QED BY <1>3, <2>1 DEF CreateThread, BuffersPlaced, InLoop
  <1>4. CASE DeleteRing
    <2>1. \A b \in Buffers, p \in Processes :
            where[b] = Ring(p) => p > Stripping
      BY <1>4, ProcessesAssumption
         DEF DeleteRing, RingEmpty, At, Stripping, BuffersPlaced, Processes,
             TypeOK
    <2>2. QED BY <1>4, <2>1 DEF DeleteRing, BuffersPlaced, Ring
  <1>5. CASE Placing
    <2>1. UNCHANGED <<pc, stripped, proc>>
      BY <1>5 DEF Placing, Feed, CallInSequence, Strip, caller
    <2>2. PICK c \in Buffers :
            \/ Move(c, Free)
            \/ stripped = 0 /\ \E p \in Processes : Move(c, Ring(p))
      BY <1>5, ProcessesAssumption
         DEF Placing, Feed, CallInSequence, Strip, At, BuffersPlaced, Buffers,
             CollateToParse, Processes
    <2>3. SUFFICES ASSUME NEW b \in Buffers, NEW q \in Processes
                   PROVE  Placed(b, q)'
      BY <2>1 DEF BuffersPlaced, Placed
    <2>4. CASE c # b
      BY <2>1, <2>2, <2>4 DEF Move, BuffersPlaced, Placed, TypeOK
    <2>5. CASE c = b
      <3>1. \/ where'[b] = Free
            \/ stripped = 0 /\ \E p \in Processes : where'[b] = Ring(p)
        BY <2>2, <2>5 DEF Move, TypeOK
      <3>2. QED BY <2>1, <3>1 DEF Placed, Free, Ring, Hand, Kept, Processes
    <2>6. QED BY <2>4, <2>5
  <1>6. CASE UNCHANGED <<stripped, where, proc>> /\ StagesStripped'
    BY <1>6 DEF BuffersPlaced, StagesStripped
  <1>7. CASE Advancing \/ Clearing \/ Sleep
    <2>1. CASE DeleteRing
      BY <1>4, <2>1
    <2>2. CASE ~DeleteRing
      <3>1. UNCHANGED <<stripped, where, proc>>
        BY <1>7, <2>2 DEF Advancing, SetupFails, CreateThreadFails,
           WaitForStart, StartFails, InsertInList, Register, RemoveStream,
           Terminate, NoneToWaitFor, WaitForStop, WaitEnds, ExtractFromList,
           Delete, Clearing, Setup, ResetEvent, Sleep
      <3>2. StagesStripped'
        BY <1>7, <2>2 DEF StagesStripped, BuffersPlaced, From, Advancing,
           SetupFails, CreateThreadFails, WaitForStart, StartFails,
           InsertInList, Register, RemoveStream, Terminate, NoneToWaitFor,
           WaitForStop, WaitEnds, ExtractFromList, Delete, Clearing, Setup,
           ResetEvent, Sleep
      <3>3. QED BY <1>6, <3>1, <3>2
    <2>3. QED BY <2>1, <2>2
  <1>8. QED
    BY <1>1, <1>2, <1>3, <1>5, <1>7
       DEF Next, Adding, CleaningUp, Advancing, Clearing, Placing
-----------------------------------------------------------------------------
(* If the waits for the end are long enough, every state reached satisfies *)
(* the inductive invariant: how the place of the caller, the processes,    *)
(* the count, the event and the buffers go together.                       *)
THEOREM LifecycleInvariant == ASSUME LongEnough PROVE Spec => []IInv
  <1>1. Init => IInv
    BY InitIInv
  <1>2. IInv /\ [Next]_vars => IInv'
    BY TypeStep, LockStep, CountStep, BeforeStep, EndStep, PlacedStep DEF IInv
  <1>3. QED BY <1>1, <1>2, PTL DEF Spec

(* No process is in its loop when the rings are stripped and deleted, for  *)
(* any number of processes, if the waits are long enough.                  *)
THEOREM RingsAreOutOfUse == ASSUME LongEnough PROVE Spec => []RingsOutOfUse
  <1>1. IInv => RingsOutOfUse
    BY DEF IInv, TheEnd, RingsOutOfUse, AllIn, Over, InLoop
  <1>2. QED BY <1>1, LifecycleInvariant, PTL

(* No process is left, not even on its way to set the event, when the      *)
(* events and the stream are destroyed.                                    *)
THEOREM StreamIsOutOfUse == ASSUME LongEnough PROVE Spec => []StreamOutOfUse
  <1>1. IInv => StreamOutOfUse
    BY DEF IInv, TheEnd, StreamOutOfUse, AllIn
  <1>2. QED BY <1>1, LifecycleInvariant, PTL

(* AddStream succeeds only when every process runs and is behind the event *)
(* of its start, though it reads the count without the lock.               *)
THEOREM ListedStreamsRun == ASSUME LongEnough PROVE Spec => []ListedMeansRunning
  <1>1. IInv => ListedMeansRunning
    BY DEF IInv, BeforeTheEnd, ListedMeansRunning, AllIn
  <1>2. QED BY <1>1, LifecycleInvariant, PTL

(* A destroyed stream has left no buffer in a ring, a hand or a table,     *)
(* whatever the processes put into the rings of those that had ended.      *)
THEOREM RingsEndEmpty == ASSUME LongEnough PROVE Spec => []NothingLeftInRings
  <1>1. ASSUME IInv, pc = "deleted", NEW b \in Buffers
        PROVE  where[b] \in {Free, Lost}
    <2>1. stripped = ExpectedProcessCount /\ AllIn({"none", "gone"})
      BY <1>1 DEF IInv, BuffersPlaced, TheEnd
    <2>2. \A p \in Processes : ~(p > stripped)
      BY <2>1, ProcessesAssumption DEF Processes
    <2>3. \A p \in Processes :
            where[b] # Ring(p) /\ where[b] # Hand(p) /\ where[b] # Kept(p)
      BY <1>1, <2>1, <2>2 DEF IInv, BuffersPlaced, AllIn, InLoop
    <2>4. \/ where[b] \in {Free, Lost}
          \/ \E p \in Processes : where[b] \in {Ring(p), Hand(p), Kept(p)}
      BY <1>1 DEF IInv, TypeOK, Ring, Hand, Kept
    <2>5. QED BY <2>3, <2>4
  <1>2. IInv => NothingLeftInRings
    BY <1>1 DEF NothingLeftInRings
  <1>3. QED BY <1>2, LifecycleInvariant, PTL
=============================================================================
