------------------------ MODULE SynccomTxPollProofs ------------------------
(***************************************************************************)
(* The pollers of SynccomTxPoll and the transmit path, for any number of   *)
(* pollers, writers and purgers: they leave it as it is, and nobody who    *)
(* waits on output_queue sleeps through room.                              *)
(***************************************************************************)
EXTENDS SynccomTxPoll, SynccomTxProofs

USE DEF memoryVars, lockVars, writerVars, taskletVars, purgeVars, deviceVars

-----------------------------------------------------------------------------
(* The pollers only look                                                   *)

\* With pollers the transmit path does what it does without them: all that is
\* proved of SynccomTx holds here too.
THEOREM PollersOnlyLook == PollSpec => Spec
  <1>1. PollInit => Init
    BY DEF PollInit
  <1>2. [PollNext]_allVars => [Next]_vars
    BY DEF PollNext, DriverStep, PollerStep, Poll, PollDown, PollReadQueued,
           PollReadPending, PollTest, PollAgain, PollEnds, allVars
  <1> QED BY <1>1, <1>2, PTL DEF PollSpec, Spec

-----------------------------------------------------------------------------
(* What a look at the usage means                                          *)

\* The queued frames as somebody has read them: they are still that many, or the
\* tasklet has just taken the one that is missing, or a wake-up is due.
SawQueued(n) ==
  \/ n <= queued_oframes.estimated_memory_usage
  \/ tpc = "prepare" /\ n <= Usage
  \/ WakeIsDue

\* The whole usage as somebody has read it.
SawAll(n) == n <= Usage \/ WakeIsDue

\* There is no room for n bytes, or a wake-up is due.
NoRoomYet(n) == (\E c \in Caps \cup {InitCap} : Usage + n > c) \/ WakeIsDue

\* prepare_frame_for_fifo prepares nothing only when there is nothing left.
LEMMA NothingLeft ==
  ASSUME NEW frame \in Frame, TransmitLength(frame) < 1
  PROVE  frame.data_length = 0
  <1>1. FifoSpace \in Nat /\ FifoSpace >= 1
    BY FifoAssumption DEF FifoSpace
  <1>2. frame.data_length \in Nat
    BY DEF Frame
  <1>3. /\ FourAligned(frame.data_length) \in Nat
        /\ FourAligned(frame.data_length) >= frame.data_length
    BY <1>2, FourAlignedFacts
  <1> QED BY <1>1, <1>2, <1>3 DEF TransmitLength, Smaller

\* What is queued is part of the usage.
LEMMA QueueCounts ==
  ASSUME TypeInv
  PROVE  /\ queued_oframes.estimated_memory_usage \in Nat /\ Usage \in Nat
         /\ queued_oframes.estimated_memory_usage <= Usage
  BY UsageType DEF Usage

\* A step wakes output_queue, leaves a wake-up due, or takes nothing from what was seen.
LEMMA UsageFalls ==
  ASSUME TypeInv, TypeInv', [Next]_vars, ~WakesOutputQueue
  PROVE  /\ WakeIsDue => WakeIsDue'
         /\ \/ WakeIsDue'
            \/ /\ Usage <= Usage'
               /\ \/ /\ queued_oframes.estimated_memory_usage
                           <= queued_oframes'.estimated_memory_usage
                     /\ \/ tpc = "prepare" => tpc' = "prepare"
                        \/ Usage <= queued_oframes'.estimated_memory_usage
                  \/ tpc = "pick" /\ tpc' = "prepare"
  <1> DEFINE est == queued_oframes.estimated_memory_usage
             goal == /\ WakeIsDue => WakeIsDue'
                     /\ \/ WakeIsDue'
                        \/ /\ Usage <= Usage'
                           /\ \/ /\ est <= est'
                                 /\ \/ tpc = "prepare" => tpc' = "prepare"
                                    \/ Usage <= est'
                              \/ tpc = "pick" /\ tpc' = "prepare"
  <1>1. /\ est \in Nat /\ PendingLength \in Nat /\ Usage \in Nat
        /\ est' \in Nat /\ PendingLength' \in Nat /\ Usage' \in Nat
        /\ Usage = est + PendingLength /\ Usage' = est' + PendingLength'
    <2>1. est \in Nat /\ PendingLength \in Nat /\ Usage \in Nat
      BY UsageType
    <2>2. (est \in Nat /\ PendingLength \in Nat /\ Usage \in Nat)'
      BY UsageType, PTL
    <2> QED BY <2>1, <2>2 DEF Usage
  <1> SUFFICES goal
    OBVIOUS
  <1>2. ASSUME UNCHANGED << queued_oframes, pending_oframe, tpc, ppc >>
        PROVE  goal
    <2>1. est' = est /\ Usage' = Usage
      BY <1>2 DEF Usage, PendingLength
    <2>2. WakeIsDue' <=> WakeIsDue
      BY <1>2 DEF WakeIsDue
    <2> QED BY <1>1, <1>2, <2>1, <2>2
  <1>3. ASSUME NEW w \in Writers, Inserts(w)
        PROVE  goal
    <2>1. PICK frame \in Frame :
            /\ queued_oframes' = FlistAdd(queued_oframes, frame)
            /\ UNCHANGED << pending_oframe, tpc, ppc >>
      BY <1>3, EnqueuedFrame DEF Inserts, TypeInv
    <2>2. est' = est + frame.data_length /\ PendingLength' = PendingLength
      BY <2>1 DEF FlistAdd, PendingLength
    <2>3. frame.data_length \in Nat
      BY DEF Frame
    <2>4. WakeIsDue' <=> WakeIsDue
      BY <2>1 DEF WakeIsDue
    <2> QED BY <1>1, <2>1, <2>2, <2>3, <2>4
  <1>4. ASSUME NEW w \in Writers, WriterMoves(w)
        PROVE  goal
    BY <1>2, <1>4
       DEF WriterMoves, Write, DownWriteSemaphore, ReadQueuedUsage, ReadPendingUsage,
           TestRoom, TestFullBlock, TestFullAgain, TestFullSleep, LookAgain,
           InsertNoMemory, KickTasklet, Interrupt
  <1>5. CASE TimerHandler \/ UrbComplete \/ UrbFails
             \/ (\E c \in Caps : SetMemoryCap(c)) \/ UNCHANGED vars
    BY <1>2, <1>5 DEF TimerHandler, UrbComplete, UrbFails, SetMemoryCap, vars
  <1>6. CASE PickFrame
    <2>1. tpc = "pick" /\ tpc' = "prepare" /\ ppc' = ppc
      BY <1>6 DEF PickFrame
    <2>2. WakeIsDue => WakeIsDue'
      BY <2>1 DEF WakeIsDue
    <2>3. Usage' = Usage
      <3>1. CASE pending_oframe # NoFrame
        BY <1>6, <3>1 DEF PickFrame, Usage, PendingLength
      <3>2. CASE pending_oframe = NoFrame
        <4>1. /\ queued_oframes.frames # << >>
              /\ pending_oframe' = Head(queued_oframes.frames)
              /\ queued_oframes' = FlistRemove(queued_oframes)
          BY <1>6, <3>2 DEF PickFrame
        <4>2. Head(queued_oframes.frames) \in Frame
          BY <4>1, RemoveAccounted DEF TypeInv, TypeOK, FramesInv
        <4>3. PendingLength = 0
          BY <3>2 DEF PendingLength
        <4>4. PendingLength' = Head(queued_oframes.frames).data_length
          BY <4>1, <4>2, ActorsAssumption DEF PendingLength
        <4>5. est' = est - Head(queued_oframes.frames).data_length
          BY <4>1 DEF FlistRemove
        <4>6. Head(queued_oframes.frames).data_length \in Nat
          BY <4>2 DEF Frame
        <4> QED BY <1>1, <4>3, <4>4, <4>5, <4>6
      <3> QED BY <3>1, <3>2
    <2> QED BY <1>1, <2>1, <2>2, <2>3
  <1>7. CASE NothingPrepared
    <2>1. /\ tpc = "prepare" /\ ppc' = ppc
          /\ UNCHANGED << queued_oframes, pending_oframe >>
          /\ pending_oframe \in Frame /\ pending_oframe # NoFrame
          /\ TransmitLength(pending_oframe) < 1
      BY <1>7 DEF NothingPrepared, TypeInv, TypeOK, TaskletLock
    <2>2. pending_oframe.data_length = 0
      BY <2>1, NothingLeft
    <2>3. PendingLength = 0 /\ est' = est /\ PendingLength' = PendingLength
      BY <2>1, <2>2 DEF PendingLength
    <2>4. WakeIsDue => WakeIsDue'
      BY <2>1 DEF WakeIsDue
    <2> QED BY <1>1, <2>3, <2>4
  <1>8. CASE SubmitLoad \/ SubmitFails \/ AnnounceSize \/ ExecuteTransmit \/ FinishLoad
    <2>1. tpc' \in {"announce", "command", "finish", "wake"}
      BY <1>8 DEF SubmitLoad, SubmitFails, Prepare, AnnounceSize, ExecuteTransmit, FinishLoad
    <2> QED BY <2>1 DEF WakeIsDue
  <1>9. CASE RunTasklet \/ LockBoardTx \/ LockPending \/ NothingToSend
    <2>1. /\ UNCHANGED << queued_oframes, pending_oframe, ppc >>
          /\ tpc \in {"idle", "board", "lock", "pick"}
      BY <1>9 DEF RunTasklet, LockBoardTx, LockPending, NothingToSend
    <2>2. est' = est /\ Usage' = Usage
      BY <2>1 DEF Usage, PendingLength
    <2>3. WakeIsDue => WakeIsDue'
      BY <2>1 DEF WakeIsDue
    <2> QED BY <1>1, <2>1, <2>2, <2>3
  <1>10. CASE WakeAndReschedule
    BY <1>10 DEF WakeAndReschedule, WakesOutputQueue, LoadDone
  <1>11. ASSUME NEW p \in Purgers, ClearQueued(p) \/ ClearPending(p)
         PROVE  goal
    <2>1. ppc'[p] \in {"pending", "wake"}
      BY <1>11 DEF ClearQueued, ClearPending, TypeInv, TypeOK
    <2> QED BY <2>1 DEF WakeIsDue
  <1>12. ASSUME NEW p \in Purgers,
                \/ Purge(p) \/ LockRegisters(p) \/ LockBoard(p) \/ ExecuteTRES(p)
         PROVE  goal
    <2>1. /\ UNCHANGED << queued_oframes, pending_oframe, tpc >>
          /\ ppc[p] \notin {"pending", "wake"}
          /\ \A other \in Purgers \ {p} : ppc'[other] = ppc[other]
      BY <1>12 DEF Purge, LockRegisters, LockBoard, ExecuteTRES, TypeInv, TypeOK
    <2>2. est' = est /\ Usage' = Usage
      BY <2>1 DEF Usage, PendingLength
    <2>3. WakeIsDue => WakeIsDue'
      BY <2>1 DEF WakeIsDue
    <2> QED BY <1>1, <2>1, <2>2, <2>3
  <1>13. ASSUME NEW p \in Purgers, WakeAndReturn(p)
         PROVE  goal
    BY <1>13 DEF WakeAndReturn, WakesOutputQueue, PurgeDone, TypeInv, TypeOK
  <1> HIDE DEF goal
  <1> QED BY <1>3, <1>4, <1>5, <1>6, <1>7, <1>8, <1>9, <1>10, <1>11, <1>12, <1>13
          DEF Next, WriterStep, WriterMoves, Inserts, TaskletStep, PurgeStep

\* So what was seen stays so, until output_queue is woken.
LEMMA SeenStays ==
  ASSUME TypeInv, TypeInv', [Next]_vars, ~WakesOutputQueue, NEW n \in Int
  PROVE  /\ SawQueued(n) => SawQueued(n)'
         /\ SawAll(n) => SawAll(n)'
         /\ NoRoomYet(n) => NoRoomYet(n)'
  <1> DEFINE est == queued_oframes.estimated_memory_usage
  <1>1. /\ est \in Nat /\ Usage \in Nat /\ est' \in Nat /\ Usage' \in Nat
        /\ est <= Usage /\ est' <= Usage'
    <2>1. est \in Nat /\ Usage \in Nat /\ est <= Usage
      BY QueueCounts
    <2>2. (est \in Nat /\ Usage \in Nat /\ est <= Usage)'
      BY QueueCounts, PTL
    <2> QED BY <2>1, <2>2
  <1>2. WakeIsDue => WakeIsDue'
    BY UsageFalls
  <1>3. CASE WakeIsDue'
    BY <1>3 DEF SawQueued, SawAll, NoRoomYet
  <1>4. CASE ~WakeIsDue'
    <2>1. /\ ~WakeIsDue /\ Usage <= Usage'
          /\ \/ est <= est' /\ ((tpc = "prepare" => tpc' = "prepare") \/ Usage <= est')
             \/ tpc = "pick" /\ tpc' = "prepare"
      BY <1>4, UsageFalls
    <2>2. SawQueued(n) => SawQueued(n)'
      BY <1>1, <2>1 DEF SawQueued
    <2>3. SawAll(n) => SawAll(n)'
      BY <1>1, <2>1 DEF SawAll
    <2>4. NoRoomYet(n) => NoRoomYet(n)'
      <3>1. ASSUME NEW c \in Caps \cup {InitCap}, Usage + n > c
            PROVE  Usage' + n > c
        <4>1. c \in Nat
          BY CapsAssumption
        <4>2. \A a, b \in Nat : a <= b /\ a + n > c => b + n > c
          BY <4>1
        <4> QED BY <1>1, <2>1, <3>1, <4>2
      <3> QED BY <2>1, <3>1 DEF NoRoomYet
    <2> QED BY <2>2, <2>3, <2>4
  <1> QED BY <1>3, <1>4

\* Reading the second half: while the tasklet has the frame it took, its lock is
\* not free.
LEMMA SecondHalf ==
  ASSUME TypeInv, pending_oframe_spinlock = Nobody, NEW n \in Int, SawQueued(n)
  PROVE  SawAll(n + PendingLength)
  <1>1. tpc # "prepare"
    BY ActorsAssumption DEF TypeInv, TaskletLock
  <1> QED BY <1>1, UsageType DEF SawQueued, SawAll, Usage

\* Who finds no room in what it has seen has none.
LEMMA SeenFull ==
  ASSUME TypeInv, AdmissionInv, NEW seen \in Int, NEW n \in Int, SawAll(seen),
         seen + n > memory_cap
  PROVE  NoRoomYet(n)
  <1>1. memory_cap \in Caps \cup {InitCap} /\ memory_cap \in Nat
    BY DEF AdmissionInv, CapInv, TypeInv, TypeOK
  <1> QED BY <1>1, UsageType DEF SawAll, NoRoomYet

-----------------------------------------------------------------------------
(* The writers                                                             *)

\* What a writer outside the semaphore has seen, unless it was woken since.
WriterInv ==
  \A w \in Writers : waiting[w] /\ ~woken[w] =>
     /\ wpc[w] = "pending" => SawQueued(usage[w])
     /\ wpc[w] = "test" => SawAll(usage[w])
     /\ wpc[w] = "asleep" => NoRoomYet(count[w])

\* A step that wakes output_queue wakes every writer that is on it.
LEMMA WakeIsHeard ==
  ASSUME TypeInv, [Next]_vars, WakesOutputQueue, NEW w \in Writers, waiting[w]
  PROVE  woken'[w]
  <1>1. ASSUME NEW v \in Writers, WriterMoves(v) \/ Inserts(v)
        PROVE  UNCHANGED << tpc, ppc >>
    BY <1>1 DEF WriterMoves, Inserts, Write, DownWriteSemaphore, ReadQueuedUsage,
       ReadPendingUsage, TestRoom, TestFullBlock, TestFullAgain, TestFullSleep,
       LookAgain, InsertNoMemory, KickTasklet, Interrupt, InsertFrame,
       InsertUncopied, InsertUnallocated, Enqueue
  <1>2. CASE TaskletStep /\ ~WakeAndReschedule
    <2>1. ppc' = ppc
      BY <1>2 DEF TaskletStep, RunTasklet, LockBoardTx, LockPending, PickFrame,
         NothingToSend, NothingPrepared, SubmitLoad, SubmitFails, Prepare,
         AnnounceSize, ExecuteTransmit, FinishLoad
    <2>2. tpc # "wake"
      BY <1>2 DEF TaskletStep, RunTasklet, LockBoardTx, LockPending, PickFrame,
         NothingToSend, NothingPrepared, SubmitLoad, SubmitFails, Prepare,
         AnnounceSize, ExecuteTransmit, FinishLoad
    <2> QED BY <2>1, <2>2 DEF WakesOutputQueue, LoadDone, PurgeDone
  <1>3. CASE WakeAndReschedule
    BY <1>3 DEF WakeAndReschedule, WakeOutputQueue
  <1>4. ASSUME NEW p \in Purgers, WakeAndReturn(p)
        PROVE  woken'[w]
    BY <1>4 DEF WakeAndReturn, WakeOutputQueue
  <1>5. ASSUME NEW p \in Purgers, Purge(p) \/ PurgeStep(p), ~WakeAndReturn(p)
        PROVE  ~WakesOutputQueue
    <2>1. /\ tpc' = tpc
          /\ ppc[p] # "wake"
          /\ \A other \in Purgers \ {p} : ppc'[other] = ppc[other]
      BY <1>5 DEF Purge, PurgeStep, LockRegisters, LockBoard, ExecuteTRES,
         ClearQueued, ClearPending, TypeInv, TypeOK
    <2> QED BY <2>1 DEF WakesOutputQueue, LoadDone, PurgeDone
  <1>6. CASE TimerHandler \/ UrbComplete \/ UrbFails
             \/ (\E c \in Caps : SetMemoryCap(c)) \/ UNCHANGED vars
    BY <1>6 DEF TimerHandler, UrbComplete, UrbFails, SetMemoryCap, vars,
       WakesOutputQueue, LoadDone, PurgeDone
  <1> QED BY <1>1, <1>2, <1>3, <1>4, <1>5, <1>6
          DEF Next, WriterStep, WriterMoves, Inserts, WakesOutputQueue, LoadDone,
              PurgeDone

\* What a step does to one writer: one of the three that make claims, one after
\* which there is nothing to claim, or its claims are those it had.
LEMMA WriterSees ==
  ASSUME TypeInv, [Next]_vars, NEW w \in Writers
  PROVE  \/ ReadQueuedUsage(w) \/ ReadPendingUsage(w) \/ TestFullSleep(w)
         \/ waiting'[w] => wpc'[w] \notin {"pending", "test", "asleep"}
         \/ /\ wpc'[w] = wpc[w] /\ usage'[w] = usage[w]
            /\ count'[w] = count[w] /\ waiting'[w] = waiting[w]
            /\ woken[w] => woken'[w]
  <1>1. /\ wpc \in [Writers -> {"idle", "down", "queued", "pending", "test",
                                "asleep", "insert", "kick"}]
        /\ count \in [Writers -> Nat] /\ usage \in [Writers -> Int]
        /\ waiting \in [Writers -> BOOLEAN] /\ woken \in [Writers -> BOOLEAN]
    BY DEF TypeInv, TypeOK
  <1>2. ASSUME NEW v \in Writers, v # w, WriterMoves(v) \/ Inserts(v)
        PROVE  /\ wpc'[w] = wpc[w] /\ usage'[w] = usage[w]
               /\ count'[w] = count[w] /\ waiting'[w] = waiting[w]
               /\ woken'[w] = woken[w]
    BY <1>1, <1>2 DEF WriterMoves, Inserts, Write, DownWriteSemaphore,
       ReadQueuedUsage, ReadPendingUsage, TestRoom, TestFullBlock, TestFullAgain,
       TestFullSleep, LookAgain, InsertNoMemory, KickTasklet, Interrupt, Return,
       InsertFrame, InsertUncopied, InsertUnallocated, Enqueue
  <1>3. CASE /\ WriterMoves(w) \/ Inserts(w)
             /\ ~ReadQueuedUsage(w) /\ ~ReadPendingUsage(w) /\ ~TestFullSleep(w)
    <2>1. CASE TestRoom(w)
      BY <1>1, <2>1 DEF TestRoom
    <2>2. CASE ~TestRoom(w)
      <3>1. wpc'[w] \notin {"pending", "test", "asleep"}
        BY <1>1, <1>3, <2>2 DEF WriterMoves, Inserts, Write, DownWriteSemaphore,
           TestFullBlock, TestFullAgain, LookAgain, InsertNoMemory, KickTasklet,
           Interrupt, Return, InsertFrame, InsertUncopied, InsertUnallocated, Enqueue
      <3> QED BY <3>1
    <2> QED BY <2>1, <2>2
  <1>4. CASE \A v \in Writers : ~Inserts(v) /\ ~WriterMoves(v)
    <2>1. UNCHANGED << wpc, count, usage, waiting >>
      BY <1>4, OtherSteps
    <2>2. woken[w] => woken'[w]
      <3>1. CASE WakeAndReschedule \/ \E p \in Purgers : WakeAndReturn(p)
        BY <1>1, <3>1 DEF WakeAndReschedule, WakeAndReturn, WakeOutputQueue
      <3>2. CASE TaskletStep /\ ~WakeAndReschedule
        BY <3>2 DEF TaskletStep, RunTasklet, LockBoardTx, LockPending, PickFrame,
           NothingToSend, NothingPrepared, SubmitLoad, SubmitFails, Prepare,
           AnnounceSize, ExecuteTransmit, FinishLoad
      <3>3. CASE \E p \in Purgers : (Purge(p) \/ PurgeStep(p)) /\ ~WakeAndReturn(p)
        BY <3>3 DEF Purge, PurgeStep, LockRegisters, LockBoard, ExecuteTRES,
           ClearQueued, ClearPending
      <3>4. CASE TimerHandler \/ UrbComplete \/ UrbFails
                 \/ (\E c \in Caps : SetMemoryCap(c)) \/ UNCHANGED vars
        BY <3>4 DEF TimerHandler, UrbComplete, UrbFails, SetMemoryCap, vars
      <3> QED BY <1>4, <3>1, <3>2, <3>3, <3>4
              DEF Next, WriterStep, WriterMoves, Inserts
    <2> QED BY <2>1, <2>2
  <1> QED BY <1>2, <1>3, <1>4

\* So no step of the driver takes from what the writers know.
LEMMA DriverKeepsWriters ==
  ASSUME TypeInv, TypeInv', AdmissionInv, WriterInv, [Next]_vars
  PROVE  WriterInv'
  <1> SUFFICES ASSUME NEW w \in Writers, waiting'[w], ~woken'[w]
               PROVE  /\ wpc'[w] = "pending" => SawQueued(usage[w])'
                      /\ wpc'[w] = "test" => SawAll(usage[w])'
                      /\ wpc'[w] = "asleep" => NoRoomYet(count[w])'
    BY DEF WriterInv
  <1>1. /\ wpc \in [Writers -> {"idle", "down", "queued", "pending", "test",
                                "asleep", "insert", "kick"}]
        /\ count[w] \in Int /\ usage[w] \in Int /\ usage \in [Writers -> Int]
        /\ queued_oframes.estimated_memory_usage \in Nat
        /\ PendingLength \in Nat
    <2>1. /\ wpc \in [Writers -> {"idle", "down", "queued", "pending", "test",
                                  "asleep", "insert", "kick"}]
          /\ count \in [Writers -> Nat] /\ usage \in [Writers -> Int]
      BY DEF TypeInv, TypeOK
    <2>2. /\ queued_oframes.estimated_memory_usage \in Nat
          /\ PendingLength \in Nat
      BY UsageType
    <2>3. count[w] \in Int /\ usage[w] \in Int
      BY <2>1
    <2> QED BY <2>1, <2>2, <2>3
  <1>2. CASE ReadQueuedUsage(w)
    <2>1. /\ wpc'[w] = "pending" /\ queued_oframes' = queued_oframes
          /\ usage'[w] = queued_oframes.estimated_memory_usage
      BY <1>1, <1>2 DEF ReadQueuedUsage
    <2> QED BY <1>1, <2>1 DEF SawQueued
  <1>3. CASE ReadPendingUsage(w)
    <2>1. /\ wpc[w] = "pending" /\ wpc'[w] = "test"
          /\ pending_oframe_spinlock = Nobody
          /\ usage'[w] = usage[w] + PendingLength
          /\ UNCHANGED << queued_oframes, pending_oframe, waiting, woken, tpc, ppc >>
      BY <1>1, <1>3 DEF ReadPendingUsage, AddPending
    <2>2. SawAll(usage[w] + PendingLength)
      BY <1>1, <2>1, SecondHalf DEF WriterInv
    <2>3. Usage' = Usage /\ (WakeIsDue' <=> WakeIsDue)
      BY <2>1 DEF Usage, PendingLength, WakeIsDue
    <2> QED BY <2>1, <2>2, <2>3 DEF SawAll
  <1>4. CASE TestFullSleep(w)
    <2>1. /\ wpc[w] = "test" /\ wpc'[w] = "asleep"
          /\ usage[w] + count[w] > memory_cap
          /\ UNCHANGED << queued_oframes, pending_oframe, waiting, woken, count,
                          tpc, ppc >>
      BY <1>1, <1>4 DEF TestFullSleep
    <2>2. NoRoomYet(count[w])
      BY <1>1, <2>1, SeenFull DEF WriterInv
    <2>3. Usage' = Usage /\ (WakeIsDue' <=> WakeIsDue)
      BY <2>1 DEF Usage, PendingLength, WakeIsDue
    <2> QED BY <2>1, <2>2, <2>3 DEF NoRoomYet
  <1>5. CASE /\ wpc'[w] = wpc[w] /\ usage'[w] = usage[w]
             /\ count'[w] = count[w] /\ waiting'[w] = waiting[w]
             /\ woken[w] => woken'[w]
    <2>1. ~WakesOutputQueue
      BY <1>5, WakeIsHeard
    <2>2. PICK seen \in Int, n \in Int : seen = usage[w] /\ n = count[w]
      BY <1>1
    <2>3. /\ SawQueued(seen) => SawQueued(seen)'
          /\ SawAll(seen) => SawAll(seen)'
      BY <2>1, SeenStays
    <2>4. NoRoomYet(n) => NoRoomYet(n)'
      BY <2>1, SeenStays
    <2>5. wpc[w] = "pending" => SawQueued(usage[w])'
      BY <1>5, <2>2, <2>3 DEF WriterInv, SawQueued
    <2>6. wpc[w] = "test" => SawAll(usage[w])'
      BY <1>5, <2>2, <2>3 DEF WriterInv, SawAll
    <2>7. wpc[w] = "asleep" => NoRoomYet(count[w])'
      BY <1>5, <2>2, <2>4 DEF WriterInv, NoRoomYet
    <2> QED BY <1>5, <2>5, <2>6, <2>7
  <1> QED BY <1>2, <1>3, <1>4, <1>5, WriterSees

-----------------------------------------------------------------------------
(* The pollers                                                             *)

PollTypes ==
  /\ qpc \in [Pollers -> {"idle", "down", "queued", "pending", "test", "asleep"}]
  /\ q_usage \in [Pollers -> Int]
  /\ q_waiting \in [Pollers -> BOOLEAN]
  /\ q_woken \in [Pollers -> BOOLEAN]

\* A poller is on output_queue before it looks, and what it has seen is as good
\* as what a writer has.
PollerInv ==
  \A q \in Pollers :
     /\ qpc[q] \in {"queued", "pending", "test", "asleep"} => q_waiting[q]
     /\ ~q_woken[q] =>
          /\ qpc[q] = "pending" => SawQueued(q_usage[q])
          /\ qpc[q] = "test" => SawAll(q_usage[q])
          /\ qpc[q] = "asleep" => NoRoomYet(1)

SleepInv == WriterInv /\ PollTypes /\ PollerInv

\* The transmit path at work.
LEMMA DriverKeepsSleep ==
  ASSUME TypeInv, TypeInv', AdmissionInv, SleepInv, DriverStep
  PROVE  SleepInv'
  <1>1. /\ [Next]_vars /\ UNCHANGED << qpc, q_usage, q_waiting >>
        /\ q_woken' = [q \in Pollers |->
                          q_woken[q] \/ (q_waiting[q] /\ WakesOutputQueue)]
    BY DEF DriverStep
  <1>2. WriterInv'
    BY <1>1, DriverKeepsWriters DEF SleepInv
  <1>3. PollTypes /\ PollerInv
    BY DEF SleepInv
  <1>4. PollTypes'
    <2>1. \A q \in Pollers : q_woken'[q] \in BOOLEAN
      BY <1>1, <1>3 DEF PollTypes
    <2> QED BY <1>1, <1>3, <2>1 DEF PollTypes
  <1>5. PollerInv'
    <2> SUFFICES ASSUME NEW q \in Pollers
                 PROVE  /\ qpc'[q] \in {"queued", "pending", "test", "asleep"}
                              => q_waiting'[q]
                        /\ ~q_woken'[q] =>
                             /\ qpc'[q] = "pending" => SawQueued(q_usage[q])'
                             /\ qpc'[q] = "test" => SawAll(q_usage[q])'
                             /\ qpc'[q] = "asleep" => NoRoomYet(1)'
      BY DEF PollerInv
    <2>1. qpc'[q] \in {"queued", "pending", "test", "asleep"} => q_waiting'[q]
      BY <1>1, <1>3 DEF PollerInv
    <2>2. ASSUME ~q_woken'[q], qpc[q] \in {"pending", "test", "asleep"}
          PROVE  /\ qpc[q] = "pending" => SawQueued(q_usage[q])'
                 /\ qpc[q] = "test" => SawAll(q_usage[q])'
                 /\ qpc[q] = "asleep" => NoRoomYet(1)'
      <3>1. ~q_woken[q] /\ ~WakesOutputQueue
        BY <1>1, <1>3, <2>2 DEF PollerInv
      <3>2. PICK seen \in Int : seen = q_usage[q]
        BY <1>3 DEF PollTypes
      <3>3. /\ SawQueued(seen) => SawQueued(seen)'
            /\ SawAll(seen) => SawAll(seen)'
        BY <1>1, <3>1, SeenStays
      <3>4. NoRoomYet(1) => NoRoomYet(1)'
        BY <1>1, <3>1, SeenStays
      <3>5. qpc[q] = "pending" => SawQueued(q_usage[q])'
        BY <1>1, <1>3, <3>1, <3>2, <3>3 DEF PollerInv, SawQueued
      <3>6. qpc[q] = "test" => SawAll(q_usage[q])'
        BY <1>1, <1>3, <3>1, <3>2, <3>3 DEF PollerInv, SawAll
      <3>7. qpc[q] = "asleep" => NoRoomYet(1)'
        BY <1>3, <3>1, <3>4 DEF PollerInv
      <3> QED BY <3>5, <3>6, <3>7
    <2> QED BY <1>1, <2>1, <2>2
  <1> QED BY <1>2, <1>4, <1>5 DEF SleepInv

\* A poller at work: only a read and the test have something to show.
LEMMA PollersKeepSleep ==
  ASSUME TypeInv, AdmissionInv, SleepInv,
         \/ \E q \in Pollers : Poll(q) \/ PollerStep(q) \/ PollEnds(q)
         \/ UNCHANGED allVars
  PROVE  SleepInv'
  <1>1. UNCHANGED vars
    BY DEF Poll, PollerStep, PollEnds, PollDown, PollReadQueued, PollReadPending,
       PollTest, PollAgain, allVars
  <1>2. /\ UNCHANGED << queued_oframes, pending_oframe, tpc, ppc, wpc, count, usage,
                        waiting, woken >>
        /\ Usage' = Usage /\ (WakeIsDue' <=> WakeIsDue)
    BY <1>1 DEF vars, Usage, PendingLength, WakeIsDue
  <1>3. WriterInv'
    <2>1. WriterInv
      BY DEF SleepInv
    <2> QED BY <1>2, <2>1 DEF WriterInv, SawQueued, SawAll, NoRoomYet
  <1>4. PollTypes /\ PollerInv
    BY DEF SleepInv
  <1>5. /\ queued_oframes.estimated_memory_usage \in Nat
        /\ PendingLength \in Nat /\ Usage \in Nat
    BY UsageType
  <1>6. CASE UNCHANGED allVars
    BY <1>2, <1>3, <1>4, <1>6
       DEF SleepInv, PollTypes, PollerInv, SawQueued, SawAll, NoRoomYet, allVars,
           pollVars
  <1>7. ASSUME NEW q \in Pollers, Poll(q) \/ PollDown(q) \/ PollAgain(q) \/ PollEnds(q)
        PROVE  PollTypes' /\ PollerInv'
    <2>1. /\ q_usage' = q_usage
          /\ PollTypes'
          /\ qpc'[q] \in {"idle", "down", "queued"}
          /\ qpc'[q] = "queued" => q_waiting'[q]
          /\ \A other \in Pollers \ {q} : /\ qpc'[other] = qpc[other]
                                           /\ q_waiting'[other] = q_waiting[other]
                                           /\ q_woken'[other] = q_woken[other]
      BY <1>4, <1>7 DEF Poll, PollDown, PollAgain, PollEnds, PollTypes
    <2> QED BY <1>2, <1>4, <2>1 DEF PollerInv, SawQueued, SawAll, NoRoomYet
  <1>8. ASSUME NEW q \in Pollers, PollReadQueued(q) \/ PollReadPending(q) \/ PollTest(q)
        PROVE  PollTypes' /\ PollerInv'
    <2>1. /\ PollTypes'
          /\ \A other \in Pollers \ {q} : /\ qpc'[other] = qpc[other]
                                           /\ q_usage'[other] = q_usage[other]
                                           /\ q_waiting'[other] = q_waiting[other]
                                           /\ q_woken'[other] = q_woken[other]
      <3>1. CASE PollReadQueued(q)
        BY <1>4, <1>5, <3>1 DEF PollReadQueued, PollTypes
      <3>2. CASE PollReadPending(q)
        BY <1>4, <1>5, <3>2 DEF PollReadPending, PollTypes
      <3>3. CASE PollTest(q)
        BY <1>4, <3>3 DEF PollTest, PollTypes
      <3> QED BY <1>8, <3>1, <3>2, <3>3
    <2>2. /\ qpc'[q] \in {"queued", "pending", "test", "asleep"} => q_waiting'[q]
          /\ ~q_woken'[q] =>
               /\ qpc'[q] = "pending" => SawQueued(q_usage[q])'
               /\ qpc'[q] = "test" => SawAll(q_usage[q])'
               /\ qpc'[q] = "asleep" => NoRoomYet(1)'
      <3>1. CASE PollReadQueued(q)
        <4>1. /\ qpc[q] = "queued" /\ qpc'[q] = "pending"
              /\ q_waiting'[q] = q_waiting[q]
              /\ q_usage'[q] = queued_oframes.estimated_memory_usage
          BY <1>4, <3>1 DEF PollReadQueued, PollTypes
        <4> QED BY <1>2, <1>4, <1>5, <4>1 DEF PollerInv, SawQueued
      <3>2. CASE PollReadPending(q)
        <4>1. /\ qpc[q] = "pending" /\ qpc'[q] = "test"
              /\ pending_oframe_spinlock = Nobody
              /\ q_waiting'[q] = q_waiting[q] /\ q_woken'[q] = q_woken[q]
              /\ q_usage'[q] = q_usage[q] + PendingLength
              /\ q_usage[q] \in Int
          BY <1>4, <3>2 DEF PollReadPending, PollTypes
        <4>2. ~q_woken[q] => SawAll(q_usage[q] + PendingLength)
          BY <1>4, <4>1, SecondHalf DEF PollerInv
        <4> QED BY <1>2, <1>4, <4>1, <4>2 DEF PollerInv, SawAll
      <3>3. CASE PollTest(q)
        <4>1. /\ qpc[q] = "test" /\ qpc'[q] \in {"idle", "asleep"}
              /\ qpc'[q] = "asleep" => /\ ~(q_usage[q] < memory_cap)
                                       /\ q_waiting'[q]
                                       /\ q_woken'[q] = q_woken[q]
              /\ q_usage[q] \in Int
          BY <1>4, <3>3 DEF PollTest, PollTypes
        <4>2. memory_cap \in Nat
          BY DEF TypeInv, TypeOK
        <4>3. qpc'[q] = "asleep" => q_usage[q] + 1 > memory_cap
          BY <4>1, <4>2
        <4>4. qpc'[q] = "asleep" /\ ~q_woken'[q] => NoRoomYet(1)
          BY <1>4, <4>1, <4>3, SeenFull DEF PollerInv
        <4> QED BY <1>2, <4>1, <4>4 DEF NoRoomYet
      <3> QED BY <1>8, <3>1, <3>2, <3>3
    <2> QED BY <1>2, <1>4, <2>1, <2>2 DEF PollerInv, SawQueued, SawAll, NoRoomYet
  <1> QED BY <1>3, <1>6, <1>7, <1>8 DEF PollerStep, SleepInv

\* No writer and no poller sleeps through room (synccom_write, synccom_poll): the
\* usage they read in two halves was real when they read it, or the step that made
\* it too high leaves a wake-up due, and the queue is joined before it is read.
THEOREM RoomIsAlwaysNoticed == PollSpec => []RoomIsNoticed
  <1>1. PollInit => SleepInv
    BY DEF PollInit, Init, SleepInv, WriterInv, PollTypes, PollerInv
  <1>2. TypeInv /\ TypeInv' /\ AdmissionInv /\ SleepInv /\ [PollNext]_allVars
          => SleepInv'
    BY DriverKeepsSleep, PollersKeepSleep DEF PollNext
  <1>3. TypeInv /\ AdmissionInv /\ SleepInv => RoomIsNoticed
    <2> SUFFICES ASSUME TypeInv, AdmissionInv, SleepInv
                 PROVE  RoomIsNoticed
      OBVIOUS
    <2>1. \A n \in Int : NoRoomYet(n) =>
             WakeIsDue \/ ~(\A c \in Caps \cup {InitCap} : Usage + n <= c)
      BY UsageType, CapsAssumption DEF NoRoomYet
    <2>2. \A w \in Writers : /\ wpc[w] = "asleep" => waiting[w]
                             /\ count[w] \in Int
      BY DEF AdmissionInv, SemaphoreInv, TypeInv, TypeOK
    <2>3. ASSUME NEW w \in Writers, wpc[w] = "asleep", ~woken[w]
          PROVE  NoRoomYet(count[w])
      BY <2>2, <2>3 DEF SleepInv, WriterInv
    <2>4. ASSUME NEW q \in Pollers, qpc[q] = "asleep", ~q_woken[q]
          PROVE  NoRoomYet(1)
      BY <2>4 DEF SleepInv, PollerInv
    <2> QED BY <2>1, <2>2, <2>3, <2>4 DEF RoomIsNoticed
  <1>4. PollSpec => [](TypeInv /\ AdmissionInv)
    BY PollersOnlyLook, TypeCorrect, AdmissionCorrect, PTL
  <1> QED BY <1>1, <1>2, <1>3, <1>4, PTL DEF PollSpec
=============================================================================
