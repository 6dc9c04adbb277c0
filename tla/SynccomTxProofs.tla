-------------------------- MODULE SynccomTxProofs --------------------------
(***************************************************************************)
(* Invariants of the transmit path, for any number of writers and purgers, *)
(* every set of sizes and caps, every FIFO and every bound of SynccomTx;   *)
(* and that it implements TxQueue: whatever its locks, its tasklet, its    *)
(* faults and its purges do, the port is one first-in first-out queue of   *)
(* frames.                                                                 *)
(***************************************************************************)
EXTENDS SynccomTx, FramesProofs

USE DEF memoryVars, lockVars, writerVars, taskletVars, purgeVars, deviceVars

-----------------------------------------------------------------------------
(* Types, and who holds pending_oframe_spinlock                            *)

\* The tasklet holds pending_oframe_spinlock from LockPending to UnlockFrames,
\* and no purge takes its frame away meanwhile.
TaskletLock ==
  /\ pending_oframe_spinlock = Tasklet
        <=> tpc \in {"pick", "prepare", "announce", "command", "finish"}
  /\ tpc \in {"prepare", "announce", "command", "finish"}
        => pending_oframe # NoFrame

\* The estimate of the queue is exact, and every frame fits its buffer.
FramesInv ==
  /\ Accounted(queued_oframes)
  /\ \A i \in 1..Len(queued_oframes.frames) : BufferFits(queued_oframes.frames[i])
  /\ pending_oframe # NoFrame => BufferFits(pending_oframe)

TypeInv == TypeOK /\ TaskletLock /\ FramesInv

\* How much of a frame goes to the card at a time: a whole word at least, and
\* never more than the FIFO takes (prepare_frame_for_fifo).
LEMMA TransmitLengthFacts ==
  ASSUME NEW frame \in Frame
  PROVE  /\ TransmitLength(frame) \in Nat
         /\ TransmitLength(frame) <= FourAligned(frame.data_length)
  <1>1. FifoSpace \in Nat
    BY FifoAssumption DEF FifoSpace
  <1>2. frame.data_length \in Nat
    BY DEF Frame
  <1>3. FourAligned(frame.data_length) \in Nat
    BY <1>2, FourAlignedFacts
  <1> QED BY <1>1, <1>3 DEF TransmitLength, Smaller

\* The frame a write inserts, copied or not.
LEMMA InsertedFrame ==
  ASSUME NEW n \in Nat, NEW size \in Nat, NEW frame,
         \/ frame = AddData(FrameNew(n), size)
         \/ frame = UpdateBufferSize(FrameNew(n), size)
         \/ frame = FrameNew(n)
  PROVE  /\ frame \in Frame
         /\ frame.number = n
         /\ frame.data_length \in {0, size}
         /\ BufferFits(frame)
  <1>1. /\ FrameNew(n) \in Frame
        /\ FrameNew(n).number = n
        /\ FrameNew(n).data_length = 0
        /\ BufferFits(FrameNew(n))
    BY FrameNewFacts
  <1>2. CASE frame = AddData(FrameNew(n), size)
    <2>1. /\ frame \in Frame
          /\ frame.number = n
          /\ frame.data_length = 0 + size
          /\ BufferFits(frame)
      BY <1>1, <1>2, AddDataFacts
    <2> QED BY <2>1
  <1>3. CASE frame = UpdateBufferSize(FrameNew(n), size)
    <2>1. Smaller(0, size) = 0
      BY DEF Smaller
    <2> QED BY <1>1, <1>3, <2>1, UpdateBufferSizeFacts
  <1>4. CASE frame = FrameNew(n)
    BY <1>1, <1>4
  <1> QED BY <1>2, <1>3, <1>4

\* A write enqueues a frame of its own, with the next number and no more bytes
\* than it was given.
LEMMA EnqueuedFrame ==
  ASSUME TypeOK, NEW w \in Writers,
         InsertFrame(w) \/ InsertUncopied(w) \/ InsertUnallocated(w)
  PROVE  \E frame \in Frame :
            /\ wpc[w] = "insert"
            /\ wpc' = [wpc EXCEPT ![w] = "kick"]
            /\ queued_oframes' = FlistAdd(queued_oframes, frame)
            /\ frame.number = frame_counter
            /\ frame.data_length \in {0, count[w]}
            /\ frame.frame_size = count[w]
            /\ BufferFits(frame)
            /\ frame_counter' = frame_counter + 1
            /\ faults' \in {faults, faults + 1}
            /\ UNCHANGED << memory_cap, pending_oframe, lockVars, count, usage,
                            cap_seen, waiting, woken, taskletVars, purgeVars,
                            deviceVars >>
  <1>1. frame_counter \in Nat /\ count[w] \in Nat
    BY DEF TypeOK
  <1>2. PICK bare : /\ Enqueue(w, bare)
                    /\ \/ bare = AddData(FrameNew(frame_counter), count[w])
                       \/ bare = UpdateBufferSize(FrameNew(frame_counter), count[w])
                       \/ bare = FrameNew(frame_counter)
    BY DEF InsertFrame, InsertUncopied, InsertUnallocated
  <1>3. /\ bare \in Frame
        /\ bare.number = frame_counter
        /\ bare.data_length \in {0, count[w]}
        /\ BufferFits(bare)
    BY <1>1, <1>2, InsertedFrame
  <1> DEFINE frame == [bare EXCEPT !.frame_size = count[w]]
  <1>4. /\ frame \in Frame
        /\ frame.number = frame_counter
        /\ frame.data_length \in {0, count[w]}
        /\ frame.frame_size = count[w]
        /\ BufferFits(frame)
    BY <1>1, <1>3 DEF Frame, BufferFits
  <1>5. faults' \in {faults, faults + 1}
    BY DEF InsertFrame, InsertUncopied, InsertUnallocated, Fault
  <1> QED BY <1>2, <1>4, <1>5 DEF Enqueue

\* Every variable has its type, the tasklet its lock and every frame its room.
THEOREM TypeCorrect == Spec => []TypeInv
  <1>1. Init => TypeInv
    <2>1. /\ EmptyFlist \in Flist(Frame) /\ Accounted(EmptyFlist)
          /\ Len(EmptyFlist.frames) = 0
      BY EmptyAccounted, EmptyFrames
    <2>2. Init => FramesInv
      BY <2>1 DEF Init, FramesInv
    <2>3. << >> \in Seq(Nat)
      OBVIOUS
    <2>4. Init => TypeOK
      <3> SUFFICES ASSUME Init PROVE TypeOK
        OBVIOUS
      <3>1. wire \in Seq(Nat) /\ card \in SUBSET Nat
        BY <2>3 DEF Init
      <3>2. frame_counter \in Nat \ {0} /\ memory_cap \in Nat
        BY CapsAssumption DEF Init
      <3>3. queued_oframes \in Flist(Frame) /\ pending_oframe \in Frame \cup {NoFrame}
        BY <2>1 DEF Init
      <3>4. /\ wpc \in [Writers -> {"idle", "down", "queued", "pending", "test",
                                    "asleep", "insert", "kick"}]
            /\ ppc \in [Purgers -> {"idle", "mutex", "board", "reset", "queued",
                                    "pending", "wake"}]
        BY DEF Init
      <3>5. /\ count \in [Writers -> Nat] /\ usage \in [Writers -> Int]
            /\ cap_seen \in [Writers -> Nat] /\ mark \in [Purgers -> Nat]
            /\ waiting \in [Writers -> BOOLEAN] /\ woken \in [Writers -> BOOLEAN]
        BY DEF Init
      <3> QED BY <3>1, <3>2, <3>3, <3>4, <3>5 DEF Init, TypeOK
    <2>5. Init => TaskletLock
      BY ActorsAssumption DEF Init, TaskletLock
    <2> QED BY <2>2, <2>4, <2>5 DEF TypeInv
  <1>2. TypeInv /\ [Next]_vars => TypeInv'
    <2> SUFFICES ASSUME TypeInv, [Next]_vars
                 PROVE  TypeInv'
      OBVIOUS
    <2>1. ASSUME NEW w \in Writers, NEW n \in Sizes, Write(w, n)
          PROVE  TypeInv'
      BY <2>1, SizesAssumption DEF TypeInv, TypeOK, TaskletLock, FramesInv,
         Write
    <2>2. ASSUME NEW w \in Writers, DownWriteSemaphore(w)
          PROVE  TypeInv'
      BY <2>2 DEF TypeInv, TypeOK, TaskletLock, FramesInv, DownWriteSemaphore
    <2>3. ASSUME NEW w \in Writers, ReadQueuedUsage(w)
          PROVE  TypeInv'
      BY <2>3 DEF TypeInv, TypeOK, TaskletLock, FramesInv, ReadQueuedUsage,
         Flist
    <2>4. ASSUME NEW w \in Writers, ReadPendingUsage(w)
          PROVE  TypeInv'
      <3>1. PendingLength \in Nat
        BY DEF TypeInv, TypeOK, PendingLength, Frame
      <3> QED
        BY <2>4, <3>1
        DEF TypeInv, TypeOK, TaskletLock, FramesInv, ReadPendingUsage, AddPending
    <2>5. ASSUME NEW w \in Writers, TestRoom(w)
          PROVE  TypeInv'
      BY <2>5 DEF TypeInv, TypeOK, TaskletLock, FramesInv, TestRoom, AfterRoom
    <2>6. ASSUME NEW w \in Writers, TestFullBlock(w)
          PROVE  TypeInv'
      BY <2>6 DEF TypeInv, TypeOK, TaskletLock, FramesInv, TestFullBlock
    <2>7. ASSUME NEW w \in Writers, TestFullAgain(w)
          PROVE  TypeInv'
      BY <2>7 DEF TypeInv, TypeOK, TaskletLock, FramesInv, TestFullAgain, Return
    <2>8. ASSUME NEW w \in Writers, TestFullSleep(w)
          PROVE  TypeInv'
      BY <2>8 DEF TypeInv, TypeOK, TaskletLock, FramesInv, TestFullSleep
    <2>9. ASSUME NEW w \in Writers, LookAgain(w)
          PROVE  TypeInv'
      BY <2>9 DEF TypeInv, TypeOK, TaskletLock, FramesInv, LookAgain
    <2>10. ASSUME NEW w \in Writers,
                 InsertFrame(w) \/ InsertUncopied(w) \/ InsertUnallocated(w)
          PROVE  TypeInv'
      <3>1. PICK frame \in Frame :
               /\ queued_oframes' = FlistAdd(queued_oframes, frame)
               /\ wpc' = [wpc EXCEPT ![w] = "kick"]
               /\ BufferFits(frame)
               /\ frame_counter' = frame_counter + 1
               /\ faults' \in {faults, faults + 1}
               /\ UNCHANGED << memory_cap, pending_oframe, lockVars, count, usage,
                               cap_seen, waiting, woken, taskletVars, purgeVars,
                               deviceVars >>
        BY <2>10, EnqueuedFrame DEF TypeInv
      <3>2. /\ queued_oframes' \in Flist(Frame)
            /\ Accounted(queued_oframes')
            /\ \A i \in 1..Len(queued_oframes'.frames) :
                  BufferFits(queued_oframes'.frames[i])
        <4>1. queued_oframes \in Flist(Frame) /\ Accounted(queued_oframes)
          BY DEF TypeInv, TypeOK, FramesInv
        <4>2. ASSUME NEW i \in 1..Len(queued_oframes'.frames)
              PROVE  BufferFits(queued_oframes'.frames[i])
          <5>1. \/ /\ i \in 1..Len(queued_oframes.frames)
                   /\ queued_oframes'.frames[i] = queued_oframes.frames[i]
                \/ queued_oframes'.frames[i] = frame
            BY <3>1, <4>1, AddedFrames
          <5> QED BY <3>1, <5>1 DEF TypeInv, FramesInv
        <4>3. queued_oframes' \in Flist(Frame) /\ Accounted(queued_oframes')
          BY <3>1, <4>1, AddAccounted
        <4> QED BY <4>2, <4>3
      <3>3. TypeOK'
        <4>1. frame_counter' \in Nat \ {0}
          BY <3>1 DEF TypeInv, TypeOK
        <4>2. wpc' \in [Writers -> {"idle", "down", "queued", "pending", "test",
                                    "asleep", "insert", "kick"}]
          BY <3>1 DEF TypeInv, TypeOK
        <4>3. faults' \in Nat
          BY <3>1 DEF TypeInv, TypeOK
        <4> QED BY <3>1, <3>2, <4>1, <4>2, <4>3 DEF TypeInv, TypeOK
      <3>4. TaskletLock'
        BY <3>1 DEF TypeInv, TaskletLock
      <3>5. FramesInv'
        BY <3>1, <3>2 DEF TypeInv, FramesInv
      <3> QED BY <3>3, <3>4, <3>5 DEF TypeInv
    <2>11. ASSUME NEW w \in Writers, InsertNoMemory(w)
          PROVE  TypeInv'
      BY <2>11 DEF TypeInv, TypeOK, TaskletLock, FramesInv, InsertNoMemory,
         Return, Fault
    <2>12. ASSUME NEW w \in Writers, KickTasklet(w)
          PROVE  TypeInv'
      BY <2>12 DEF TypeInv, TypeOK, TaskletLock, FramesInv, KickTasklet, Return
    <2>13. ASSUME NEW w \in Writers, Interrupt(w)
          PROVE  TypeInv'
      BY <2>13 DEF TypeInv, TypeOK, TaskletLock, FramesInv, Interrupt, Return
    <2>14. CASE TimerHandler
      <3>1. TypeOK'
        <4>1. /\ UNCHANGED << memory_cap, frame_counter, memoryVars, lockVars >>
              /\ UNCHANGED << writerVars, tpc, gave_up, purgeVars, deviceVars, faults >>
              /\ timer_armed' \in BOOLEAN /\ scheduled' \in BOOLEAN
          BY <2>14 DEF TimerHandler
        <4> QED BY <4>1 DEF TypeInv, TypeOK
      <3>2. TaskletLock' /\ FramesInv'
        BY <2>14 DEF TypeInv, TaskletLock, FramesInv, TimerHandler
      <3> QED BY <3>1, <3>2 DEF TypeInv
    <2>15. CASE RunTasklet
      BY <2>15 DEF TypeInv, TypeOK, TaskletLock, FramesInv, RunTasklet
    <2>16. CASE LockBoardTx
      BY <2>16 DEF TypeInv, TypeOK, TaskletLock, FramesInv, LockBoardTx
    <2>17. CASE LockPending
      BY <2>17, ActorsAssumption DEF TypeInv, TypeOK, TaskletLock, FramesInv,
         LockPending
    <2>18. CASE PickFrame
      <3>1. CASE pending_oframe # NoFrame
        BY <2>18, <3>1 DEF TypeInv, TypeOK, TaskletLock, FramesInv, PickFrame
      <3>2. CASE pending_oframe = NoFrame
        <4>1. /\ queued_oframes.frames # << >>
              /\ pending_oframe' = Head(queued_oframes.frames)
              /\ queued_oframes' = FlistRemove(queued_oframes)
          BY <2>18, <3>2 DEF PickFrame
        <4>2. /\ pending_oframe' \in Frame
              /\ queued_oframes' \in Flist(Frame)
              /\ Accounted(queued_oframes')
          BY <4>1, RemoveAccounted DEF TypeInv, TypeOK, FramesInv
        <4>3. /\ BufferFits(pending_oframe')
              /\ \A i \in 1..Len(queued_oframes'.frames) :
                    BufferFits(queued_oframes'.frames[i])
          BY <4>1, RemovedFrames DEF TypeInv, TypeOK, FramesInv
        <4>4. pending_oframe' # NoFrame
          BY <4>2, ActorsAssumption
        <4> QED
          BY <2>18, <4>2, <4>3, <4>4
          DEF TypeInv, TypeOK, TaskletLock, FramesInv, PickFrame
      <3> QED BY <3>1, <3>2
    <2>19. CASE NothingToSend
      BY <2>19, ActorsAssumption DEF TypeInv, TypeOK, TaskletLock, FramesInv,
         NothingToSend, UnlockFrames
    <2>20. CASE NothingPrepared
      BY <2>20, ActorsAssumption DEF TypeInv, TypeOK, TaskletLock, FramesInv,
         NothingPrepared, UnlockFrames
    <2>21. CASE SubmitLoad
      <3>1. /\ pending_oframe \in Frame /\ BufferFits(pending_oframe)
            /\ pending_oframe' =
                  RemoveData(pending_oframe, TransmitLength(pending_oframe))
            /\ wire' = Append(wire, pending_oframe.number)
        BY <2>21 DEF TypeInv, TypeOK, TaskletLock, FramesInv, SubmitLoad,
           Prepare
      <3>2. /\ pending_oframe' \in Frame /\ BufferFits(pending_oframe')
            /\ pending_oframe' # NoFrame
        BY <3>1, RemoveDataFacts, TransmitLengthFacts, ActorsAssumption
      <3>3. wire' \in Seq(Nat)
        BY <3>1, AppendProperties DEF TypeInv, TypeOK, Frame
      <3> QED
        BY <2>21, <3>2, <3>3
        DEF TypeInv, TypeOK, TaskletLock, FramesInv, SubmitLoad, Prepare
    <2>22. CASE SubmitFails
      BY <2>22 DEF TypeInv, TypeOK, TaskletLock, FramesInv, SubmitFails,
         Prepare, Fault
    <2>23. CASE AnnounceSize
      BY <2>23 DEF TypeInv, TypeOK, TaskletLock, FramesInv, AnnounceSize
    <2>24. CASE ExecuteTransmit
      BY <2>24 DEF TypeInv, TypeOK, TaskletLock, FramesInv, ExecuteTransmit
    <2>25. CASE FinishLoad
      BY <2>25, ActorsAssumption DEF TypeInv, TypeOK, TaskletLock, FramesInv,
         FinishLoad, UnlockFrames
    <2>26. CASE WakeAndReschedule
      BY <2>26 DEF TypeInv, TypeOK, TaskletLock, FramesInv, WakeAndReschedule,
         WakeOutputQueue, Reschedule
    <2>27. CASE UrbComplete
      <3>1. wire' \in Seq(Nat) /\ card' \in SUBSET Nat
        <4>1. Head(wire) \in Nat /\ Tail(wire) \in Seq(Nat)
          BY <2>27, HeadTailProperties DEF TypeInv, TypeOK, UrbComplete
        <4> QED BY <2>27, <4>1 DEF TypeInv, TypeOK, UrbComplete
      <3> QED
        BY <2>27, <3>1 DEF TypeInv, TypeOK, TaskletLock, FramesInv, UrbComplete
    <2>28. CASE UrbFails
      BY <2>28 DEF TypeInv, TypeOK, TaskletLock, FramesInv, UrbFails, Fault
    <2>29. ASSUME NEW p \in Purgers, Purge(p)
          PROVE  TypeInv'
      BY <2>29 DEF TypeInv, TypeOK, TaskletLock, FramesInv, Purge
    <2>30. ASSUME NEW p \in Purgers, LockRegisters(p)
          PROVE  TypeInv'
      BY <2>30 DEF TypeInv, TypeOK, TaskletLock, FramesInv, LockRegisters
    <2>31. ASSUME NEW p \in Purgers, LockBoard(p)
          PROVE  TypeInv'
      BY <2>31 DEF TypeInv, TypeOK, TaskletLock, FramesInv, LockBoard
    <2>32. ASSUME NEW p \in Purgers, ExecuteTRES(p)
          PROVE  TypeInv'
      BY <2>32 DEF TypeInv, TypeOK, TaskletLock, FramesInv, ExecuteTRES
    <2>33. ASSUME NEW p \in Purgers, ClearQueued(p)
          PROVE  TypeInv'
      <3>1. /\ EmptyFlist \in Flist(Frame) /\ Accounted(EmptyFlist)
            /\ Len(EmptyFlist.frames) = 0
        BY EmptyAccounted, EmptyFrames
      <3> QED
        BY <2>33, <3>1 DEF TypeInv, TypeOK, TaskletLock, FramesInv, ClearQueued
    <2>34. ASSUME NEW p \in Purgers, ClearPending(p)
          PROVE  TypeInv'
      BY <2>34, ActorsAssumption DEF TypeInv, TypeOK, TaskletLock, FramesInv,
         ClearPending
    <2>35. ASSUME NEW p \in Purgers, WakeAndReturn(p)
          PROVE  TypeInv'
      BY <2>35 DEF TypeInv, TypeOK, TaskletLock, FramesInv, WakeAndReturn,
         WakeOutputQueue
    <2>36. ASSUME NEW c \in Caps, SetMemoryCap(c)
          PROVE  TypeInv'
      BY <2>36, CapsAssumption DEF TypeInv, TypeOK, TaskletLock, FramesInv,
         SetMemoryCap
    <2>37. CASE UNCHANGED vars
      BY <2>37 DEF TypeInv, TypeOK, TaskletLock, FramesInv, vars
    <2> QED
      BY <2>1, <2>2, <2>3, <2>4, <2>5, <2>6, <2>7, <2>8, <2>9, <2>10, <2>11,
         <2>12, <2>13, <2>14, <2>15, <2>16, <2>17, <2>18, <2>19, <2>20, <2>21,
         <2>22, <2>23, <2>24, <2>25, <2>26, <2>27, <2>28, <2>29, <2>30, <2>31,
         <2>32, <2>33, <2>34, <2>35, <2>36, <2>37
      DEF Next, WriterStep, TaskletStep, PurgeStep
  <1> QED BY <1>1, <1>2, PTL DEF Spec

\* The type invariant of the specification.
THEOREM TypesHold == Spec => []TypeOK
  <1>1. TypeInv => TypeOK
    BY DEF TypeInv
  <1> QED BY <1>1, TypeCorrect, PTL

\* A load handed to USB, padding included, lies within the frame's allocation.
THEOREM LoadsStayWithinBuffer == Spec => []TransmitWithinBuffer
  <1>1. TypeInv => TransmitWithinBuffer
    <2> SUFFICES ASSUME TypeInv, pending_oframe # NoFrame
                 PROVE  TransmitLength(pending_oframe) <= pending_oframe.buffer_size
      BY DEF TransmitWithinBuffer
    <2>1. /\ pending_oframe \in Frame
          /\ pending_oframe.data_length <= pending_oframe.buffer_size
          /\ pending_oframe.buffer_size % 4 = 0
      BY DEF TypeInv, TypeOK, FramesInv, BufferFits
    <2>2. pending_oframe.data_length \in Nat /\ pending_oframe.buffer_size \in Nat
      BY <2>1 DEF Frame
    <2>3. /\ FourAligned(pending_oframe.data_length) \in Nat
          /\ FourAligned(pending_oframe.data_length) <= pending_oframe.buffer_size
      BY <2>1, <2>2, FourAlignedFacts
    <2>4. /\ TransmitLength(pending_oframe) \in Nat
          /\ TransmitLength(pending_oframe) <= FourAligned(pending_oframe.data_length)
      BY <2>1, TransmitLengthFacts
    <2> QED BY <2>2, <2>3, <2>4
  <1> QED BY <1>1, TypeCorrect, PTL

\* The estimate of the queue, which is kept by adding and subtracting lengths and
\* never recomputed, is the number of bytes in it.
THEOREM EstimatesAreExact == Spec => []EstimateIsExact
  <1>1. TypeInv => EstimateIsExact
    BY AccountedIsExact DEF TypeInv, TypeOK, FramesInv, EstimateIsExact
  <1> QED BY <1>1, TypeCorrect, PTL

-----------------------------------------------------------------------------
(* What changes the frames of the port                                     *)

Inserts(w) == InsertFrame(w) \/ InsertUncopied(w) \/ InsertUnallocated(w)

\* The writers' own steps, but for the insertion.
WriterMoves(w) ==
  \/ \E n \in Sizes : Write(w, n)
  \/ DownWriteSemaphore(w)
  \/ ReadQueuedUsage(w) \/ ReadPendingUsage(w)
  \/ TestRoom(w) \/ TestFullBlock(w) \/ TestFullAgain(w) \/ TestFullSleep(w)
  \/ LookAgain(w) \/ InsertNoMemory(w) \/ KickTasklet(w) \/ Interrupt(w)

\* A step is an insertion, or leaves the frames alone but for five actions.
LEMMA FrameSteps ==
  ASSUME [Next]_vars
  PROVE  \/ \E w \in Writers : Inserts(w)
         \/ PickFrame
         \/ SubmitLoad
         \/ FinishLoad
         \/ \E p \in Purgers : ClearQueued(p) \/ ClearPending(p)
         \/ UNCHANGED << queued_oframes, pending_oframe, frame_counter >>
  <1>1. ASSUME NEW w \in Writers, WriterMoves(w)
        PROVE  UNCHANGED << queued_oframes, pending_oframe, frame_counter >>
    BY <1>1 DEF WriterMoves, Write, DownWriteSemaphore, ReadQueuedUsage,
       ReadPendingUsage, TestRoom, TestFullBlock, TestFullAgain, TestFullSleep,
       LookAgain, InsertNoMemory, KickTasklet, Interrupt
  <1>2. ASSUME TaskletStep
        PROVE  \/ PickFrame \/ SubmitLoad \/ FinishLoad
               \/ UNCHANGED << queued_oframes, pending_oframe, frame_counter >>
    BY <1>2 DEF TaskletStep, RunTasklet, LockBoardTx, LockPending,
       NothingToSend,
       NothingPrepared, SubmitFails, Prepare, AnnounceSize, ExecuteTransmit,
       WakeAndReschedule
  <1>3. ASSUME NEW p \in Purgers, Purge(p) \/ PurgeStep(p)
        PROVE  \/ ClearQueued(p) \/ ClearPending(p)
               \/ UNCHANGED << queued_oframes, pending_oframe, frame_counter >>
    BY <1>3 DEF Purge, PurgeStep, LockRegisters, LockBoard, ExecuteTRES,
       WakeAndReturn
  <1>4. CASE TimerHandler \/ UrbComplete \/ UrbFails
             \/ (\E c \in Caps : SetMemoryCap(c)) \/ UNCHANGED vars
    BY <1>4 DEF TimerHandler, UrbComplete, UrbFails, SetMemoryCap, vars
  <1> QED
    BY <1>1, <1>2, <1>3, <1>4 DEF Next, WriterStep, WriterMoves, Inserts

\* The port's usage is a number of bytes.
LEMMA UsageType ==
  ASSUME TypeInv
  PROVE  /\ queued_oframes.estimated_memory_usage \in Nat
         /\ PendingLength \in Nat
         /\ Usage \in Nat
  <1>1. queued_oframes.estimated_memory_usage \in Nat
    BY AccountedNat DEF TypeInv, TypeOK, FramesInv
  <1>2. PendingLength \in Nat
    BY DEF TypeInv, TypeOK, PendingLength, Frame
  <1> QED BY <1>1, <1>2 DEF Usage

\* Only an insertion makes the usage grow, or the estimate of the queue.
LEMMA UsageOnlyGrowsByInsertion ==
  ASSUME TypeInv, TypeInv', [Next]_vars, \A w \in Writers : ~Inserts(w)
  PROVE  /\ queued_oframes'.estimated_memory_usage
               <= queued_oframes.estimated_memory_usage
         /\ Usage' <= Usage
  <1> DEFINE est == queued_oframes.estimated_memory_usage
  <1>1. /\ est \in Nat /\ PendingLength \in Nat
        /\ est' \in Nat /\ PendingLength' \in Nat
    <2>1. est \in Nat /\ PendingLength \in Nat
      BY UsageType
    <2>2. (est \in Nat /\ PendingLength \in Nat)'
      BY UsageType, PTL
    <2> QED BY <2>1, <2>2
  <1>2. SUFFICES est' <= est /\ est' + PendingLength' <= est + PendingLength
    BY DEF Usage
  <1>3. CASE PickFrame
    <2>1. CASE pending_oframe # NoFrame
      BY <1>1, <1>3, <2>1 DEF PickFrame, PendingLength
    <2>2. CASE pending_oframe = NoFrame
      <3>1. /\ queued_oframes.frames # << >>
            /\ pending_oframe' = Head(queued_oframes.frames)
            /\ queued_oframes' = FlistRemove(queued_oframes)
        BY <1>3, <2>2 DEF PickFrame
      <3>2. Head(queued_oframes.frames) \in Frame
        BY <3>1, RemoveAccounted DEF TypeInv, TypeOK, FramesInv
      <3>3. PendingLength = 0
        BY <2>2 DEF PendingLength
      <3>4. PendingLength' = Head(queued_oframes.frames).data_length
        BY <3>1, <3>2, ActorsAssumption DEF PendingLength
      <3>5. est' = est - Head(queued_oframes.frames).data_length
        BY <3>1 DEF FlistRemove
      <3>6. Head(queued_oframes.frames).data_length \in Nat
        BY <3>2 DEF Frame
      <3> QED BY <1>1, <3>3, <3>4, <3>5, <3>6
    <2> QED BY <2>1, <2>2
  <1>4. CASE SubmitLoad
    <2>1. /\ queued_oframes' = queued_oframes
          /\ pending_oframe \in Frame /\ pending_oframe # NoFrame
          /\ pending_oframe' = RemoveData(pending_oframe, TransmitLength(pending_oframe))
      BY <1>4 DEF SubmitLoad, Prepare, TypeInv, TypeOK, TaskletLock
    <2>2. TransmitLength(pending_oframe) \in Nat
      BY <2>1, TransmitLengthFacts
    <2>3. /\ pending_oframe' \in Frame
          /\ pending_oframe'.data_length <= pending_oframe.data_length
      BY <2>1, <2>2, RemoveDataFacts DEF TypeInv, FramesInv
    <2>4. /\ PendingLength' = pending_oframe'.data_length
          /\ PendingLength = pending_oframe.data_length
      BY <2>1, <2>3, ActorsAssumption DEF PendingLength
    <2> QED BY <1>1, <2>1, <2>3, <2>4
  <1>5. CASE FinishLoad
    <2>1. PendingLength' = PendingLength /\ queued_oframes' = queued_oframes
      BY <1>5 DEF FinishLoad, PendingLength
    <2> QED BY <1>1, <2>1
  <1>6. ASSUME NEW p \in Purgers, ClearQueued(p)
        PROVE  est' <= est /\ est' + PendingLength' <= est + PendingLength
    <2>1. est' = 0 /\ PendingLength' = PendingLength
      BY <1>6 DEF ClearQueued, EmptyFlist, PendingLength
    <2> QED BY <1>1, <2>1
  <1>7. ASSUME NEW p \in Purgers, ClearPending(p)
        PROVE  est' <= est /\ est' + PendingLength' <= est + PendingLength
    <2>1. est' = est /\ PendingLength' = 0
      BY <1>7 DEF ClearPending, PendingLength
    <2> QED BY <1>1, <2>1
  <1>8. CASE UNCHANGED << queued_oframes, pending_oframe, frame_counter >>
    <2>1. est' = est /\ PendingLength' = PendingLength
      BY <1>8 DEF PendingLength
    <2> QED BY <1>1, <2>1
  <1> QED BY <1>3, <1>4, <1>5, <1>6, <1>7, <1>8, FrameSteps

-----------------------------------------------------------------------------
(* Admission against the memory cap                                        *)

\* A writer between down and up of write_semaphore.
Inside(w) ==
  \/ wpc[w] \in {"insert", "kick"}
  \/ wpc[w] \in {"queued", "pending", "test"} /\ ~waiting[w]

SemaphoreInv ==
  \A w \in Writers : /\ Inside(w) => write_semaphore = w
                     /\ wpc[w] = "asleep" => waiting[w]

\* What a writer inside has read is still an upper bound of what it read: only
\* an insertion adds to the usage, and the only one who may insert is itself.
ReadInv ==
  \A w \in Writers : ~waiting[w] =>
     /\ wpc[w] = "pending"
           => queued_oframes.estimated_memory_usage <= usage[w]
     /\ wpc[w] = "test" => Usage <= usage[w]

CapInv ==
  /\ memory_cap \in Caps \cup {InitCap}
  /\ \A w \in Writers :
        wpc[w] = "insert" => cap_seen[w] \in Caps \cup {InitCap}

AdmissionInv == SemaphoreInv /\ ReadInv /\ AdmittedFits /\ CapInv /\ OutputWithinCap

\* An insertion keeps it: nobody else is inside, and the frame has the room its
\* writer tested for.
LEMMA InsertionKeepsAdmission ==
  ASSUME TypeInv, TypeInv', AdmissionInv, NEW w \in Writers, Inserts(w)
  PROVE  AdmissionInv'
  <1>1. PICK frame \in Frame :
            /\ wpc[w] = "insert"
            /\ wpc' = [wpc EXCEPT ![w] = "kick"]
            /\ queued_oframes' = FlistAdd(queued_oframes, frame)
            /\ frame.data_length <= count[w]
            /\ UNCHANGED << memory_cap, pending_oframe, write_semaphore, count,
                            usage, cap_seen, waiting >>
    <2>1. count[w] \in Nat
      BY DEF TypeInv, TypeOK
    <2> QED BY <2>1, EnqueuedFrame DEF Inserts, TypeInv
  <1>2. /\ wpc \in [Writers -> {"idle", "down", "queued", "pending", "test",
                                "asleep", "insert", "kick"}]
        /\ wpc'[w] = "kick"
        /\ \A v \in Writers \ {w} : wpc'[v] = wpc[v]
        /\ write_semaphore = w
    BY <1>1 DEF TypeInv, TypeOK, AdmissionInv, SemaphoreInv, Inside
  <1>3. \A v \in Writers \ {w} : ~Inside(v)
    BY <1>2 DEF AdmissionInv, SemaphoreInv
  <1>4. SemaphoreInv'
    BY <1>1, <1>2, <1>3 DEF AdmissionInv, SemaphoreInv, Inside
  <1>5. ReadInv'
    BY <1>1, <1>2, <1>3 DEF ReadInv, Inside
  <1>6. AdmittedFits'
    BY <1>1, <1>2, <1>3 DEF AdmittedFits, Inside
  <1>7. CapInv'
    BY <1>1, <1>2 DEF AdmissionInv, CapInv
  <1>8. OutputWithinCap'
    <2>1. Usage' = Usage + frame.data_length
      <3>1. frame.data_length \in Nat
        BY DEF Frame
      <3>2. /\ queued_oframes'.estimated_memory_usage
                 = queued_oframes.estimated_memory_usage + frame.data_length
            /\ PendingLength' = PendingLength
        BY <1>1 DEF FlistAdd, PendingLength
      <3> QED BY <3>1, <3>2, UsageType DEF Usage
    <2>2. Usage + count[w] <= cap_seen[w] /\ cap_seen[w] \in Caps \cup {InitCap}
      BY <1>1 DEF AdmissionInv, AdmittedFits, CapInv
    <2>3. /\ Usage \in Nat /\ count[w] \in Nat /\ cap_seen[w] \in Nat
          /\ frame.data_length \in Nat
      BY UsageType DEF TypeInv, TypeOK, Frame
    <2>4. Usage' <= cap_seen[w]
      BY <1>1, <2>1, <2>2, <2>3
    <2> QED BY <2>2, <2>4 DEF OutputWithinCap
  <1> QED BY <1>4, <1>5, <1>6, <1>7, <1>8 DEF AdmissionInv

\* A step that neither inserts nor is a writer's own leaves the writers alone.
LEMMA OtherSteps ==
  ASSUME [Next]_vars, \A w \in Writers : ~Inserts(w) /\ ~WriterMoves(w)
  PROVE  /\ UNCHANGED << wpc, count, usage, cap_seen, waiting, write_semaphore >>
         /\ memory_cap' \in Caps \cup {memory_cap}
  <1>1. CASE TaskletStep
    BY <1>1 DEF TaskletStep, RunTasklet, LockBoardTx, LockPending, PickFrame,
       NothingToSend, NothingPrepared, SubmitLoad, SubmitFails, Prepare,
       AnnounceSize, ExecuteTransmit, FinishLoad, WakeAndReschedule, UnlockFrames
  <1>2. ASSUME NEW p \in Purgers, Purge(p) \/ PurgeStep(p)
        PROVE  /\ UNCHANGED << wpc, count, usage, cap_seen, waiting, write_semaphore >>
               /\ memory_cap' = memory_cap
    BY <1>2 DEF Purge, PurgeStep, LockRegisters, LockBoard, ExecuteTRES,
       ClearQueued, ClearPending, WakeAndReturn
  <1>3. CASE TimerHandler \/ UrbComplete \/ UrbFails
             \/ (\E c \in Caps : SetMemoryCap(c)) \/ UNCHANGED vars
    BY <1>3 DEF TimerHandler, UrbComplete, UrbFails, SetMemoryCap, vars
  <1> QED BY <1>1, <1>2, <1>3 DEF Next, WriterStep, WriterMoves, Inserts

\* A writer's own steps keep it: the frames and the cap do not move meanwhile.
LEMMA WriterMovesKeepAdmission ==
  ASSUME TypeInv, TypeInv', AdmissionInv, NEW w \in Writers, WriterMoves(w)
  PROVE  AdmissionInv'
  <1>1. /\ UNCHANGED << memory_cap, queued_oframes, pending_oframe >>
        /\ Usage' = Usage
        /\ OutputWithinCap'
    <2>1. UNCHANGED << memory_cap, queued_oframes, pending_oframe >>
      BY DEF WriterMoves, Write, DownWriteSemaphore, ReadQueuedUsage,
         ReadPendingUsage, TestRoom, TestFullBlock, TestFullAgain, TestFullSleep,
         LookAgain, InsertNoMemory, KickTasklet, Interrupt
    <2>2. Usage' = Usage
      BY <2>1 DEF Usage, PendingLength
    <2> QED BY <2>1, <2>2 DEF AdmissionInv, OutputWithinCap
  <1>2. /\ Usage \in Nat /\ PendingLength \in Nat /\ memory_cap \in Nat
        /\ queued_oframes.estimated_memory_usage \in Nat
        /\ Usage = queued_oframes.estimated_memory_usage + PendingLength
    BY UsageType DEF TypeInv, TypeOK, Usage
  <1>3. /\ wpc \in [Writers -> {"idle", "down", "queued", "pending", "test",
                                "asleep", "insert", "kick"}]
        /\ count \in [Writers -> Nat]
        /\ usage \in [Writers -> Int]
        /\ cap_seen \in [Writers -> Nat]
        /\ waiting \in [Writers -> BOOLEAN]
        /\ write_semaphore \in Writers \cup {Nobody}
        /\ Nobody \notin Writers
    BY ActorsAssumption DEF TypeInv, TypeOK
  <1>4. ASSUME NEW n \in Sizes, Write(w, n)
        PROVE  AdmissionInv'
    BY <1>1, <1>2, <1>3, <1>4
    DEF Write, AdmissionInv, SemaphoreInv, ReadInv, AdmittedFits, CapInv, Inside
  <1>5. CASE DownWriteSemaphore(w)
    BY <1>1, <1>2, <1>3, <1>5
    DEF DownWriteSemaphore, AdmissionInv, SemaphoreInv, ReadInv, AdmittedFits,
        CapInv, Inside
  <1>6. CASE ReadQueuedUsage(w)
    BY <1>1, <1>2, <1>3, <1>6
    DEF ReadQueuedUsage, AdmissionInv, SemaphoreInv, ReadInv, AdmittedFits,
        CapInv, Inside
  <1>7. CASE ReadPendingUsage(w)
    BY <1>1, <1>2, <1>3, <1>7
    DEF ReadPendingUsage, AddPending, AdmissionInv, SemaphoreInv, ReadInv, AdmittedFits,
        CapInv, Inside
  <1>8. CASE TestRoom(w)
    BY <1>1, <1>2, <1>3, <1>8
    DEF TestRoom, AfterRoom, AdmissionInv, SemaphoreInv, ReadInv, AdmittedFits,
        CapInv, Inside
  <1>9. CASE TestFullBlock(w)
    BY <1>1, <1>2, <1>3, <1>9
    DEF TestFullBlock, AdmissionInv, SemaphoreInv, ReadInv, AdmittedFits,
        CapInv, Inside
  <1>10. CASE TestFullAgain(w)
    BY <1>1, <1>2, <1>3, <1>10
    DEF TestFullAgain, Return, AdmissionInv, SemaphoreInv, ReadInv, AdmittedFits,
        CapInv, Inside
  <1>11. CASE TestFullSleep(w)
    BY <1>1, <1>2, <1>3, <1>11
    DEF TestFullSleep, AdmissionInv, SemaphoreInv, ReadInv, AdmittedFits,
        CapInv, Inside
  <1>12. CASE LookAgain(w)
    BY <1>1, <1>2, <1>3, <1>12
    DEF LookAgain, AdmissionInv, SemaphoreInv, ReadInv, AdmittedFits,
        CapInv, Inside
  <1>13. CASE InsertNoMemory(w)
    BY <1>1, <1>2, <1>3, <1>13
    DEF InsertNoMemory, Return, Fault, AdmissionInv, SemaphoreInv, ReadInv, AdmittedFits,
        CapInv, Inside
  <1>14. CASE KickTasklet(w)
    BY <1>1, <1>2, <1>3, <1>14
    DEF KickTasklet, Return, AdmissionInv, SemaphoreInv, ReadInv, AdmittedFits,
        CapInv, Inside
  <1>15. CASE Interrupt(w)
    BY <1>1, <1>2, <1>3, <1>15
    DEF Interrupt, Return, AdmissionInv, SemaphoreInv, ReadInv, AdmittedFits,
        CapInv, Inside
  <1> QED
    BY <1>4, <1>5, <1>6, <1>7, <1>8, <1>9, <1>10, <1>11, <1>12, <1>13,
       <1>14, <1>15
    DEF WriterMoves

\* So does every other step, since it does not add to the usage.
LEMMA OtherStepsKeepAdmission ==
  ASSUME TypeInv, TypeInv', AdmissionInv, [Next]_vars,
         \A w \in Writers : ~Inserts(w) /\ ~WriterMoves(w)
  PROVE  AdmissionInv'
  <1> DEFINE est == queued_oframes.estimated_memory_usage
  <1>1. /\ est \in Nat /\ Usage \in Nat /\ est' \in Nat /\ Usage' \in Nat
    <2>1. est \in Nat /\ Usage \in Nat
      BY UsageType
    <2>2. (est \in Nat /\ Usage \in Nat)'
      BY UsageType, PTL
    <2> QED BY <2>1, <2>2
  <1>2. est' <= est /\ Usage' <= Usage
    BY UsageOnlyGrowsByInsertion
  <1>3. /\ UNCHANGED << wpc, count, usage, cap_seen, waiting, write_semaphore >>
        /\ memory_cap' \in Caps \cup {memory_cap}
    BY OtherSteps
  <1>4. SemaphoreInv'
    BY <1>3 DEF AdmissionInv, SemaphoreInv, Inside
  <1>5. ReadInv'
    <2> SUFFICES ASSUME NEW w \in Writers, ~waiting[w]
                 PROVE  /\ wpc[w] = "pending" => est' <= usage[w]
                        /\ wpc[w] = "test" => Usage' <= usage[w]
      BY <1>3 DEF ReadInv
    <2>1. usage[w] \in Int
      BY DEF TypeInv, TypeOK
    <2> QED BY <1>1, <1>2, <2>1 DEF AdmissionInv, ReadInv
  <1>6. AdmittedFits'
    BY <1>1, <1>2, <1>3 DEF AdmissionInv, AdmittedFits, TypeInv, TypeOK
  <1>7. CapInv'
    BY <1>3 DEF AdmissionInv, CapInv
  <1>8. OutputWithinCap'
    BY <1>1, <1>2, CapsAssumption DEF AdmissionInv, OutputWithinCap
  <1> QED BY <1>4, <1>5, <1>6, <1>7, <1>8 DEF AdmissionInv

\* What a write was admitted for still fits, and the port's output memory stays
\* within the caps, however writers, tasklet, purges and cap changes interleave.
THEOREM AdmissionCorrect == Spec => []AdmissionInv
  <1>1. Init => AdmissionInv
    <2> SUFFICES ASSUME Init PROVE AdmissionInv
      OBVIOUS
    <2>1. Usage = 0
      BY DEF Init, Usage, PendingLength, EmptyFlist
    <2>2. OutputWithinCap
      BY <2>1, CapsAssumption DEF OutputWithinCap
    <2> QED
      BY <2>2 DEF Init, AdmissionInv, SemaphoreInv, ReadInv, AdmittedFits,
         CapInv,
         Inside
  <1>2. TypeInv /\ TypeInv' /\ AdmissionInv /\ [Next]_vars => AdmissionInv'
    BY InsertionKeepsAdmission, WriterMovesKeepAdmission,
       OtherStepsKeepAdmission
  <1> QED BY <1>1, <1>2, TypeCorrect, PTL DEF Spec

\* A writer about to insert has the room it tested for (synccom_write), whatever
\* happened since it read the usage in two halves.
THEOREM AdmittedWritesFit == Spec => []AdmittedFits
  <1>1. AdmissionInv => AdmittedFits
    BY DEF AdmissionInv
  <1> QED BY <1>1, AdmissionCorrect, PTL

\* The output memory in use stays within one of the caps that can be set
\* (get_output_memory_usage, SYNCCOM_SET_MEMORY_CAP).
THEOREM OutputStaysWithinCap == Spec => []OutputWithinCap
  <1>1. AdmissionInv => OutputWithinCap
    BY DEF AdmissionInv
  <1> QED BY <1>1, AdmissionCorrect, PTL

-----------------------------------------------------------------------------
(* Purges                                                                  *)

\* Once a purge has emptied the queue nothing older than it comes back into it,
\* and the tasklet can only take what came later.
PurgeInv ==
  \A p \in Purgers :
     /\ mark[p] <= frame_counter
     /\ ppc[p] \in {"pending", "wake"} =>
           \A i \in 1..Len(queued_oframes.frames) :
              queued_oframes.frames[i].number >= mark[p]
     /\ ppc[p] = "wake" /\ pending_oframe # NoFrame =>
           pending_oframe.number >= mark[p]

\* What a step does to the purges.
LEMMA PurgeSteps ==
  ASSUME [Next]_vars
  PROVE  \/ UNCHANGED << ppc, mark >>
         \/ \E p \in Purgers : Purge(p) \/ PurgeStep(p)
  <1>1. ASSUME NEW w \in Writers, WriterMoves(w) \/ Inserts(w)
        PROVE  UNCHANGED << ppc, mark >>
    BY <1>1 DEF WriterMoves, Inserts, Write, DownWriteSemaphore,
       ReadQueuedUsage,
       ReadPendingUsage, TestRoom, TestFullBlock, TestFullAgain, TestFullSleep,
       LookAgain, InsertNoMemory, KickTasklet, Interrupt, InsertFrame,
       InsertUncopied, InsertUnallocated, Enqueue
  <1>2. CASE TaskletStep
    BY <1>2 DEF TaskletStep, RunTasklet, LockBoardTx, LockPending, PickFrame,
       NothingToSend, NothingPrepared, SubmitLoad, SubmitFails, Prepare,
       AnnounceSize, ExecuteTransmit, FinishLoad, WakeAndReschedule
  <1>3. CASE TimerHandler \/ UrbComplete \/ UrbFails
             \/ (\E c \in Caps : SetMemoryCap(c)) \/ UNCHANGED vars
    BY <1>3 DEF TimerHandler, UrbComplete, UrbFails, SetMemoryCap, vars
  <1> QED BY <1>1, <1>2, <1>3 DEF Next, WriterStep, WriterMoves, Inserts

\* When the frames move, no purge does, but for its own clearing.
LEMMA FrameStepsKeepPurge ==
  ASSUME TypeInv, TypeInv', PurgeInv, UNCHANGED << ppc, mark >>,
         \/ \E w \in Writers : Inserts(w)
         \/ PickFrame
         \/ SubmitLoad
         \/ FinishLoad
         \/ UNCHANGED << queued_oframes, pending_oframe, frame_counter >>
  PROVE  PurgeInv'
  <1>1. /\ frame_counter \in Nat /\ mark \in [Purgers -> Nat]
        /\ queued_oframes \in Flist(Frame)
    BY DEF TypeInv, TypeOK
  <1>2. ASSUME NEW w \in Writers, Inserts(w)
        PROVE  PurgeInv'
    <2>1. PICK frame \in Frame :
             /\ queued_oframes' = FlistAdd(queued_oframes, frame)
             /\ frame.number = frame_counter
             /\ frame_counter' = frame_counter + 1
             /\ pending_oframe' = pending_oframe
      BY <1>2, EnqueuedFrame DEF Inserts, TypeInv
    <2>2. ASSUME NEW i \in 1..Len(queued_oframes'.frames)
          PROVE  \/ /\ i \in 1..Len(queued_oframes.frames)
                    /\ queued_oframes'.frames[i] = queued_oframes.frames[i]
                 \/ queued_oframes'.frames[i].number = frame_counter
      BY <1>1, <2>1, AddedFrames
    <2>3. ASSUME NEW p \in Purgers
          PROVE  mark[p] <= frame_counter /\ mark[p] <= frame_counter'
      BY <1>1, <2>1 DEF PurgeInv
    <2> QED BY <1>1, <2>1, <2>2, <2>3 DEF PurgeInv
  <1>3. CASE PickFrame
    <2>1. CASE pending_oframe # NoFrame
      BY <1>3, <2>1 DEF PickFrame, PurgeInv
    <2>2. CASE pending_oframe = NoFrame
      <3>1. /\ queued_oframes.frames # << >>
            /\ pending_oframe' = Head(queued_oframes.frames)
            /\ queued_oframes' = FlistRemove(queued_oframes)
            /\ frame_counter' = frame_counter
        BY <1>3, <2>2 DEF PickFrame
      <3>2. /\ 1 \in 1..Len(queued_oframes.frames)
            /\ pending_oframe' = queued_oframes.frames[1]
            /\ \A i \in 1..Len(queued_oframes'.frames) :
                  /\ queued_oframes'.frames[i] = queued_oframes.frames[i + 1]
                  /\ i + 1 \in 1..Len(queued_oframes.frames)
        BY <1>1, <3>1, RemovedFrames
      <3> QED BY <3>1, <3>2 DEF PurgeInv
    <2> QED BY <2>1, <2>2
  <1>4. CASE SubmitLoad
    <2>1. /\ pending_oframe \in Frame /\ pending_oframe # NoFrame
          /\ BufferFits(pending_oframe)
          /\ pending_oframe' = RemoveData(pending_oframe, TransmitLength(pending_oframe))
          /\ UNCHANGED << queued_oframes, frame_counter >>
      BY <1>4 DEF SubmitLoad, Prepare, TypeInv, TypeOK, TaskletLock, FramesInv
    <2>2. pending_oframe'.number = pending_oframe.number
      BY <2>1, RemoveDataFacts, TransmitLengthFacts
    <2> QED BY <2>1, <2>2 DEF PurgeInv
  <1>5. CASE FinishLoad
    BY <1>5 DEF FinishLoad, PurgeInv
  <1>6. CASE UNCHANGED << queued_oframes, pending_oframe, frame_counter >>
    BY <1>6 DEF PurgeInv
  <1> QED BY <1>2, <1>3, <1>4, <1>5, <1>6

\* A purge's own steps keep the invariant.
LEMMA PurgeStepsKeepPurge ==
  ASSUME TypeInv, PurgeInv, NEW p \in Purgers, Purge(p) \/ PurgeStep(p)
  PROVE  PurgeInv'
  <1>1. /\ frame_counter \in Nat \ {0} /\ mark \in [Purgers -> Nat]
        /\ ppc \in [Purgers -> {"idle", "mutex", "board", "reset", "queued",
                                "pending", "wake"}]
    BY DEF TypeInv, TypeOK
  <1>2. CASE Purge(p)
    BY <1>1, <1>2 DEF Purge, PurgeInv
  <1>3. CASE LockRegisters(p)
    BY <1>1, <1>3 DEF LockRegisters, PurgeInv
  <1>4. CASE LockBoard(p)
    BY <1>1, <1>4 DEF LockBoard, PurgeInv
  <1>5. CASE ExecuteTRES(p)
    BY <1>1, <1>5 DEF ExecuteTRES, PurgeInv
  <1>6. CASE ClearQueued(p)
    <2>1. \A i \in 1..Len(queued_oframes'.frames) : FALSE
      BY <1>6, EmptyFrames DEF ClearQueued
    <2> QED BY <1>1, <1>6, <2>1 DEF ClearQueued, PurgeInv
  <1>7. CASE ClearPending(p)
    BY <1>1, <1>7 DEF ClearPending, PurgeInv
  <1>8. CASE WakeAndReturn(p)
    BY <1>1, <1>8 DEF WakeAndReturn, PurgeInv
  <1> QED BY <1>2, <1>3, <1>4, <1>5, <1>6, <1>7, <1>8 DEF PurgeStep

\* A purge that has cleared both queues left no frame accepted before it began,
\* wherever the tasklet was: the order queue first, pending frame second is what
\* the proof rests on.
THEOREM PurgesDropOldFrames == Spec => []PurgeDropsOld
  <1>1. Init => PurgeInv
    <2> SUFFICES ASSUME Init PROVE PurgeInv
      OBVIOUS
    <2>1. \A p \in Purgers : mark[p] = 0 /\ ppc[p] = "idle" /\ frame_counter = 1
      BY DEF Init
    <2> QED BY <2>1 DEF PurgeInv
  <1>2. TypeInv /\ TypeInv' /\ PurgeInv /\ [Next]_vars => PurgeInv'
    <2> SUFFICES ASSUME TypeInv, TypeInv', PurgeInv, [Next]_vars
                 PROVE  PurgeInv'
      OBVIOUS
    <2>1. CASE \E p \in Purgers : Purge(p) \/ PurgeStep(p)
      BY <2>1, PurgeStepsKeepPurge
    <2>2. CASE /\ UNCHANGED << ppc, mark >>
               /\ ~ \E p \in Purgers : Purge(p) \/ PurgeStep(p)
      <3>1. ~ \E p \in Purgers : ClearQueued(p) \/ ClearPending(p)
        BY <2>2 DEF PurgeStep
      <3> QED BY <2>2, <3>1, FrameSteps, FrameStepsKeepPurge
    <2> QED BY <2>1, <2>2, PurgeSteps
  <1>3. PurgeInv => PurgeDropsOld
    BY DEF PurgeInv, PurgeDropsOld
  <1> QED BY <1>1, <1>2, <1>3, TypeCorrect, PTL DEF Spec

-----------------------------------------------------------------------------
(* The order of the frames                                                 *)

\* The numbers of the queued frames, which are those in which they were accepted.
QueuedNumber(i) == queued_oframes.frames[i].number

\* From the URBs in flight over the frame that is being sent to the end of the
\* queue the numbers go up; only the loads of one frame have the same.
SentInOrder ==
  /\ \A i, j \in 1..Len(wire) : i < j => wire[i] <= wire[j]
  /\ \A i, j \in 1..Len(queued_oframes.frames) : i < j => QueuedNumber(i) < QueuedNumber(j)
  /\ \A i \in 1..Len(wire), j \in 1..Len(queued_oframes.frames) : wire[i] < QueuedNumber(j)
  /\ pending_oframe # NoFrame =>
        /\ \A i \in 1..Len(wire) : wire[i] <= pending_oframe.number
        /\ \A j \in 1..Len(queued_oframes.frames) : pending_oframe.number < QueuedNumber(j)

\* The next frame gets a number that none of them has.
NumbersAreUsed ==
  /\ \A i \in 1..Len(wire) : wire[i] < frame_counter
  /\ \A i \in 1..Len(queued_oframes.frames) : QueuedNumber(i) < frame_counter
  /\ pending_oframe # NoFrame => pending_oframe.number < frame_counter

OrderInv == SentInOrder /\ NumbersAreUsed

\* What the numbers are.
LEMMA NumberTypes ==
  ASSUME TypeInv
  PROVE  /\ frame_counter \in Nat
         /\ Len(wire) \in Nat /\ Len(queued_oframes.frames) \in Nat
         /\ \A i \in 1..Len(wire) : wire[i] \in Nat
         /\ \A i \in 1..Len(queued_oframes.frames) : QueuedNumber(i) \in Nat
         /\ pending_oframe # NoFrame => pending_oframe.number \in Nat
  <1>1. frame_counter \in Nat /\ wire \in Seq(Nat)
    BY DEF TypeInv, TypeOK
  <1>2. queued_oframes.frames \in Seq(Frame) /\ pending_oframe \in Frame \cup {NoFrame}
    BY DEF TypeInv, TypeOK, Flist
  <1>3. Len(wire) \in Nat /\ \A i \in 1..Len(wire) : wire[i] \in Nat
    BY <1>1
  <1>4. /\ Len(queued_oframes.frames) \in Nat
        /\ \A i \in 1..Len(queued_oframes.frames) : queued_oframes.frames[i] \in Frame
    BY <1>2
  <1>5. \A i \in 1..Len(queued_oframes.frames) : QueuedNumber(i) \in Nat
    BY <1>4 DEF QueuedNumber, Frame
  <1>6. pending_oframe # NoFrame => pending_oframe.number \in Nat
    BY <1>2 DEF Frame
  <1> QED BY <1>1, <1>3, <1>4, <1>5, <1>6

\* A load is handed to USB, or a URB ends, or the URBs stay.
LEMMA WireSteps ==
  ASSUME [Next]_vars
  PROVE  \/ SubmitLoad
         \/ /\ wire # << >> /\ wire' = Tail(wire)
            /\ UNCHANGED << queued_oframes, pending_oframe, frame_counter >>
         \/ UNCHANGED wire
  <1>1. ASSUME NEW w \in Writers, WriterMoves(w) \/ Inserts(w)
        PROVE  UNCHANGED wire
    BY <1>1 DEF WriterMoves, Inserts, Write, DownWriteSemaphore, ReadQueuedUsage,
       ReadPendingUsage, TestRoom, TestFullBlock, TestFullAgain, TestFullSleep,
       LookAgain, InsertNoMemory, KickTasklet, Interrupt, InsertFrame,
       InsertUncopied, InsertUnallocated, Enqueue
  <1>2. ASSUME TaskletStep
        PROVE  SubmitLoad \/ UNCHANGED wire
    BY <1>2 DEF TaskletStep, RunTasklet, LockBoardTx, LockPending, PickFrame,
       NothingToSend, NothingPrepared, SubmitFails, Prepare, AnnounceSize,
       ExecuteTransmit, FinishLoad, WakeAndReschedule
  <1>3. ASSUME NEW p \in Purgers, Purge(p) \/ PurgeStep(p)
        PROVE  UNCHANGED wire
    BY <1>3 DEF Purge, PurgeStep, LockRegisters, LockBoard, ExecuteTRES,
       ClearQueued, ClearPending, WakeAndReturn
  <1>4. CASE UrbComplete \/ UrbFails
    BY <1>4 DEF UrbComplete, UrbFails
  <1>5. CASE TimerHandler \/ (\E c \in Caps : SetMemoryCap(c)) \/ UNCHANGED vars
    BY <1>5 DEF TimerHandler, SetMemoryCap, vars
  <1> QED
    BY <1>1, <1>2, <1>3, <1>4, <1>5 DEF Next, WriterStep, WriterMoves, Inserts

\* A new frame goes behind all the others.
LEMMA InsertionKeepsOrder ==
  ASSUME TypeInv, TypeInv', OrderInv, NEW w \in Writers, Inserts(w)
  PROVE  OrderInv'
  <1>1. PICK frame \in Frame :
           /\ queued_oframes' = FlistAdd(queued_oframes, frame)
           /\ frame.number = frame_counter
           /\ frame_counter' = frame_counter + 1
           /\ UNCHANGED << pending_oframe, wire >>
    BY EnqueuedFrame DEF Inserts, TypeInv
  <1>2. queued_oframes \in Flist(Frame)
    BY DEF TypeInv, TypeOK
  <1> PICK n \in Nat : n = Len(queued_oframes.frames)
    BY NumberTypes
  <1>3. /\ Len(queued_oframes.frames)' = n + 1
        /\ \A i \in 1..n : QueuedNumber(i)' = QueuedNumber(i)
        /\ QueuedNumber(n + 1)' = frame_counter
    BY <1>1, <1>2, AddedFrames DEF QueuedNumber
  <1>4. \A i \in 1..Len(queued_oframes.frames)' : i \in 1..n \/ i = n + 1
    BY <1>3
  <1>5. /\ frame_counter \in Nat
        /\ \A i \in 1..n : QueuedNumber(i) \in Nat
    BY NumberTypes
  <1>6. /\ Len(wire)' = Len(wire) /\ \A i \in 1..Len(wire) : wire'[i] = wire[i]
        /\ pending_oframe' = pending_oframe
        /\ frame_counter' = frame_counter + 1
    BY <1>1
  <1>7. NumbersAreUsed'
    <2>1. ASSUME NEW i \in 1..Len(queued_oframes.frames)'
          PROVE  QueuedNumber(i)' < frame_counter'
      <3>1. CASE i \in 1..n
        BY <1>3, <1>5, <1>6, <3>1 DEF OrderInv, NumbersAreUsed
      <3>2. CASE i = n + 1
        BY <1>3, <1>5, <1>6, <3>2
      <3> QED BY <1>4, <3>1, <3>2
    <2>2. ASSUME NEW i \in 1..Len(wire)
          PROVE  wire[i] < frame_counter'
      BY <1>5, <1>6, NumberTypes DEF OrderInv, NumbersAreUsed
    <2>3. pending_oframe # NoFrame => pending_oframe.number < frame_counter'
      BY <1>5, <1>6, NumberTypes DEF OrderInv, NumbersAreUsed
    <2> QED BY <1>1, <2>1, <2>2, <2>3 DEF NumbersAreUsed
  <1>8. ASSUME NEW i \in 1..Len(queued_oframes.frames)',
               NEW j \in 1..Len(queued_oframes.frames)', i < j
        PROVE  QueuedNumber(i)' < QueuedNumber(j)'
    <2>1. i \in 1..n /\ (j \in 1..n \/ j = n + 1)
      BY <1>3, <1>4, <1>8
    <2> QED BY <1>3, <2>1, <1>8 DEF OrderInv, SentInOrder, NumbersAreUsed
  <1>9. ASSUME NEW i \in 1..Len(wire), NEW j \in 1..Len(queued_oframes.frames)'
        PROVE  wire[i] < QueuedNumber(j)'
    BY <1>3, <1>4 DEF OrderInv, SentInOrder, NumbersAreUsed
  <1>10. ASSUME pending_oframe # NoFrame, NEW j \in 1..Len(queued_oframes.frames)'
         PROVE  pending_oframe.number < QueuedNumber(j)'
    BY <1>3, <1>4, <1>10 DEF OrderInv, SentInOrder, NumbersAreUsed
  <1>11. SentInOrder'
    BY <1>1, <1>8, <1>9, <1>10 DEF OrderInv, SentInOrder
  <1> QED BY <1>7, <1>11 DEF OrderInv

\* The tasklet takes the first frame of the queue.
LEMMA PickKeepsOrder ==
  ASSUME TypeInv, OrderInv, PickFrame
  PROVE  OrderInv'
  <1>1. CASE pending_oframe # NoFrame
    BY <1>1 DEF PickFrame, OrderInv, SentInOrder, NumbersAreUsed, QueuedNumber
  <1>2. CASE pending_oframe = NoFrame
    <2>1. /\ queued_oframes.frames # << >>
          /\ pending_oframe' = Head(queued_oframes.frames)
          /\ queued_oframes' = FlistRemove(queued_oframes)
          /\ UNCHANGED << wire, frame_counter >>
      BY <1>2 DEF PickFrame
    <2>2. queued_oframes \in Flist(Frame)
      BY DEF TypeInv, TypeOK
    <2>3. /\ 1 \in 1..Len(queued_oframes.frames)
          /\ pending_oframe'.number = QueuedNumber(1)
          /\ \A i \in 1..Len(queued_oframes.frames)' :
                /\ QueuedNumber(i)' = QueuedNumber(i + 1)
                /\ i + 1 \in 1..Len(queued_oframes.frames)
      BY <2>1, <2>2, RemovedFrames DEF QueuedNumber
    <2>4. ASSUME NEW i \in 1..Len(queued_oframes.frames)',
                 NEW j \in 1..Len(queued_oframes.frames)', i < j
          PROVE  QueuedNumber(i)' < QueuedNumber(j)'
      <3>1. i + 1 < j + 1
        BY <2>4
      <3> QED BY <2>3, <3>1 DEF OrderInv, SentInOrder
    <2>5. ASSUME NEW i \in 1..Len(wire), NEW j \in 1..Len(queued_oframes.frames)'
          PROVE  wire[i] < QueuedNumber(j)'
      BY <2>3 DEF OrderInv, SentInOrder
    <2>6. ASSUME NEW i \in 1..Len(wire)
          PROVE  wire[i] <= pending_oframe'.number
      BY <2>3, NumberTypes DEF OrderInv, SentInOrder
    <2>7. ASSUME NEW j \in 1..Len(queued_oframes.frames)'
          PROVE  pending_oframe'.number < QueuedNumber(j)'
      <3>1. 1 < j + 1
        OBVIOUS
      <3> QED BY <2>3, <3>1 DEF OrderInv, SentInOrder
    <2>8. SentInOrder'
      BY <2>1, <2>4, <2>5, <2>6, <2>7 DEF OrderInv, SentInOrder
    <2>9. NumbersAreUsed'
      BY <2>1, <2>3 DEF OrderInv, NumbersAreUsed
    <2> QED BY <2>8, <2>9 DEF OrderInv
  <1> QED BY <1>1, <1>2

\* A load goes behind the URBs in flight, which are of its frame or of older ones.
LEMMA LoadKeepsOrder ==
  ASSUME TypeInv, OrderInv, SubmitLoad
  PROVE  OrderInv'
  <1>1. /\ pending_oframe \in Frame /\ pending_oframe # NoFrame
        /\ BufferFits(pending_oframe)
        /\ pending_oframe' = RemoveData(pending_oframe, TransmitLength(pending_oframe))
        /\ wire' = Append(wire, pending_oframe.number)
        /\ UNCHANGED << queued_oframes, frame_counter >>
    BY DEF SubmitLoad, Prepare, TypeInv, TypeOK, TaskletLock, FramesInv
  <1>2. pending_oframe'.number = pending_oframe.number
    BY <1>1, RemoveDataFacts, TransmitLengthFacts
  <1> DEFINE n == Len(wire)
             new == pending_oframe.number
  <1>3. wire \in Seq(Nat) /\ new \in Nat
    BY <1>1 DEF TypeInv, TypeOK, Frame
  <1>4. /\ n \in Nat /\ Len(wire)' = n + 1
        /\ \A i \in 1..n : wire'[i] = wire[i]
        /\ wire'[n + 1] = new
    BY <1>1, <1>3, AppendProperties
  <1>5. \A i \in 1..Len(wire)' : i \in 1..n \/ i = n + 1
    BY <1>4
  <1>6. /\ \A i \in 1..n : wire[i] <= new /\ wire[i] < frame_counter
        /\ \A j \in 1..Len(queued_oframes.frames) : new < QueuedNumber(j)
        /\ new < frame_counter
    BY <1>1 DEF OrderInv, SentInOrder, NumbersAreUsed
  <1>7. \A j : QueuedNumber(j)' = QueuedNumber(j)
    BY <1>1 DEF QueuedNumber
  <1> HIDE DEF n, new
  <1>8. ASSUME NEW i \in 1..Len(wire)', NEW j \in 1..Len(wire)', i < j
        PROVE  wire'[i] <= wire'[j]
    <2>1. i \in 1..n /\ (j \in 1..n \/ j = n + 1)
      BY <1>4, <1>5, <1>8
    <2>2. CASE j = n + 1
      BY <1>4, <1>6, <2>1, <2>2
    <2>3. CASE j \in 1..n
      BY <1>4, <1>8, <2>1, <2>3 DEF OrderInv, SentInOrder, n
    <2> QED BY <2>1, <2>2, <2>3
  <1>9. ASSUME NEW i \in 1..Len(wire)'
        PROVE  /\ wire'[i] <= new /\ wire'[i] < frame_counter
               /\ \A j \in 1..Len(queued_oframes.frames) : wire'[i] < QueuedNumber(j)
    <2>1. CASE i = n + 1
      BY <1>3, <1>4, <1>6, <2>1
    <2>2. CASE i \in 1..n
      BY <1>4, <1>6, <2>2 DEF OrderInv, SentInOrder, n
    <2> QED BY <1>5, <2>1, <2>2
  <1>10. SentInOrder'
    BY <1>1, <1>2, <1>6, <1>7, <1>8, <1>9 DEF OrderInv, SentInOrder, new
  <1>11. NumbersAreUsed'
    BY <1>1, <1>2, <1>6, <1>7, <1>9 DEF OrderInv, NumbersAreUsed, new
  <1> QED BY <1>10, <1>11 DEF OrderInv

\* Where frames or URBs only go away, the others stay in order.
LEMMA RemovalKeepsOrder ==
  ASSUME TypeInv, OrderInv, UNCHANGED frame_counter,
         \/ UNCHANGED queued_oframes
         \/ queued_oframes' = EmptyFlist,
         \/ UNCHANGED pending_oframe
         \/ pending_oframe' = NoFrame,
         \/ UNCHANGED wire
         \/ wire # << >> /\ wire' = Tail(wire)
  PROVE  OrderInv'
  <1>1. /\ \A j \in 1..Len(queued_oframes.frames)' :
              j \in 1..Len(queued_oframes.frames) /\ QueuedNumber(j)' = QueuedNumber(j)
    <2>1. CASE UNCHANGED queued_oframes
      BY <2>1 DEF QueuedNumber
    <2>2. CASE queued_oframes' = EmptyFlist
      BY <2>2, EmptyFrames
    <2> QED BY <2>1, <2>2
  <1>2. \E m \in {0, 1} : \A i \in 1..Len(wire)' :
           i + m \in 1..Len(wire) /\ wire'[i] = wire[i + m]
    <2>1. wire \in Seq(Nat)
      BY DEF TypeInv, TypeOK
    <2>2. CASE UNCHANGED wire
      <3>1. \A i \in 1..Len(wire)' : i + 0 \in 1..Len(wire) /\ wire'[i] = wire[i + 0]
        BY <2>2
      <3> QED BY <3>1
    <2>3. CASE wire # << >> /\ wire' = Tail(wire)
      <3>1. Len(wire) \in Nat \ {0}
        BY <2>1, <2>3, EmptySeq
      <3>2. \A i \in 1..Len(wire)' : i + 1 \in 1..Len(wire) /\ wire'[i] = wire[i + 1]
        BY <2>1, <2>3, <3>1, HeadTailProperties
      <3> QED BY <3>2
    <2> QED BY <2>2, <2>3
  <1>3. PICK m \in {0, 1} : \A i \in 1..Len(wire)' :
           i + m \in 1..Len(wire) /\ wire'[i] = wire[i + m]
    BY <1>2
  <1>4. ASSUME NEW i \in 1..Len(wire)', NEW j \in 1..Len(wire)', i < j
        PROVE  wire'[i] <= wire'[j]
    <2>1. i + m < j + m
      BY <1>4
    <2> QED BY <1>3, <2>1 DEF OrderInv, SentInOrder
  <1>5. ASSUME NEW i \in 1..Len(wire)'
        PROVE  /\ wire'[i] < frame_counter
               /\ pending_oframe # NoFrame => wire'[i] <= pending_oframe.number
               /\ \A j \in 1..Len(queued_oframes.frames) : wire'[i] < QueuedNumber(j)
    BY <1>3 DEF OrderInv, SentInOrder, NumbersAreUsed
  <1>6. pending_oframe' # NoFrame => pending_oframe' = pending_oframe
    OBVIOUS
  <1>7. SentInOrder'
    BY <1>1, <1>4, <1>5, <1>6 DEF OrderInv, SentInOrder
  <1>8. NumbersAreUsed'
    BY <1>1, <1>5, <1>6 DEF OrderInv, NumbersAreUsed
  <1> QED BY <1>7, <1>8 DEF OrderInv

\* Frames reach USB in the order in which they were accepted, and none is handed
\* over again behind a newer one, wherever purges clear the queue and the frame
\* that is being sent (synccom_port_write, oframe_worker, flist.c).
THEOREM FramesLeaveInOrder == Spec => []SentInOrder
  <1>1. Init => OrderInv
    <2> SUFFICES ASSUME Init PROVE OrderInv
      OBVIOUS
    <2>1. wire = << >> /\ queued_oframes = EmptyFlist /\ pending_oframe = NoFrame
      BY DEF Init
    <2>2. \A i \in 1..Len(wire) : FALSE
      BY <2>1, EmptySeq
    <2>3. \A i \in 1..Len(queued_oframes.frames) : FALSE
      BY <2>1, EmptyFrames
    <2> QED BY <2>1, <2>2, <2>3 DEF OrderInv, SentInOrder, NumbersAreUsed
  <1>2. TypeInv /\ TypeInv' /\ OrderInv /\ [Next]_vars => OrderInv'
    <2> SUFFICES ASSUME TypeInv, TypeInv', OrderInv, [Next]_vars
                 PROVE  OrderInv'
      OBVIOUS
    <2>1. CASE SubmitLoad
      BY <2>1, LoadKeepsOrder
    <2>2. CASE \E w \in Writers : Inserts(w)
      BY <2>2, InsertionKeepsOrder
    <2>3. CASE PickFrame
      BY <2>3, PickKeepsOrder
    <2>4. CASE /\ wire # << >> /\ wire' = Tail(wire)
               /\ UNCHANGED << queued_oframes, pending_oframe, frame_counter >>
      BY <2>4, RemovalKeepsOrder
    <2>5. CASE /\ UNCHANGED wire
               /\ \/ FinishLoad
                  \/ \E p \in Purgers : ClearQueued(p) \/ ClearPending(p)
                  \/ UNCHANGED << queued_oframes, pending_oframe, frame_counter >>
      <3>1. /\ UNCHANGED frame_counter
            /\ UNCHANGED queued_oframes \/ queued_oframes' = EmptyFlist
            /\ UNCHANGED pending_oframe \/ pending_oframe' = NoFrame
        BY <2>5 DEF FinishLoad, ClearQueued, ClearPending
      <3> QED BY <2>5, <3>1, RemovalKeepsOrder
    <2> QED BY <2>1, <2>2, <2>3, <2>4, <2>5, FrameSteps, WireSteps
  <1>3. OrderInv => SentInOrder
    BY DEF OrderInv
  <1> QED BY <1>1, <1>2, <1>3, TypeCorrect, PTL DEF Spec

-----------------------------------------------------------------------------
(* Kicks of the tasklet                                                    *)

\* While the port has a frame at all, something will run the tasklet.
Kicked == \/ gave_up
          \/ scheduled
          \/ tpc # "idle"
          \/ \E w \in Writers : wpc[w] = "kick"

KickInv == pending_oframe # NoFrame \/ queued_oframes.frames # << >> => Kicked

\* A writer's step keeps a kick that is due, and kicks before it forgets to.
LEMMA WritersKeepKick ==
  ASSUME TypeInv, KickInv, NEW w \in Writers, WriterMoves(w) \/ Inserts(w)
  PROVE  KickInv'
  <1>1. wpc \in [Writers -> {"idle", "down", "queued", "pending", "test",
                             "asleep", "insert", "kick"}]
    BY DEF TypeInv, TypeOK
  <1>2. CASE Inserts(w)
    <2>1. wpc'[w] = "kick"
      BY <1>1, <1>2, EnqueuedFrame DEF Inserts, TypeInv
    <2> QED BY <2>1 DEF KickInv, Kicked
  <1>3. CASE KickTasklet(w)
    BY <1>3 DEF KickTasklet, KickInv, Kicked
  <1>4. CASE WriterMoves(w) /\ ~KickTasklet(w)
    <2>1. UNCHANGED << pending_oframe, queued_oframes, gave_up, scheduled, tpc >>
      BY <1>4 DEF WriterMoves, Write, DownWriteSemaphore, ReadQueuedUsage,
         ReadPendingUsage, TestRoom, TestFullBlock, TestFullAgain, TestFullSleep,
         LookAgain, InsertNoMemory, Interrupt
    <2>2. wpc[w] # "kick" /\ \E pc : wpc' = [wpc EXCEPT ![w] = pc]
      BY <1>4 DEF WriterMoves, Write, DownWriteSemaphore, ReadQueuedUsage,
         ReadPendingUsage, TestRoom, TestFullBlock, TestFullAgain, TestFullSleep,
         LookAgain, InsertNoMemory, Interrupt, Return
    <2>3. ASSUME NEW v \in Writers, wpc[v] = "kick"
          PROVE  wpc'[v] = "kick"
      BY <1>1, <2>2, <2>3
    <2> QED BY <2>1, <2>3 DEF KickInv, Kicked
  <1> QED BY <1>2, <1>3, <1>4

\* The tasklet goes idle only with nothing left, with a new kick, or giving up.
LEMMA TaskletKeepsKick ==
  ASSUME TypeInv, KickInv, TaskletStep
  PROVE  KickInv'
  <1>1. CASE NothingToSend
    BY <1>1 DEF NothingToSend, KickInv
  <1>2. CASE NothingPrepared
    BY <1>2 DEF NothingPrepared, KickInv, Kicked
  <1>3. CASE WakeAndReschedule
    BY <1>3 DEF WakeAndReschedule, Reschedule, KickInv, Kicked
  <1>4. CASE ~NothingToSend /\ ~NothingPrepared /\ ~WakeAndReschedule
    <2>1. tpc' # "idle"
      BY <1>4 DEF TaskletStep, RunTasklet, LockBoardTx, LockPending, PickFrame,
         SubmitLoad, SubmitFails, Prepare, AnnounceSize, ExecuteTransmit, FinishLoad
    <2> QED BY <2>1 DEF KickInv, Kicked
  <1> QED BY <1>1, <1>2, <1>3, <1>4

\* No kick is lost: a port with a frame to send has a tasklet that will look at
\* it, unless its last run met a frame without data.
THEOREM NoKickIsLost == Spec => []WorkIsScheduled
  <1>1. Init => KickInv
    BY DEF Init, KickInv, EmptyFlist
  <1>2. TypeInv /\ KickInv /\ [Next]_vars => KickInv'
    <2> SUFFICES ASSUME TypeInv, KickInv, [Next]_vars
                 PROVE  KickInv'
      OBVIOUS
    <2>1. ASSUME NEW w \in Writers, WriterMoves(w) \/ Inserts(w)
          PROVE  KickInv'
      BY <2>1, WritersKeepKick
    <2>2. CASE TaskletStep
      BY <2>2, TaskletKeepsKick
    <2>3. CASE TimerHandler
      BY <2>3 DEF TimerHandler, KickInv, Kicked
    <2>4. ASSUME NEW p \in Purgers, Purge(p) \/ PurgeStep(p)
          PROVE  KickInv'
      <3>1. UNCHANGED << gave_up, scheduled, tpc, wpc >>
        BY <2>4 DEF Purge, PurgeStep, LockRegisters, LockBoard, ExecuteTRES,
           ClearQueued, ClearPending, WakeAndReturn
      <3>2. \/ UNCHANGED << queued_oframes, pending_oframe >>
            \/ queued_oframes'.frames = << >> /\ pending_oframe' = pending_oframe
            \/ pending_oframe' = NoFrame /\ queued_oframes' = queued_oframes
        BY <2>4, EmptyFrames DEF Purge, PurgeStep, LockRegisters, LockBoard,
           ExecuteTRES, ClearQueued, ClearPending, WakeAndReturn
      <3> QED BY <3>1, <3>2 DEF KickInv, Kicked
    <2>5. CASE UrbComplete \/ UrbFails
               \/ (\E c \in Caps : SetMemoryCap(c)) \/ UNCHANGED vars
      BY <2>5 DEF UrbComplete, UrbFails, SetMemoryCap, vars, KickInv, Kicked
    <2> QED
      BY <2>1, <2>2, <2>3, <2>4, <2>5 DEF Next, WriterStep, WriterMoves, Inserts
  <1>3. KickInv => WorkIsScheduled
    BY DEF KickInv, Kicked, WorkIsScheduled, SomethingToSend
  <1> QED BY <1>1, <1>2, <1>3, TypeCorrect, PTL DEF Spec

-----------------------------------------------------------------------------
(* The size of a frame                                                     *)

\* Some of the frame was sent, and not all.
Begun(frame) == frame.data_length \notin {0, frame.frame_size}

\* The announcement that the tasklet is about to make.
Announcing == IF tpc = "announce" THEN 1 ELSE 0

\* A frame that was begun was announced, and so was one whose load is being
\* carried out.  Every submission of a whole frame is followed by one announcement:
\* those that failed are counted, and one that succeeded leaves the frame short.
AnnounceInv ==
  /\ \A i \in 1..Len(queued_oframes.frames) :
        queued_oframes.frames[i].data_length
           \in {0, queued_oframes.frames[i].frame_size}
  /\ pending_oframe = NoFrame => announced = 0 /\ refused = 0
  /\ pending_oframe # NoFrame =>
        /\ pending_oframe.data_length <= pending_oframe.frame_size
        /\ tpc # "announce" /\ Begun(pending_oframe) => announced >= 1
  /\ tpc \in {"command", "finish"} => announced >= 1
  /\ pending_oframe # NoFrame =>
        announced + Announcing <=
           refused + (IF pending_oframe.data_length < pending_oframe.frame_size
                      THEN 1 ELSE 0)

\* The steps that send a frame, and the steps that do not.
LEMMA AnnounceSteps ==
  ASSUME TypeInv, [Next]_vars
  PROVE  \/ \E w \in Writers : Inserts(w)
         \/ PickFrame \/ SubmitLoad \/ SubmitFails
         \/ AnnounceSize \/ ExecuteTransmit \/ FinishLoad
         \/ \E p \in Purgers : ClearQueued(p) \/ ClearPending(p)
         \/ /\ UNCHANGED << queued_oframes, pending_oframe, announced, refused >>
            /\ \/ tpc' = tpc
               \/ tpc # "announce" /\ tpc' \notin {"announce", "command", "finish"}
  <1>2. ASSUME NEW w \in Writers, WriterMoves(w)
        PROVE  UNCHANGED << queued_oframes, pending_oframe, announced, refused, tpc >>
    BY <1>2 DEF WriterMoves, Write, DownWriteSemaphore,
       ReadQueuedUsage, ReadPendingUsage, TestRoom, TestFullBlock,
       TestFullAgain, TestFullSleep, LookAgain, KickTasklet, Interrupt,
       InsertNoMemory
  <1>3. CASE \/ RunTasklet \/ LockBoardTx \/ LockPending \/ NothingToSend
             \/ NothingPrepared \/ WakeAndReschedule
    BY <1>3 DEF RunTasklet, LockBoardTx, LockPending, NothingToSend,
       NothingPrepared, WakeAndReschedule
  <1>4. ASSUME NEW p \in Purgers, Purge(p) \/ PurgeStep(p)
        PROVE  \/ ClearQueued(p) \/ ClearPending(p)
               \/ UNCHANGED << queued_oframes, pending_oframe, announced, refused,
                               tpc >>
    BY <1>4 DEF Purge, PurgeStep, LockRegisters, LockBoard, ExecuteTRES,
       WakeAndReturn
  <1>5. CASE TimerHandler \/ UrbComplete \/ UrbFails
             \/ (\E c \in Caps : SetMemoryCap(c)) \/ UNCHANGED vars
    BY <1>5 DEF TimerHandler, UrbComplete, UrbFails, SetMemoryCap, vars
  <1> QED
    BY <1>2, <1>3, <1>4, <1>5
    DEF Next, WriterStep, WriterMoves, Inserts, TaskletStep

\* A load takes something away from a frame that has something.
LEMMA LoadShortens ==
  ASSUME NEW frame \in Frame, TransmitLength(frame) >= 1
  PROVE  LET less == RemoveData(frame, TransmitLength(frame))
         IN  /\ less \in Frame
             /\ frame.data_length > 0
             /\ less.frame_size = frame.frame_size
             /\ less.data_length < frame.data_length
  <1>1. frame.data_length \in Nat /\ TransmitLength(frame) \in Nat
    BY TransmitLengthFacts DEF Frame
  <1>2. frame.data_length > 0
    <2> SUFFICES ASSUME frame.data_length = 0 PROVE FALSE
      BY <1>1
    <2>1. FourAligned(frame.data_length) = 0
      BY DEF FourAligned
    <2> QED BY <2>1, TransmitLengthFacts
  <1> DEFINE sent == Smaller(TransmitLength(frame), frame.data_length)
  <1>3. sent \in Nat /\ 1 <= sent /\ sent <= frame.data_length
    BY <1>1, <1>2 DEF Smaller
  <1> HIDE DEF sent
  <1>4. RemoveData(frame, TransmitLength(frame))
           = [frame EXCEPT !.data_length = frame.data_length - sent]
    BY DEF RemoveData, sent
  <1> QED BY <1>1, <1>2, <1>3, <1>4 DEF Frame

\* The tasklet's steps on a frame keep what is said of its size.
LEMMA TaskletKeepsAnnounce ==
  ASSUME TypeInv, AnnounceInv,
         PickFrame \/ SubmitLoad \/ SubmitFails
           \/ AnnounceSize \/ ExecuteTransmit \/ FinishLoad
  PROVE  AnnounceInv'
  <1>1. /\ queued_oframes \in Flist(Frame)
        /\ pending_oframe \in Frame \cup {NoFrame}
        /\ announced \in Nat /\ refused \in Nat
        /\ tpc \in {"prepare", "announce", "command", "finish"}
              => pending_oframe # NoFrame
    BY DEF TypeInv, TypeOK, TaskletLock
  <1>2. CASE PickFrame
    <2>1. CASE pending_oframe # NoFrame
      BY <1>2, <2>1 DEF PickFrame, AnnounceInv, Announcing
    <2>2. CASE pending_oframe = NoFrame
      <3>1. /\ queued_oframes.frames # << >>
            /\ pending_oframe' = Head(queued_oframes.frames)
            /\ queued_oframes' = FlistRemove(queued_oframes)
            /\ tpc' = "prepare"
            /\ UNCHANGED << announced, refused >>
        BY <1>2, <2>2 DEF PickFrame
      <3>2. /\ 1 \in 1..Len(queued_oframes.frames)
            /\ pending_oframe' = queued_oframes.frames[1]
            /\ \A i \in 1..Len(queued_oframes'.frames) :
                  /\ queued_oframes'.frames[i] = queued_oframes.frames[i + 1]
                  /\ i + 1 \in 1..Len(queued_oframes.frames)
        BY <1>1, <3>1, RemovedFrames
      <3>3. pending_oframe' \in Frame
        BY <1>1, <3>1, HeadTailProperties DEF Flist
      <3>4. /\ pending_oframe'.data_length \in {0, pending_oframe'.frame_size}
            /\ pending_oframe'.data_length <= pending_oframe'.frame_size
        BY <3>2, <3>3 DEF AnnounceInv, Frame
      <3>5. announced = 0 /\ refused = 0 /\ pending_oframe' # NoFrame
        BY <2>2, <3>3, ActorsAssumption DEF AnnounceInv
      <3> QED BY <3>1, <3>2, <3>4, <3>5 DEF AnnounceInv, Announcing, Begun
    <2> QED BY <2>1, <2>2
  <1>3. CASE SubmitLoad
    <2>1. /\ pending_oframe # NoFrame
          /\ TransmitLength(pending_oframe) >= 1
          /\ pending_oframe' =
                RemoveData(pending_oframe, TransmitLength(pending_oframe))
          /\ tpc = "prepare"
          /\ tpc' = IF IsFirstLoad(pending_oframe) THEN "announce" ELSE "command"
          /\ UNCHANGED << queued_oframes, announced, refused >>
      BY <1>1, <1>3 DEF SubmitLoad, Prepare
    <2>2. /\ pending_oframe' \in Frame
          /\ pending_oframe.data_length > 0
          /\ pending_oframe'.frame_size = pending_oframe.frame_size
          /\ pending_oframe'.data_length < pending_oframe.data_length
      BY <1>1, <2>1, LoadShortens
    <2>3. /\ pending_oframe.data_length \in Nat
          /\ pending_oframe.frame_size \in Nat
          /\ pending_oframe'.data_length \in Nat
      BY <1>1, <2>1, <2>2 DEF Frame
    <2>4. pending_oframe' # NoFrame
      BY <2>2, ActorsAssumption
    <2>5. pending_oframe.data_length <= pending_oframe.frame_size
      BY <2>1 DEF AnnounceInv
    <2>6. IsFirstLoad(pending_oframe) <=>
             pending_oframe.data_length = pending_oframe.frame_size
      BY DEF IsFirstLoad
    <2>7. ~IsFirstLoad(pending_oframe) => announced >= 1
      BY <2>1, <2>2, <2>3, <2>6 DEF AnnounceInv, Begun
    <2>8. announced <= refused + (IF IsFirstLoad(pending_oframe) THEN 0 ELSE 1)
      BY <1>1, <2>1, <2>3, <2>5, <2>6 DEF AnnounceInv, Announcing
    <2>9. /\ pending_oframe'.data_length < pending_oframe'.frame_size
          /\ announced + Announcing' <= refused + 1
      BY <1>1, <2>1, <2>2, <2>3, <2>5, <2>8 DEF Announcing
    <2>10. \A i \in 1..Len(queued_oframes'.frames) :
              queued_oframes'.frames[i].data_length
                 \in {0, queued_oframes'.frames[i].frame_size}
      BY <2>1 DEF AnnounceInv
    <2>11. tpc' # "announce" => announced' >= 1
      BY <2>1, <2>7
    <2>12. /\ pending_oframe'.data_length <= pending_oframe'.frame_size
           /\ announced' + Announcing' <=
                refused' + (IF pending_oframe'.data_length < pending_oframe'.frame_size
                            THEN 1 ELSE 0)
      BY <2>1, <2>2, <2>3, <2>9
    <2>13. tpc' \in {"command", "finish"} => announced' >= 1
      BY <2>11
    <2> QED BY <2>4, <2>10, <2>11, <2>12, <2>13 DEF AnnounceInv
  <1>4. CASE SubmitFails
    <2>1. /\ pending_oframe # NoFrame
          /\ TransmitLength(pending_oframe) >= 1
          /\ tpc = "prepare"
          /\ tpc' = IF IsFirstLoad(pending_oframe) THEN "announce" ELSE "command"
          /\ refused' = IF IsFirstLoad(pending_oframe) THEN refused + 1 ELSE refused
          /\ UNCHANGED << queued_oframes, pending_oframe, announced >>
      BY <1>1, <1>4 DEF SubmitFails, Prepare
    <2>2. pending_oframe.data_length > 0
      BY <1>1, <2>1, LoadShortens
    <2>3. ~IsFirstLoad(pending_oframe) => announced >= 1
      BY <1>1, <2>1, <2>2 DEF AnnounceInv, Begun, IsFirstLoad, Frame
    <2>4. announced + Announcing' <=
             refused' + (IF pending_oframe.data_length < pending_oframe.frame_size
                         THEN 1 ELSE 0)
      BY <1>1, <2>1 DEF AnnounceInv, Announcing
    <2>5. tpc' # "announce" => announced >= 1
      BY <2>1, <2>3
    <2> QED BY <1>1, <2>1, <2>4, <2>5 DEF AnnounceInv
  <1>5. CASE AnnounceSize
    BY <1>1, <1>5 DEF AnnounceSize, AnnounceInv, Announcing
  <1>6. CASE ExecuteTransmit
    BY <1>1, <1>6 DEF ExecuteTransmit, AnnounceInv, Announcing
  <1>7. CASE FinishLoad
    <2>1. /\ tpc = "finish" /\ tpc' = "wake"
          /\ UNCHANGED queued_oframes
          /\ \/ pending_oframe' = NoFrame /\ announced' = 0 /\ refused' = 0
             \/ UNCHANGED << pending_oframe, announced, refused >>
      BY <1>1, <1>7 DEF FinishLoad
    <2> QED BY <1>1, <2>1 DEF AnnounceInv, Announcing
  <1> QED BY <1>2, <1>3, <1>4, <1>5, <1>6, <1>7

\* The invariant of the sizes.
LEMMA AnnounceCorrect == Spec => []AnnounceInv
  <1>1. Init => AnnounceInv
    BY EmptyFrames DEF Init, AnnounceInv
  <1>2. TypeInv /\ AnnounceInv /\ [Next]_vars => AnnounceInv'
    <2> SUFFICES ASSUME TypeInv, AnnounceInv, [Next]_vars
                 PROVE  AnnounceInv'
      OBVIOUS
    <2>1. ASSUME NEW w \in Writers, Inserts(w)
          PROVE  AnnounceInv'
      <3>1. PICK frame \in Frame :
               /\ queued_oframes' = FlistAdd(queued_oframes, frame)
               /\ frame.data_length \in {0, count[w]}
               /\ frame.frame_size = count[w]
               /\ UNCHANGED << pending_oframe, taskletVars, deviceVars >>
        BY <2>1, EnqueuedFrame DEF Inserts, TypeInv
      <3>2. queued_oframes \in Flist(Frame)
        BY DEF TypeInv, TypeOK
      <3>3. ASSUME NEW i \in 1..Len(queued_oframes'.frames)
            PROVE  queued_oframes'.frames[i].data_length
                      \in {0, queued_oframes'.frames[i].frame_size}
        <4>1. \/ /\ i \in 1..Len(queued_oframes.frames)
                 /\ queued_oframes'.frames[i] = queued_oframes.frames[i]
              \/ queued_oframes'.frames[i] = frame
          BY <3>1, <3>2, AddedFrames
        <4> QED BY <3>1, <4>1 DEF AnnounceInv
      <3>4. UNCHANGED << pending_oframe, announced, refused, tpc >>
        BY <3>1
      <3> QED BY <3>3, <3>4 DEF AnnounceInv, Announcing
    <2>2. CASE \/ PickFrame \/ SubmitLoad \/ SubmitFails
               \/ AnnounceSize \/ ExecuteTransmit \/ FinishLoad
      BY <2>2, TaskletKeepsAnnounce
    <2>3. ASSUME NEW p \in Purgers, ClearQueued(p)
          PROVE  AnnounceInv'
      BY <2>3, EmptyFrames DEF ClearQueued, AnnounceInv, Announcing
    <2>4. ASSUME NEW p \in Purgers, ClearPending(p)
          PROVE  AnnounceInv'
      <3>1. tpc \notin {"pick", "prepare", "announce", "command", "finish"}
        BY <2>4, ActorsAssumption DEF ClearPending, TypeInv, TaskletLock
      <3> QED BY <2>4, <3>1 DEF ClearPending, AnnounceInv
    <2>5. CASE /\ UNCHANGED << queued_oframes, pending_oframe, announced, refused >>
               /\ \/ tpc' = tpc
                  \/ /\ tpc # "announce"
                     /\ tpc' \notin {"announce", "command", "finish"}
      BY <2>5 DEF AnnounceInv, Announcing
    <2> QED BY <2>1, <2>2, <2>3, <2>4, <2>5, AnnounceSteps
  <1> QED BY <1>1, <1>2, TypeCorrect, PTL DEF Spec

\* However many loads a frame takes, its size is written to BC_FIFO_L at most once,
\* plus once for every failed submission of its first load
\* (prepare_frame_for_fifo).
THEOREM SizesAnnouncedOnce == Spec => []SizeAnnouncedOnce
  <1>1. TypeInv /\ AnnounceInv => SizeAnnouncedOnce
    BY DEF TypeInv, TypeOK, AnnounceInv, Announcing, SizeAnnouncedOnce
  <1> QED BY <1>1, TypeCorrect, AnnounceCorrect, PTL

\* And no frame is deleted as sent before its size was written.
THEOREM FinishedFramesWereAnnounced == Spec => FinishedWasAnnounced
  <1>1. AnnounceInv /\ [Next]_vars =>
           [FinishLoad /\ pending_oframe' = NoFrame => announced >= 1]_vars
    BY DEF AnnounceInv, FinishLoad
  <1> QED BY <1>1, AnnounceCorrect, PTL DEF Spec, FinishedWasAnnounced

-----------------------------------------------------------------------------
(* Backlogs as sequences                                                   *)

Entry == [number : Nat, left : Nat]

AbstractAll(frames) == [i \in 1..Len(frames) |-> Abstract(frames[i])]

PendingPart(pending) == IF pending = NoFrame THEN << >> ELSE << Abstract(pending) >>

BacklogOf(pending, flist) == PendingPart(pending) \o AbstractAll(flist.frames)

\* What TxQueue sees of a frame.
LEMMA AbstractType ==
  ASSUME NEW frame \in Frame
  PROVE  Abstract(frame) \in Entry
  BY DEF Abstract, Entry, Frame

\* A sequence of one entry.
LEMMA OneEntry ==
  ASSUME NEW e \in Entry
  PROVE  << e >> \in Seq(Entry) /\ Len(<< e >>) = 1 /\ << e >>[1] = e
  OBVIOUS

\* A list is seen frame by frame.
LEMMA AbstractAllFacts ==
  ASSUME NEW frames \in Seq(Frame)
  PROVE  /\ AbstractAll(frames) \in Seq(Entry)
         /\ Len(AbstractAll(frames)) = Len(frames)
         /\ \A i \in 1..Len(frames) : AbstractAll(frames)[i] = Abstract(frames[i])
  <1>1. Len(frames) \in Nat
    BY LenProperties
  <1>2. \A i \in 1..Len(frames) : Abstract(frames[i]) \in Entry
    BY AbstractType, ElementOfSeq
  <1>3. AbstractAll(frames) \in [1..Len(frames) -> Entry]
    BY <1>2 DEF AbstractAll
  <1> QED BY <1>1, <1>3 DEF AbstractAll

\* Adding a frame to a list adds what is seen of it.
LEMMA AbstractAppend ==
  ASSUME NEW frames \in Seq(Frame), NEW frame \in Frame
  PROVE  AbstractAll(Append(frames, frame))
            = Append(AbstractAll(frames), Abstract(frame))
  <1> DEFINE longer == Append(frames, frame)
             seen == Append(AbstractAll(frames), Abstract(frame))
  <1>1. /\ longer \in Seq(Frame)
        /\ Len(longer) = Len(frames) + 1
        /\ \A i \in 1..Len(frames) : longer[i] = frames[i]
        /\ longer[Len(frames) + 1] = frame
    BY AppendProperties
  <1>2. /\ AbstractAll(frames) \in Seq(Entry)
        /\ Len(AbstractAll(frames)) = Len(frames)
        /\ \A i \in 1..Len(frames) : AbstractAll(frames)[i] = Abstract(frames[i])
    BY AbstractAllFacts
  <1>3. /\ seen \in Seq(Entry)
        /\ Len(seen) = Len(frames) + 1
        /\ \A i \in 1..Len(frames) : seen[i] = Abstract(frames[i])
        /\ seen[Len(frames) + 1] = Abstract(frame)
    BY <1>2, AbstractType, AppendProperties
  <1>4. /\ AbstractAll(longer) \in Seq(Entry)
        /\ Len(AbstractAll(longer)) = Len(longer)
        /\ \A i \in 1..Len(longer) : AbstractAll(longer)[i] = Abstract(longer[i])
    BY <1>1, AbstractAllFacts
  <1>5. Len(frames) \in Nat
    BY LenProperties
  <1> HIDE DEF longer, seen
  <1>6. ASSUME NEW i \in 1..Len(AbstractAll(longer))
        PROVE  AbstractAll(longer)[i] = seen[i]
    <2>1. CASE i = Len(frames) + 1
      BY <1>1, <1>3, <1>4, <1>5, <2>1
    <2>2. CASE i # Len(frames) + 1
      <3>1. i \in 1..Len(frames) /\ i \in 1..Len(longer)
        BY <1>1, <1>4, <1>5, <2>2
      <3> QED BY <1>1, <1>3, <1>4, <3>1
    <2> QED BY <2>1, <2>2
  <1>7. AbstractAll(longer) = seen
    BY <1>1, <1>3, <1>4, <1>6, SeqEqual
  <1> QED BY <1>7 DEF longer, seen

\* Taking the first frame out of a list and putting it in front changes nothing.
LEMMA AbstractHeadTail ==
  ASSUME NEW frames \in Seq(Frame), frames # << >>
  PROVE  << Abstract(Head(frames)) >> \o AbstractAll(Tail(frames))
            = AbstractAll(frames)
  <1> DEFINE first == << Abstract(Head(frames)) >>
             rest == AbstractAll(Tail(frames))
  <1>1. /\ Head(frames) \in Frame
        /\ Head(frames) = frames[1]
        /\ Tail(frames) \in Seq(Frame)
        /\ Len(Tail(frames)) = Len(frames) - 1
        /\ \A i \in 1..Len(Tail(frames)) : Tail(frames)[i] = frames[i + 1]
    BY HeadTailProperties
  <1>2. Len(frames) \in Nat \ {0}
    BY EmptySeq
  <1>3. /\ first \in Seq(Entry)
        /\ Len(first) = 1
        /\ first[1] = Abstract(frames[1])
    <2>1. Abstract(Head(frames)) \in Entry
      BY <1>1, AbstractType
    <2>2. first[1] = Abstract(frames[1])
      BY <1>1
    <2>3. first \in Seq(Entry) /\ Len(first) = 1
      BY <2>1, OneEntry, Zenon
    <2> HIDE DEF first
    <2> QED BY <2>2, <2>3
  <1>4. /\ rest \in Seq(Entry)
        /\ Len(rest) = Len(frames) - 1
        /\ \A i \in 1..(Len(frames) - 1) : rest[i] = Abstract(frames[i + 1])
    <2>1. /\ rest \in Seq(Entry)
          /\ Len(rest) = Len(Tail(frames))
          /\ \A i \in 1..Len(Tail(frames)) : rest[i] = Abstract(Tail(frames)[i])
      BY <1>1, AbstractAllFacts
    <2> HIDE DEF rest
    <2> QED BY <1>1, <2>1
  <1>5. /\ AbstractAll(frames) \in Seq(Entry)
        /\ Len(AbstractAll(frames)) = Len(frames)
        /\ \A i \in 1..Len(frames) : AbstractAll(frames)[i] = Abstract(frames[i])
    BY AbstractAllFacts
  <1> HIDE DEF first, rest
  <1>6. /\ first \o rest \in Seq(Entry)
        /\ Len(first \o rest) = Len(frames)
        /\ \A i \in 1..Len(frames) : (first \o rest)[i] =
                IF i <= 1 THEN first[i] ELSE rest[i - 1]
    <2>1. Len(first) + Len(rest) = Len(frames)
      BY <1>2, <1>3, <1>4
    <2>2. /\ first \o rest \in Seq(Entry)
          /\ Len(first \o rest) = Len(first) + Len(rest)
          /\ \A i \in 1..(Len(first) + Len(rest)) : (first \o rest)[i] =
                  IF i <= Len(first) THEN first[i] ELSE rest[i - Len(first)]
      BY <1>3, <1>4, ConcatProperties
    <2>3. Len(first) = 1
      BY <1>3
    <2> QED BY <2>1, <2>2, <2>3
  <1>7. ASSUME NEW i \in 1..Len(frames)
        PROVE  (first \o rest)[i] = AbstractAll(frames)[i]
    <2>1. CASE i = 1
      BY <1>3, <1>5, <1>6, <2>1
    <2>2. CASE i # 1
      <3>1. i - 1 \in 1..(Len(frames) - 1) /\ (i - 1) + 1 = i /\ ~(i <= 1)
        BY <1>2, <2>2
      <3> QED BY <1>4, <1>5, <1>6, <3>1
    <2> QED BY <2>1, <2>2
  <1>8. first \o rest = AbstractAll(frames)
    BY <1>5, <1>6, <1>7, SeqEqual
  <1> QED BY <1>8 DEF first, rest

\* An entry in front of a queue is its first, what follows is its rest, and
\* only the first changes when the first is replaced.
LEMMA FrontEntry ==
  ASSUME NEW e \in Entry, NEW d \in Entry, NEW rest \in Seq(Entry)
  PROVE  /\ << e >> \o rest \in Seq(Entry)
         /\ << e >> \o rest # << >>
         /\ (<< e >> \o rest)[1] = e
         /\ Head(<< e >> \o rest) = e
         /\ Tail(<< e >> \o rest) = rest
         /\ SubSeq(<< e >> \o rest, 1, 1) = << e >>
         /\ [<< e >> \o rest EXCEPT ![1] = d] = << d >> \o rest
  <1> DEFINE q == << e >> \o rest
             r == << d >> \o rest
  <1>1. Len(rest) \in Nat
    BY LenProperties
  <1>2. /\ q \in Seq(Entry)
        /\ Len(q) = 1 + Len(rest)
        /\ q[1] = e
        /\ \A i \in 2..(1 + Len(rest)) : q[i] = rest[i - 1]
    <2>1. /\ << e >> \o rest \in Seq(Entry)
          /\ Len(<< e >> \o rest) = Len(<< e >>) + Len(rest)
          /\ \A i \in 1..(Len(<< e >>) + Len(rest)) : (<< e >> \o rest)[i] =
                IF i <= Len(<< e >>) THEN << e >>[i] ELSE rest[i - Len(<< e >>)]
      BY OneEntry, ConcatProperties
    <2>2. Len(<< e >>) = 1 /\ << e >>[1] = e
      BY OneEntry
    <2> QED BY <1>1, <2>1, <2>2
  <1>3. /\ r \in Seq(Entry)
        /\ Len(r) = 1 + Len(rest)
        /\ r[1] = d
        /\ \A i \in 2..(1 + Len(rest)) : r[i] = rest[i - 1]
    <2>1. /\ << d >> \o rest \in Seq(Entry)
          /\ Len(<< d >> \o rest) = Len(<< d >>) + Len(rest)
          /\ \A i \in 1..(Len(<< d >>) + Len(rest)) : (<< d >> \o rest)[i] =
                IF i <= Len(<< d >>) THEN << d >>[i] ELSE rest[i - Len(<< d >>)]
      BY OneEntry, ConcatProperties
    <2>2. Len(<< d >>) = 1 /\ << d >>[1] = d
      BY OneEntry
    <2> QED BY <1>1, <2>1, <2>2
  <1> HIDE DEF q, r
  <1>4. q # << >>
    BY <1>1, <1>2
  <1>5. Head(q) = e
    BY <1>2, <1>4
  <1>6. Tail(q) = rest
    <2>1. /\ Tail(q) \in Seq(Entry)
          /\ Len(Tail(q)) = Len(rest)
          /\ \A i \in 1..Len(rest) : Tail(q)[i] = q[i + 1]
      BY <1>1, <1>2, <1>4, HeadTailProperties
    <2>2. \A i \in 1..Len(rest) : Tail(q)[i] = rest[i]
      <3> SUFFICES ASSUME NEW i \in 1..Len(rest)
                   PROVE  Tail(q)[i] = rest[i]
        OBVIOUS
      <3>1. i + 1 \in 2..(1 + Len(rest)) /\ (i + 1) - 1 = i
        BY <1>1
      <3> QED BY <1>2, <2>1, <3>1
    <2> QED BY <2>1, <2>2, SeqEqual
  <1>7. SubSeq(q, 1, 1) = << e >>
    <2>1. \A i \in 1..1 : q[i] \in Entry
      BY <1>2
    <2>2. /\ SubSeq(q, 1, 1) \in Seq(Entry)
          /\ Len(SubSeq(q, 1, 1)) = 1
          /\ SubSeq(q, 1, 1)[1] = e
      BY <1>2, <2>1, SubSeqProperties
    <2>3. << e >> \in Seq(Entry) /\ Len(<< e >>) = 1 /\ << e >>[1] = e
      BY OneEntry
    <2> DEFINE front == SubSeq(q, 1, 1)
               single == << e >>
    <2> HIDE DEF front, single
    <2>4. /\ front \in Seq(Entry) /\ Len(front) = 1
          /\ single \in Seq(Entry) /\ Len(single) = 1
          /\ front[1] = single[1]
      BY <2>2, <2>3, Zenon DEF front, single
    <2>5. \A i \in 1..Len(front) : front[i] = single[i]
      BY <2>4
    <2>6. front = single
      BY <2>4, <2>5, SeqEqual
    <2> QED BY <2>6, Zenon DEF front, single
  <1>8. [q EXCEPT ![1] = d] = r
    <2>1. 1 \in 1..Len(q)
      BY <1>1, <1>2
    <2>2. /\ [q EXCEPT ![1] = d] \in Seq(Entry)
          /\ Len([q EXCEPT ![1] = d]) = Len(q)
          /\ \A j \in 1..Len(q) : [q EXCEPT ![1] = d][j] = IF j = 1 THEN d ELSE q[j]
      BY <1>2, <2>1, ExceptSeq
    <2>3. \A j \in 1..Len(q) : j = 1 \/ j \in 2..(1 + Len(rest))
      BY <1>1, <1>2
    <2>4. \A j \in 1..Len(q) : [q EXCEPT ![1] = d][j] = r[j]
      BY <1>2, <1>3, <2>2, <2>3
    <2> QED BY <1>2, <1>3, <2>2, <2>4, SeqEqual
  <1> QED BY <1>2, <1>4, <1>5, <1>6, <1>7, <1>8 DEF q, r

-----------------------------------------------------------------------------
(* One lemma per step of the queue                                         *)

\* A write in progress has one of the sizes writes are made with.
CountInv == \A w \in Writers : wpc[w] # "idle" => count[w] \in Sizes

\* The backlog is the pending frame, then the queued ones.
LEMMA BacklogParts ==
  /\ Backlog = BacklogOf(pending_oframe, queued_oframes)
  /\ Backlog' = BacklogOf(pending_oframe', queued_oframes')
  <1>1. Backlog = BacklogOf(pending_oframe, queued_oframes)
    BY DEF Backlog, BacklogOf, PendingPart, AbstractAll
  <1>2. Backlog' = BacklogOf(pending_oframe', queued_oframes')
    BY DEF Backlog, BacklogOf, PendingPart, AbstractAll, Abstract
  <1> QED BY <1>1, <1>2

\* Both parts are sequences of entries.
LEMMA PartTypes ==
  ASSUME NEW pending \in Frame \cup {NoFrame}, NEW flist \in Flist(Frame)
  PROVE  /\ PendingPart(pending) \in Seq(Entry)
         /\ AbstractAll(flist.frames) \in Seq(Entry)
         /\ flist.frames \in Seq(Frame)
         /\ pending # NoFrame =>
               /\ Abstract(pending) \in Entry
               /\ BacklogOf(pending, flist)
                     = << Abstract(pending) >> \o AbstractAll(flist.frames)
         /\ pending = NoFrame =>
               BacklogOf(pending, flist) = AbstractAll(flist.frames)
  <1>1. flist.frames \in Seq(Frame)
    BY DEF Flist
  <1>2. AbstractAll(flist.frames) \in Seq(Entry)
    BY <1>1, AbstractAllFacts
  <1>3. CASE pending = NoFrame
    <2>1. PendingPart(pending) = << >>
      BY <1>3 DEF PendingPart
    <2>2. << >> \in Seq(Entry)
      BY EmptySeq
    <2>3. << >> \o AbstractAll(flist.frames) = AbstractAll(flist.frames)
      BY <1>2, ConcatEmptySeq
    <2> QED BY <1>1, <1>2, <1>3, <2>1, <2>2, <2>3 DEF BacklogOf
  <1>4. CASE pending # NoFrame
    <2>1. Abstract(pending) \in Entry
      BY <1>4, AbstractType
    <2>2. PendingPart(pending) = << Abstract(pending) >>
      BY <1>4 DEF PendingPart
    <2>3. << Abstract(pending) >> \in Seq(Entry)
      BY <2>1, OneEntry
    <2> QED BY <1>1, <1>2, <1>4, <2>1, <2>2, <2>3, Zenon DEF BacklogOf
  <1> QED BY <1>3, <1>4

\* A write is accepted behind everything there is.
LEMMA InsertAccepts ==
  ASSUME TypeInv, TypeInv', CountInv, NEW w \in Writers, Inserts(w)
  PROVE  \E n \in Sizes \cup {0} : Queue!Accept(n)
  <1>1. PICK frame \in Frame :
           /\ wpc[w] = "insert"
           /\ queued_oframes' = FlistAdd(queued_oframes, frame)
           /\ pending_oframe' = pending_oframe
           /\ frame.number = frame_counter
           /\ frame.data_length \in {0, count[w]}
           /\ frame_counter' = frame_counter + 1
           /\ ppc' = ppc
    BY EnqueuedFrame DEF Inserts, TypeInv
  <1>2. /\ pending_oframe \in Frame \cup {NoFrame} /\ queued_oframes \in Flist(Frame)
        /\ frame_counter \in Nat
    BY DEF TypeInv, TypeOK
  <1> DEFINE front == PendingPart(pending_oframe)
             behind == AbstractAll(queued_oframes.frames)
             new == Abstract(frame)
  <1>3. /\ front \in Seq(Entry) /\ behind \in Seq(Entry) /\ new \in Entry
        /\ queued_oframes.frames \in Seq(Frame)
    BY <1>2, PartTypes, AbstractType
  <1>4. AbstractAll(queued_oframes'.frames) = Append(behind, new)
    BY <1>1, <1>3, AbstractAppend DEF FlistAdd
  <1> HIDE DEF front, behind, new
  <1>5. front \o Append(behind, new) = Append(front \o behind, new)
    <2>1. << new >> \in Seq(Entry) /\ front \o behind \in Seq(Entry)
      BY <1>3, OneEntry, ConcatProperties
    <2>2. Append(behind, new) = behind \o << new >>
      BY <1>3, AppendIsConcat
    <2>3. Append(front \o behind, new) = (front \o behind) \o << new >>
      BY <1>3, <2>1, AppendIsConcat
    <2>4. (front \o behind) \o << new >> = front \o (behind \o << new >>)
      BY <1>3, <2>1, ConcatAssociative
    <2> QED BY <2>2, <2>3, <2>4
  <1>6. Backlog' = Append(Backlog, new)
    <2>1. Backlog = front \o behind
      BY BacklogParts DEF BacklogOf, front, behind
    <2>2. Backlog' = front \o Append(behind, new)
      BY <1>1, <1>4, BacklogParts DEF BacklogOf, front
    <2> QED BY <1>5, <2>1, <2>2
  <1>7. new = [number |-> frame_counter, left |-> frame.data_length]
    BY <1>1 DEF new, Abstract
  <1>8. frame.data_length \in Sizes \cup {0}
    BY <1>1 DEF CountInv
  <1>9. /\ (frame_counter' - 1) = (frame_counter - 1) + 1
        /\ frame_counter' - 1 = frame_counter
    BY <1>1, <1>2
  <1> QED BY <1>1, <1>6, <1>7, <1>8, <1>9 DEF Queue!Accept

\* Taking a frame from the list to pending_oframe is not seen.
LEMMA PickIsHidden ==
  ASSUME TypeInv, PickFrame
  PROVE  UNCHANGED Queue!vars
  <1>1. UNCHANGED << frame_counter, ppc >>
    BY DEF PickFrame
  <1>2. Backlog' = Backlog
    <2>1. CASE pending_oframe # NoFrame
      BY <2>1, BacklogParts DEF PickFrame
    <2>2. CASE pending_oframe = NoFrame
      <3>1. /\ queued_oframes.frames # << >>
            /\ pending_oframe' = Head(queued_oframes.frames)
            /\ queued_oframes'.frames = Tail(queued_oframes.frames)
        BY <2>2 DEF PickFrame, FlistRemove
      <3>2. /\ queued_oframes \in Flist(Frame)
            /\ queued_oframes.frames \in Seq(Frame)
        BY DEF TypeInv, TypeOK, Flist
      <3>3. Head(queued_oframes.frames) \in Frame
        BY <3>1, <3>2, HeadTailProperties
      <3>4. PendingPart(pending_oframe') = << Abstract(Head(queued_oframes.frames)) >>
        BY <3>1, <3>3, ActorsAssumption DEF PendingPart
      <3>5. Backlog' = AbstractAll(queued_oframes.frames)
        BY <3>1, <3>2, <3>4, AbstractHeadTail, BacklogParts DEF BacklogOf
      <3> QED BY <2>2, <3>2, <3>5, BacklogParts, PartTypes
    <2> QED BY <2>1, <2>2
  <1> QED BY <1>1, <1>2 DEF Queue!vars

\* A load takes bytes of the oldest frame, at least one and at most what is left.
LEMMA SubmitTransmits ==
  ASSUME TypeInv, TypeInv', SubmitLoad
  PROVE  /\ Backlog # << >>
         /\ \E k \in 1..Head(Backlog).left : Queue!Transmit(k)
  <1> DEFINE old == pending_oframe
             k == Smaller(TransmitLength(old), old.data_length)
             behind == AbstractAll(queued_oframes.frames)
  <1>1. /\ old \in Frame /\ old # NoFrame
        /\ pending_oframe' = RemoveData(old, TransmitLength(old))
        /\ TransmitLength(old) >= 1
        /\ UNCHANGED << queued_oframes, frame_counter, ppc >>
    BY DEF SubmitLoad, Prepare, TypeInv, TypeOK, TaskletLock
  <1>2. /\ old.data_length \in Nat /\ old.data_length # 0
        /\ TransmitLength(old) \in Nat
    <2>1. old.data_length \in Nat
      BY <1>1 DEF Frame
    <2>2. /\ TransmitLength(old) \in Nat
          /\ TransmitLength(old) <= FourAligned(old.data_length)
      BY <1>1, TransmitLengthFacts
    <2>3. old.data_length = 0 => FourAligned(old.data_length) = 0
      BY <2>1 DEF FourAligned
    <2> QED BY <1>1, <2>1, <2>2, <2>3
  <1>3. k \in 1..old.data_length
    BY <1>1, <1>2 DEF Smaller
  <1>4. /\ pending_oframe' \in Frame /\ pending_oframe' # NoFrame
        /\ Abstract(pending_oframe')
              = [Abstract(old) EXCEPT !.left = Abstract(old).left - k]
    <2>1. pending_oframe' = [old EXCEPT !.data_length = old.data_length - k]
      BY <1>1 DEF RemoveData
    <2>2. old.data_length - k \in Nat
      BY <1>2, <1>3
    <2> HIDE DEF k
    <2>3. pending_oframe' \in Frame
      BY <1>1, <2>1, <2>2 DEF Frame
    <2> QED BY <1>1, <2>1, <2>3, ActorsAssumption DEF Abstract, Frame
  <1>5. /\ Abstract(old) \in Entry /\ behind \in Seq(Entry)
        /\ Backlog = << Abstract(old) >> \o behind
    BY <1>1, BacklogParts, PartTypes DEF TypeInv, TypeOK
  <1>6. /\ Abstract(pending_oframe') \in Entry
        /\ Backlog' = << Abstract(pending_oframe') >> \o behind
    <2>1. queued_oframes' \in Flist(Frame) /\ queued_oframes' = queued_oframes
      BY <1>1 DEF TypeInv, TypeOK
    <2> QED BY <1>4, <2>1, BacklogParts, PartTypes
  <1> HIDE DEF k, behind
  <1>7. /\ Backlog # << >> /\ Head(Backlog) = Abstract(old)
        /\ Backlog[1] = Abstract(old)
        /\ Backlog' = [Backlog EXCEPT ![1] = Abstract(pending_oframe')]
    BY <1>5, <1>6, FrontEntry
  <1>8. Backlog' = [Backlog EXCEPT ![1].left = @ - k]
    BY <1>4, <1>7
  <1>9. Head(Backlog).left = old.data_length
    BY <1>7 DEF Abstract
  <1>10. Queue!Transmit(k)
    BY <1>1, <1>7, <1>8 DEF Queue!Transmit
  <1> QED BY <1>3, <1>7, <1>9, <1>10

\* A frame is deleted as sent only when nothing of it is left.
LEMMA FinishRetires ==
  ASSUME TypeInv, FinishLoad
  PROVE  Queue!Retire \/ UNCHANGED Queue!vars
  <1> DEFINE old == pending_oframe
             behind == AbstractAll(queued_oframes.frames)
  <1>1. /\ old \in Frame /\ old # NoFrame
        /\ pending_oframe' = IF old.data_length = 0 THEN NoFrame ELSE old
        /\ UNCHANGED << queued_oframes, frame_counter, ppc >>
    BY DEF FinishLoad, TypeInv, TypeOK, TaskletLock
  <1>2. queued_oframes \in Flist(Frame)
    BY DEF TypeInv, TypeOK
  <1>3. CASE old.data_length = 0
    <2>1. /\ Abstract(old) \in Entry /\ behind \in Seq(Entry)
          /\ Backlog = << Abstract(old) >> \o behind
      BY <1>1, <1>2, BacklogParts, PartTypes
    <2>2. Backlog' = behind
      BY <1>1, <1>2, <1>3, BacklogParts, PartTypes
    <2>3. Abstract(old).left = 0
      BY <1>3 DEF Abstract
    <2> HIDE DEF behind
    <2>4. Backlog # << >> /\ Head(Backlog).left = 0 /\ Backlog' = Tail(Backlog)
      BY <2>1, <2>2, <2>3, FrontEntry
    <2> QED BY <1>1, <2>4 DEF Queue!Retire
  <1>4. CASE old.data_length # 0
    <2>1. Backlog' = Backlog
      BY <1>1, <1>4, BacklogParts
    <2> QED BY <1>1, <2>1 DEF Queue!vars
  <1> QED BY <1>3, <1>4

\* Each half of a purge's clearing drops one part of the backlog.
LEMMA ClearDrops ==
  ASSUME TypeInv, TypeInv', NEW p \in Purgers, ClearQueued(p) \/ ClearPending(p)
  PROVE  Queue!Drop \/ UNCHANGED Queue!vars
  <1> DEFINE purging == {q \in Purgers : ppc[q] # "idle"}
             behind == AbstractAll(queued_oframes.frames)
  <1>1. /\ frame_counter' = frame_counter
        /\ p \in purging
        /\ purging' = purging
    BY DEF ClearQueued, ClearPending, TypeInv, TypeOK
  <1>2. /\ pending_oframe \in Frame \cup {NoFrame}
        /\ queued_oframes \in Flist(Frame)
        /\ pending_oframe' \in Frame \cup {NoFrame}
        /\ queued_oframes' \in Flist(Frame)
    BY DEF TypeInv, TypeOK
  <1>3. behind \in Seq(Entry)
    BY <1>2, PartTypes
  <1>4. CASE ClearQueued(p)
    <2>1. pending_oframe' = pending_oframe /\ queued_oframes'.frames = << >>
      BY <1>4, EmptyFrames DEF ClearQueued
    <2>2. AbstractAll(queued_oframes'.frames) = << >>
      <3>1. /\ AbstractAll(<< >>) \in Seq(Entry) /\ Len(AbstractAll(<< >>)) = 0
        BY EmptySeq, AbstractAllFacts
      <3>2. AbstractAll(<< >>) = << >>
        BY <3>1, EmptySeq
      <3> QED BY <2>1, <3>2
    <2>3. CASE pending_oframe = NoFrame
      <3>1. Backlog' = << >>
        BY <1>2, <2>1, <2>2, <2>3, BacklogParts, PartTypes
      <3> QED BY <1>1, <3>1 DEF Queue!Drop, Queue!vars
    <2>4. CASE pending_oframe # NoFrame
      <3>1. /\ Abstract(pending_oframe) \in Entry
            /\ Backlog = << Abstract(pending_oframe) >> \o behind
        BY <1>2, <2>4, BacklogParts, PartTypes
      <3>2. Backlog' = << Abstract(pending_oframe) >> \o << >>
        BY <1>2, <2>1, <2>2, <2>4, BacklogParts, PartTypes
      <3>3. Backlog' = << Abstract(pending_oframe) >>
        BY <3>1, <3>2, OneEntry, ConcatEmptySeq
      <3> HIDE DEF behind
      <3>4. Backlog # << >> /\ Backlog' = SubSeq(Backlog, 1, 1)
        BY <1>3, <3>1, <3>3, FrontEntry
      <3> QED BY <1>1, <3>4 DEF Queue!Drop
    <2> QED BY <2>3, <2>4
  <1>5. CASE ClearPending(p)
    <2>1. pending_oframe' = NoFrame /\ queued_oframes' = queued_oframes
      BY <1>5 DEF ClearPending
    <2>2. Backlog' = behind
      BY <1>2, <2>1, BacklogParts, PartTypes
    <2>3. CASE pending_oframe = NoFrame
      <3>1. Backlog = behind
        BY <1>2, <2>3, BacklogParts, PartTypes
      <3> QED BY <1>1, <2>2, <3>1 DEF Queue!vars
    <2>4. CASE pending_oframe # NoFrame
      <3>1. /\ Abstract(pending_oframe) \in Entry
            /\ Backlog = << Abstract(pending_oframe) >> \o behind
        BY <1>2, <2>4, BacklogParts, PartTypes
      <3> HIDE DEF behind
      <3>2. Backlog # << >> /\ Backlog' = Tail(Backlog)
        BY <1>3, <2>2, <3>1, FrontEntry
      <3> QED BY <1>1, <3>2 DEF Queue!Drop
    <2> QED BY <2>3, <2>4
  <1> QED BY <1>4, <1>5

\* Beginning and ending a purge, and the steps of a purge that are not seen.
LEMMA PurgeMaps ==
  ASSUME TypeInv, TypeInv', NEW p \in Purgers, Purge(p) \/ PurgeStep(p)
  PROVE  [Queue!Next]_(Queue!vars)
  <1> DEFINE purging == {q \in Purgers : ppc[q] # "idle"}
  <1>1. ppc \in [Purgers -> {"idle", "mutex", "board", "reset", "queued",
                             "pending", "wake"}]
    BY DEF TypeInv, TypeOK
  <1>2. CASE ClearQueued(p) \/ ClearPending(p)
    BY <1>2, ClearDrops DEF Queue!Next
  <1>3. CASE Purge(p)
    <2>1. UNCHANGED << queued_oframes, pending_oframe, frame_counter >>
      BY <1>3 DEF Purge
    <2>2. p \notin purging /\ purging' = purging \cup {p}
      BY <1>1, <1>3 DEF Purge
    <2>3. Backlog' = Backlog
      BY <2>1, BacklogParts
    <2>4. Queue!BeginPurge(p)
      BY <2>1, <2>2, <2>3 DEF Queue!BeginPurge
    <2> QED BY <2>4 DEF Queue!Next
  <1>4. CASE WakeAndReturn(p)
    <2>1. UNCHANGED << queued_oframes, pending_oframe, frame_counter >>
      BY <1>4 DEF WakeAndReturn
    <2>2. p \in purging /\ purging' = purging \ {p}
      BY <1>1, <1>4 DEF WakeAndReturn
    <2>3. Backlog' = Backlog
      BY <2>1, BacklogParts
    <2>4. Queue!EndPurge(p)
      BY <2>1, <2>2, <2>3 DEF Queue!EndPurge
    <2> QED BY <2>4 DEF Queue!Next
  <1>5. CASE LockRegisters(p) \/ LockBoard(p) \/ ExecuteTRES(p)
    <2>1. UNCHANGED << queued_oframes, pending_oframe, frame_counter >>
      BY <1>5 DEF LockRegisters, LockBoard, ExecuteTRES
    <2>2. purging' = purging
      BY <1>1, <1>5 DEF LockRegisters, LockBoard, ExecuteTRES
    <2>3. Backlog' = Backlog
      BY <2>1, BacklogParts
    <2> QED BY <2>1, <2>2, <2>3 DEF Queue!vars
  <1> QED BY <1>2, <1>3, <1>4, <1>5 DEF PurgeStep

\* Writes in progress keep their size.
LEMMA CountsKept ==
  ASSUME TypeInv, CountInv, [Next]_vars
  PROVE  CountInv'
  <1>1. /\ wpc \in [Writers -> {"idle", "down", "queued", "pending", "test",
                                "asleep", "insert", "kick"}]
        /\ count \in [Writers -> Nat]
    BY DEF TypeInv, TypeOK
  <1>2. ASSUME NEW w \in Writers, Inserts(w)
        PROVE  CountInv'
    <2>1. wpc[w] = "insert" /\ wpc' = [wpc EXCEPT ![w] = "kick"] /\ count' = count
      BY <1>2, EnqueuedFrame DEF Inserts, TypeInv
    <2> QED BY <1>1, <2>1 DEF CountInv
  <1>3. ASSUME NEW w \in Writers, NEW n \in Sizes, Write(w, n)
        PROVE  CountInv'
    BY <1>1, <1>3 DEF Write, CountInv
  <1>4. ASSUME NEW w \in Writers,
               \/ InsertNoMemory(w) \/ KickTasklet(w) \/ Interrupt(w)
               \/ TestFullAgain(w)
        PROVE  CountInv'
    BY <1>1, <1>4 DEF InsertNoMemory, KickTasklet, Interrupt, TestFullAgain,
       Return, CountInv
  <1>5. ASSUME NEW w \in Writers,
               \/ DownWriteSemaphore(w) \/ ReadQueuedUsage(w)
               \/ ReadPendingUsage(w) \/ TestRoom(w) \/ TestFullBlock(w)
               \/ TestFullSleep(w) \/ LookAgain(w)
        PROVE  CountInv'
    <2>1. /\ count' = count /\ wpc[w] # "idle"
          /\ \E pc : wpc' = [wpc EXCEPT ![w] = pc]
      BY <1>5 DEF DownWriteSemaphore, ReadQueuedUsage, ReadPendingUsage, TestRoom,
         TestFullBlock, TestFullSleep, LookAgain
    <2> QED BY <1>1, <2>1 DEF CountInv
  <1>6. CASE \A w \in Writers : ~Inserts(w) /\ ~WriterMoves(w)
    BY <1>6, OtherSteps DEF CountInv
  <1> QED BY <1>2, <1>3, <1>4, <1>5, <1>6 DEF WriterMoves

\* The transmit path implements the queue.
THEOREM TransmitIsAQueue == Spec => ImplementsTxQueue
  <1>1. Init => Queue!Init
    <2> SUFFICES ASSUME Init PROVE Queue!Init
      OBVIOUS
    <2>1. Backlog = << >>
      <3>1. EmptyFlist \in Flist(Frame) /\ EmptyFlist.frames = << >>
        BY EmptyAccounted, EmptyFrames
      <3>2. /\ AbstractAll(<< >>) \in Seq(Entry) /\ Len(AbstractAll(<< >>)) = 0
        BY EmptySeq, AbstractAllFacts
      <3>3. AbstractAll(<< >>) = << >>
        BY <3>2, EmptySeq
      <3>4. pending_oframe = NoFrame /\ queued_oframes = EmptyFlist
        BY DEF Init
      <3> QED BY <3>1, <3>3, <3>4, BacklogParts, PartTypes
    <2>2. frame_counter - 1 = 0
      BY DEF Init
    <2>3. {p \in Purgers : ppc[p] # "idle"} = {}
      BY DEF Init
    <2> QED BY <2>1, <2>2, <2>3 DEF Queue!Init
  <1>2. Init => CountInv
    BY DEF Init, CountInv
  <1>3. TypeInv /\ CountInv /\ [Next]_vars => CountInv'
    BY CountsKept
  <1>4. TypeInv /\ TypeInv' /\ CountInv /\ [Next]_vars => [Queue!Next]_(Queue!vars)
    <2> SUFFICES ASSUME TypeInv, TypeInv', CountInv, [Next]_vars
                 PROVE  [Queue!Next]_(Queue!vars)
      OBVIOUS
    <2>1. CASE \E p \in Purgers : Purge(p) \/ PurgeStep(p)
      BY <2>1, PurgeMaps
    <2>2. CASE /\ UNCHANGED << ppc, mark >>
               /\ ~ \E p \in Purgers : Purge(p) \/ PurgeStep(p)
      <3>1. ASSUME NEW w \in Writers, Inserts(w)
            PROVE  Queue!Next
        BY <3>1, InsertAccepts DEF Queue!Next
      <3>2. CASE PickFrame
        BY <3>2, PickIsHidden
      <3>3. CASE SubmitLoad
        BY <3>3, SubmitTransmits DEF Queue!Next
      <3>4. CASE FinishLoad
        BY <3>4, FinishRetires DEF Queue!Next
      <3>5. CASE UNCHANGED << queued_oframes, pending_oframe, frame_counter >>
        <4>1. Backlog' = Backlog
          BY <3>5, BacklogParts
        <4> QED BY <2>2, <3>5, <4>1 DEF Queue!vars
      <3>6. ~ \E p \in Purgers : ClearQueued(p) \/ ClearPending(p)
        BY <2>2 DEF PurgeStep
      <3> QED BY <3>1, <3>2, <3>3, <3>4, <3>5, <3>6, FrameSteps
    <2> QED BY <2>1, <2>2, PurgeSteps
  <1> QED BY <1>1, <1>2, <1>3, <1>4, TypeCorrect, PTL
          DEF Spec, ImplementsTxQueue, Queue!Spec
=============================================================================
