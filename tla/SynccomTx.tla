----------------------------- MODULE SynccomTx -----------------------------
(***************************************************************************)
(* The transmit path of one port: write(2) (main.c), the send tasklet      *)
(* (oframe_worker, port.c), SYNCCOM_PURGE_TX and SYNCCOM_SET_MEMORY_CAP.   *)
(*                                                                         *)
(* A writer holds write_semaphore from its test against the memory cap to  *)
(* the end of its insertion into queued_oframes.  The tasklet moves the    *)
(* head of queued_oframes to pending_oframe and hands it to the card, one  *)
(* FIFO load at a time.  A purge resets the transmitter (TRES) and empties *)
(* first queued_oframes and then pending_oframe.                           *)
(*                                                                         *)
(* A critical section inside which no other step of this module can be     *)
(* told apart (every one under queued_oframes_spinlock) is one action; the *)
(* locks held across actions are variables.  The driver takes a mutex and  *)
(* waits for USB transfers with spinlocks held; here, as in a kernel that  *)
(* only warns about it, it carries on once the mutex is free.              *)
(***************************************************************************)
EXTENDS Frames, FiniteSets

CONSTANTS
  Writers,      \* processes inside synccom_write
  Purgers,      \* processes inside synccom_port_purge_tx
  Sizes,        \* the counts passed to write
  InitCap,      \* memory_cap.output after probe
  Caps,         \* the values SYNCCOM_SET_MEMORY_CAP sets
  TxFifoSize,   \* TX_FIFO_SIZE
  MaxFrames,    \* bound: frames created in a behaviour
  Faults,       \* which of "enomem", "copy", "submit", "urb" can happen
  MaxFaults,    \* bound: how many of them in a behaviour
  MaxUrbs,      \* bound: write URBs in flight at a time
  Tasklet,      \* the send tasklet, as a holder of locks
  Nobody,       \* a lock is free
  NoFrame       \* pending_oframe is a null pointer

ASSUME SizesAssumption == Sizes \subseteq Nat \ {0}
ASSUME CapsAssumption == InitCap \in Nat /\ Caps \subseteq Nat
ASSUME FifoAssumption == TxFifoSize \in Nat /\ TxFifoSize > 4
ASSUME BoundsAssumption == MaxFrames \in Nat /\ MaxFaults \in Nat /\ MaxUrbs \in Nat
ASSUME ActorsAssumption ==
  /\ Nobody \notin Writers \cup Purgers \cup {Tasklet}
  /\ Tasklet \notin Writers \cup Purgers
  /\ NoFrame \notin Frame

VARIABLES
  memory_cap,              \* memory_cap.output
  frame_counter,           \* the number of the next frame
  queued_oframes,          \* the flist of frames not started
  pending_oframe,          \* the frame being handed to the card, or NoFrame
  write_semaphore,         \* the writer inside, or Nobody
  board_tx_spinlock,       \* their holders, or Nobody
  pending_oframe_spinlock,
  register_access_mutex,
  wpc,                     \* where each writer is in synccom_write
  count,                   \* its count
  usage,                   \* what it has read of the memory usage
  cap_seen,                \* the cap it tested that against
  waiting,                 \* it is in wait_event_interruptible, outside the
  woken,                   \*   semaphore; output_queue was woken meanwhile
  tpc,                     \* where the tasklet is in oframe_worker
  scheduled,               \* tasklet_schedule was called, it has not run yet
  timer_armed,             \* the one-shot timer of synccom_port_initialize
  gave_up,                 \* ghost: its last run met a frame without data
  ppc,                     \* where each purger is in synccom_port_purge_tx
  mark,                    \* ghost: frame_counter when its purge began
  wire,                    \* write URBs in flight: the frames' numbers, in order
  card,                    \* numbers of the frames with data on the card
  announced,               \* ghost: BC_FIFO_L writes for pending_oframe
  refused,                 \* ghost: its first loads that could not be submitted
  faults                   \* ghost: faults so far

memoryVars == << queued_oframes, pending_oframe >>
lockVars == << write_semaphore, board_tx_spinlock, pending_oframe_spinlock,
               register_access_mutex >>
writerVars == << wpc, count, usage, cap_seen, waiting, woken >>
taskletVars == << tpc, scheduled, timer_armed, gave_up >>
purgeVars == << ppc, mark >>
deviceVars == << wire, card, announced, refused >>
vars == << memory_cap, frame_counter, queued_oframes, pending_oframe,
           write_semaphore, board_tx_spinlock, pending_oframe_spinlock,
           register_access_mutex, wpc, count, usage, cap_seen, waiting, woken,
           tpc, scheduled, timer_armed, gave_up, ppc, mark, wire, card, announced,
           refused, faults >>

-----------------------------------------------------------------------------
PendingLength == IF pending_oframe = NoFrame THEN 0
                 ELSE pending_oframe.data_length

\* What the port holds at this instant.  The code reads it in two steps.
Usage == queued_oframes.estimated_memory_usage + PendingLength

Fault(kind) ==
  /\ kind \in Faults
  /\ faults < MaxFaults
  /\ faults' = faults + 1

MutNobodyIsWoken == UNCHANGED woken

\* wake_up_interruptible(&port->output_queue)
WakeOutputQueue == woken' = [w \in Writers |-> woken[w] \/ waiting[w]]

Init ==
  /\ memory_cap = InitCap
  /\ frame_counter = 1
  /\ queued_oframes = EmptyFlist
  /\ pending_oframe = NoFrame
  /\ write_semaphore = Nobody
  /\ board_tx_spinlock = Nobody
  /\ pending_oframe_spinlock = Nobody
  /\ register_access_mutex = Nobody
  /\ wpc = [w \in Writers |-> "idle"]
  /\ count = [w \in Writers |-> 0]
  /\ usage = [w \in Writers |-> 0]
  /\ cap_seen = [w \in Writers |-> 0]
  /\ waiting = [w \in Writers |-> FALSE]
  /\ woken = [w \in Writers |-> FALSE]
  /\ tpc = "idle"
  /\ scheduled = FALSE
  /\ timer_armed = TRUE
  /\ gave_up = FALSE
  /\ ppc = [p \in Purgers |-> "idle"]
  /\ mark = [p \in Purgers |-> 0]
  /\ wire = << >>
  /\ card = {}
  /\ announced = 0
  /\ refused = 0
  /\ faults = 0

-----------------------------------------------------------------------------
(* synccom_write                                                           *)

\* write(fd, buf, n): refused at once (-ENOBUFS) when n exceeds the cap.
Write(w, n) ==
  /\ wpc[w] = "idle"
  /\ n <= memory_cap
  /\ frame_counter + Cardinality({v \in Writers : wpc[v] # "idle"}) <= MaxFrames
  /\ wpc' = [wpc EXCEPT ![w] = "down"]
  /\ count' = [count EXCEPT ![w] = n]
  /\ UNCHANGED << memory_cap, frame_counter, memoryVars, lockVars, usage,
                  cap_seen, waiting, woken, taskletVars, purgeVars,
                  deviceVars, faults >>

DownWriteSemaphore(w) ==
  /\ wpc[w] = "down"
  /\ write_semaphore = Nobody
  /\ write_semaphore' = w
  /\ wpc' = [wpc EXCEPT ![w] = "queued"]
  /\ UNCHANGED << memory_cap, frame_counter, memoryVars, board_tx_spinlock,
                  pending_oframe_spinlock, register_access_mutex, count, usage,
                  cap_seen, waiting, woken, taskletVars, purgeVars,
                  deviceVars, faults >>

\* synccom_port_get_output_memory_usage, its first half: the queued frames.
ReadQueuedUsage(w) ==
  /\ wpc[w] = "queued"
  /\ usage' = [usage EXCEPT ![w] = queued_oframes.estimated_memory_usage]
  /\ wpc' = [wpc EXCEPT ![w] = "pending"]
  /\ UNCHANGED << memory_cap, frame_counter, memoryVars, lockVars, count,
                  cap_seen, waiting, woken, taskletVars, purgeVars,
                  deviceVars, faults >>

MutIgnorePending(w) == usage[w]

AddPending(w) == usage[w] + PendingLength

\* Its second half: the frame being sent.
ReadPendingUsage(w) ==
  /\ wpc[w] = "pending"
  /\ pending_oframe_spinlock = Nobody
  /\ usage' = [usage EXCEPT ![w] = AddPending(w)]
  /\ wpc' = [wpc EXCEPT ![w] = "test"]
  /\ UNCHANGED << memory_cap, frame_counter, memoryVars, lockVars, count,
                  cap_seen, waiting, woken, taskletVars, purgeVars,
                  deviceVars, faults >>

\* A writer that waited outside the semaphore has to get it back first.
AfterRoom(w) == IF waiting[w] THEN "down" ELSE "insert"

\* There is room.
TestRoom(w) ==
  /\ wpc[w] = "test"
  /\ usage[w] + count[w] <= memory_cap
  /\ wpc' = [wpc EXCEPT ![w] = AfterRoom(w)]
  /\ usage' = [usage EXCEPT ![w] = 0]
  /\ cap_seen' = [cap_seen EXCEPT ![w] = memory_cap]
  /\ waiting' = [waiting EXCEPT ![w] = FALSE]
  /\ UNCHANGED << memory_cap, frame_counter, memoryVars, lockVars, count,
                  woken, taskletVars, purgeVars, deviceVars, faults >>

\* There is none: leave the semaphore and wait on output_queue.
TestFullBlock(w) ==
  /\ wpc[w] = "test"
  /\ ~waiting[w]
  /\ usage[w] + count[w] > memory_cap
  /\ write_semaphore' = Nobody
  /\ waiting' = [waiting EXCEPT ![w] = TRUE]
  /\ woken' = [woken EXCEPT ![w] = FALSE]
  /\ usage' = [usage EXCEPT ![w] = 0]
  /\ wpc' = [wpc EXCEPT ![w] = "queued"]
  /\ UNCHANGED << memory_cap, frame_counter, memoryVars, board_tx_spinlock,
                  pending_oframe_spinlock, register_access_mutex, count,
                  cap_seen, taskletVars, purgeVars, deviceVars, faults >>

\* What every return from synccom_write does to the writer's own variables.
Return(w) ==
  /\ wpc' = [wpc EXCEPT ![w] = "idle"]
  /\ count' = [count EXCEPT ![w] = 0]
  /\ usage' = [usage EXCEPT ![w] = 0]
  /\ cap_seen' = [cap_seen EXCEPT ![w] = 0]
  /\ waiting' = [waiting EXCEPT ![w] = FALSE]
  /\ woken' = [woken EXCEPT ![w] = FALSE]

\* There is none and the file is O_NONBLOCK: -EAGAIN.
TestFullAgain(w) ==
  /\ wpc[w] = "test"
  /\ ~waiting[w]
  /\ usage[w] + count[w] > memory_cap
  /\ write_semaphore' = Nobody
  /\ Return(w)
  /\ UNCHANGED << memory_cap, frame_counter, memoryVars, board_tx_spinlock,
                  pending_oframe_spinlock, register_access_mutex,
                  taskletVars, purgeVars, deviceVars, faults >>

\* Inside wait_event_interruptible and still no room: sleep, or look again if
\* output_queue was woken since the look began.
TestFullSleep(w) ==
  /\ wpc[w] = "test"
  /\ waiting[w]
  /\ usage[w] + count[w] > memory_cap
  /\ usage' = [usage EXCEPT ![w] = 0]
  /\ wpc' = [wpc EXCEPT ![w] = "asleep"]
  /\ UNCHANGED << memory_cap, frame_counter, memoryVars, lockVars, count,
                  cap_seen, waiting, woken, taskletVars, purgeVars,
                  deviceVars, faults >>

LookAgain(w) ==
  /\ wpc[w] = "asleep"
  /\ woken[w]
  /\ woken' = [woken EXCEPT ![w] = FALSE]
  /\ wpc' = [wpc EXCEPT ![w] = "queued"]
  /\ UNCHANGED << memory_cap, frame_counter, memoryVars, lockVars, count,
                  usage, cap_seen, waiting, taskletVars, purgeVars,
                  deviceVars, faults >>

\* A signal ends either interruptible wait: -ERESTARTSYS.
Interrupt(w) ==
  /\ wpc[w] \in {"down", "asleep"}
  /\ Return(w)
  /\ UNCHANGED << memory_cap, frame_counter, memoryVars, lockVars,
                  taskletVars, purgeVars, deviceVars, faults >>

\* synccom_port_write up to the insertion.  What frame_new and
\* add_data_from_user do is seen by nobody before the frame is in the list.
Enqueue(w, frame) ==
  /\ wpc[w] = "insert"
  /\ queued_oframes' =
        FlistAdd(queued_oframes, [frame EXCEPT !.frame_size = count[w]])
  /\ frame_counter' = frame_counter + 1
  /\ wpc' = [wpc EXCEPT ![w] = "kick"]
  /\ UNCHANGED << memory_cap, pending_oframe, lockVars, count, usage, cap_seen,
                  waiting, woken, taskletVars, purgeVars, deviceVars >>

InsertFrame(w) ==
  /\ Enqueue(w, AddData(FrameNew(frame_counter), count[w]))
  /\ UNCHANGED faults

\* The result of add_data_from_user is not looked at: when the copy from the
\* caller fails the frame goes in with a buffer and no data ...
InsertUncopied(w) ==
  /\ Enqueue(w, UpdateBufferSize(FrameNew(frame_counter), count[w]))
  /\ Fault("copy")

\* ... and when its buffer cannot be allocated, with neither.
InsertUnallocated(w) ==
  /\ Enqueue(w, FrameNew(frame_counter))
  /\ Fault("enomem")

\* synccom_frame_new fails: -ENOMEM, nothing is inserted.
InsertNoMemory(w) ==
  /\ wpc[w] = "insert"
  /\ Fault("enomem")
  /\ write_semaphore' = Nobody
  /\ Return(w)
  /\ UNCHANGED << memory_cap, frame_counter, memoryVars, board_tx_spinlock,
                  pending_oframe_spinlock, register_access_mutex,
                  taskletVars, purgeVars, deviceVars >>

\* tasklet_schedule and up, then return count.
KickTasklet(w) ==
  /\ wpc[w] = "kick"
  /\ scheduled' = TRUE
  /\ write_semaphore' = Nobody
  /\ Return(w)
  /\ UNCHANGED << memory_cap, frame_counter, memoryVars, board_tx_spinlock,
                  pending_oframe_spinlock, register_access_mutex, tpc,
                  timer_armed, gave_up, purgeVars, deviceVars, faults >>

-----------------------------------------------------------------------------
(* The send tasklet: timer_handler and oframe_worker                       *)

TimerHandler ==
  /\ timer_armed
  /\ timer_armed' = FALSE
  /\ scheduled' = TRUE
  /\ UNCHANGED << memory_cap, frame_counter, memoryVars, lockVars, writerVars,
                  tpc, gave_up, purgeVars, deviceVars, faults >>

\* The tasklet runs on one processor at a time; it can be scheduled again
\* while it runs.
RunTasklet ==
  /\ tpc = "idle"
  /\ scheduled
  /\ scheduled' = FALSE
  /\ tpc' = "board"
  /\ gave_up' = FALSE
  /\ UNCHANGED << memory_cap, frame_counter, memoryVars, lockVars, writerVars,
                  timer_armed, purgeVars, deviceVars, faults >>

LockBoardTx ==
  /\ tpc = "board"
  /\ board_tx_spinlock = Nobody
  /\ board_tx_spinlock' = Tasklet
  /\ tpc' = "lock"
  /\ UNCHANGED << memory_cap, frame_counter, memoryVars, write_semaphore,
                  pending_oframe_spinlock, register_access_mutex, writerVars,
                  scheduled, timer_armed, gave_up, purgeVars, deviceVars,
                  faults >>

LockPending ==
  /\ tpc = "lock"
  /\ pending_oframe_spinlock = Nobody
  /\ pending_oframe_spinlock' = Tasklet
  /\ tpc' = "pick"
  /\ UNCHANGED << memory_cap, frame_counter, memoryVars, write_semaphore,
                  board_tx_spinlock, register_access_mutex, writerVars,
                  scheduled, timer_armed, gave_up, purgeVars, deviceVars,
                  faults >>

\* Leaving oframe_worker's locked part.
UnlockFrames ==
  /\ board_tx_spinlock' = Nobody
  /\ pending_oframe_spinlock' = Nobody
  /\ UNCHANGED << write_semaphore, register_access_mutex >>

\* Go on with pending_oframe, or take the oldest frame of the list.
PickFrame ==
  /\ tpc = "pick"
  /\ \/ /\ pending_oframe # NoFrame
        /\ UNCHANGED memoryVars
     \/ /\ pending_oframe = NoFrame
        /\ queued_oframes.frames # << >>
        /\ pending_oframe' = Head(queued_oframes.frames)
        /\ queued_oframes' = FlistRemove(queued_oframes)
  /\ tpc' = "prepare"
  /\ UNCHANGED << memory_cap, frame_counter, lockVars, writerVars, scheduled,
                  timer_armed, gave_up, purgeVars, deviceVars, faults >>

NothingToSend ==
  /\ tpc = "pick"
  /\ pending_oframe = NoFrame
  /\ queued_oframes.frames = << >>
  /\ UnlockFrames
  /\ tpc' = "idle"
  /\ UNCHANGED << memory_cap, frame_counter, memoryVars, writerVars, scheduled,
                  timer_armed, gave_up, purgeVars, deviceVars, faults >>

-----------------------------------------------------------------------------
(* synccom_port_transmit_frame, with prepare_frame_for_fifo                *)

\* The FIFO takes one word less than its size at a time.
FifoSpace == (TxFifoSize - 1) - ((TxFifoSize - 1) % 4)

TransmitLength(frame) == Smaller(FourAligned(frame.data_length), FifoSpace)

MutFirstAndOnlyLoad(frame) ==
  frame.data_length = frame.frame_size /\ frame.data_length <= FifoSpace

MutEveryLoad(frame) == TRUE

IsFirstLoad(frame) == frame.data_length = frame.frame_size

\* prepare_frame_for_fifo returns 0 for a frame without data: the tasklet
\* leaves it where it is and does not run again by itself.
NothingPrepared ==
  /\ tpc = "prepare"
  /\ TransmitLength(pending_oframe) < 1
  /\ UnlockFrames
  /\ tpc' = "idle"
  /\ gave_up' = TRUE
  /\ UNCHANGED << memory_cap, frame_counter, memoryVars, writerVars, scheduled,
                  timer_armed, purgeVars, deviceVars, faults >>

\* synccom_port_write_data puts a write URB in flight, and its bytes leave the
\* frame; if it could not, they stay.
Prepare(in_flight) ==
  /\ tpc = "prepare"
  /\ TransmitLength(pending_oframe) >= 1
  /\ Len(wire) < MaxUrbs
  /\ tpc' = IF IsFirstLoad(pending_oframe) THEN "announce" ELSE "command"
  /\ IF in_flight
     THEN /\ wire' = Append(wire, pending_oframe.number)
          /\ pending_oframe' =
                RemoveData(pending_oframe, TransmitLength(pending_oframe))
     ELSE UNCHANGED << wire, pending_oframe >>
  /\ refused' = IF ~in_flight /\ IsFirstLoad(pending_oframe) THEN refused + 1
                ELSE refused
  /\ UNCHANGED << memory_cap, frame_counter, queued_oframes, lockVars,
                  writerVars, scheduled, timer_armed, gave_up, purgeVars, card,
                  announced >>

SubmitLoad == Prepare(TRUE) /\ UNCHANGED faults
SubmitFails == Prepare(FALSE) /\ Fault("submit")

\* The first load is followed by the size of the frame, written to BC_FIFO_L.
AnnounceSize ==
  /\ tpc = "announce"
  /\ register_access_mutex = Nobody
  /\ announced' = announced + 1
  /\ tpc' = "command"
  /\ UNCHANGED << memory_cap, frame_counter, memoryVars, lockVars, writerVars,
                  scheduled, timer_armed, gave_up, purgeVars, wire, card,
                  refused, faults >>

\* synccom_port_execute_transmit
ExecuteTransmit ==
  /\ tpc = "command"
  /\ register_access_mutex = Nobody
  /\ tpc' = "finish"
  /\ UNCHANGED << memory_cap, frame_counter, memoryVars, lockVars, writerVars,
                  scheduled, timer_armed, gave_up, purgeVars, deviceVars,
                  faults >>

\* Result 2: the frame is deleted.  Result 1: it stays for the next run.
FinishLoad ==
  /\ tpc = "finish"
  /\ pending_oframe' = IF pending_oframe.data_length = 0 THEN NoFrame
                       ELSE pending_oframe
  /\ announced' = IF pending_oframe' = NoFrame THEN 0 ELSE announced
  /\ refused' = IF pending_oframe' = NoFrame THEN 0 ELSE refused
  /\ UnlockFrames
  /\ tpc' = "wake"
  /\ UNCHANGED << memory_cap, frame_counter, queued_oframes, writerVars,
                  scheduled, timer_armed, gave_up, purgeVars, wire,
                  card, faults >>

MutRescheduleWhenFinished == scheduled' = (scheduled \/ pending_oframe = NoFrame)

MutNeverReschedule == UNCHANGED scheduled

Reschedule == scheduled' = TRUE

WakeAndReschedule ==
  /\ tpc = "wake"
  /\ WakeOutputQueue
  /\ Reschedule
  /\ tpc' = "idle"
  /\ UNCHANGED << memory_cap, frame_counter, memoryVars, lockVars, wpc, count,
                  usage, cap_seen, waiting, timer_armed, gave_up, purgeVars,
                  deviceVars, faults >>

\* write_data_callback.  Data of a URB that failed does not reach the card,
\* and nothing sends it again.
UrbComplete ==
  /\ wire # << >>
  /\ wire' = Tail(wire)
  /\ card' = card \cup {Head(wire)}
  /\ UNCHANGED << memory_cap, frame_counter, memoryVars, lockVars, writerVars,
                  taskletVars, purgeVars, announced, refused, faults >>

UrbFails ==
  /\ wire # << >>
  /\ wire' = Tail(wire)
  /\ Fault("urb")
  /\ UNCHANGED << memory_cap, frame_counter, memoryVars, lockVars, writerVars,
                  taskletVars, purgeVars, card, announced, refused >>

-----------------------------------------------------------------------------
(* synccom_port_purge_tx                                                   *)

Purge(p) ==
  /\ ppc[p] = "idle"
  /\ ppc' = [ppc EXCEPT ![p] = "mutex"]
  /\ mark' = [mark EXCEPT ![p] = frame_counter]
  /\ UNCHANGED << memory_cap, frame_counter, memoryVars, lockVars, writerVars,
                  taskletVars, deviceVars, faults >>

LockRegisters(p) ==
  /\ ppc[p] = "mutex"
  /\ register_access_mutex = Nobody
  /\ register_access_mutex' = p
  /\ ppc' = [ppc EXCEPT ![p] = "board"]
  /\ UNCHANGED << memory_cap, frame_counter, memoryVars, write_semaphore,
                  board_tx_spinlock, pending_oframe_spinlock, writerVars,
                  taskletVars, mark, deviceVars, faults >>

LockBoard(p) ==
  /\ ppc[p] = "board"
  /\ board_tx_spinlock = Nobody
  /\ board_tx_spinlock' = p
  /\ ppc' = [ppc EXCEPT ![p] = "reset"]
  /\ UNCHANGED << memory_cap, frame_counter, memoryVars, write_semaphore,
                  pending_oframe_spinlock, register_access_mutex, writerVars,
                  taskletVars, mark, deviceVars, faults >>

\* The card drops what it holds; URBs in flight are not recalled.
ExecuteTRES(p) ==
  /\ ppc[p] = "reset"
  /\ card' = {}
  /\ board_tx_spinlock' = Nobody
  /\ register_access_mutex' = Nobody
  /\ ppc' = [ppc EXCEPT ![p] = "queued"]
  /\ UNCHANGED << memory_cap, frame_counter, memoryVars, write_semaphore,
                  pending_oframe_spinlock, writerVars, taskletVars, mark,
                  wire, announced, refused, faults >>

ClearQueued(p) ==
  /\ ppc[p] = "queued"
  /\ queued_oframes' = EmptyFlist
  /\ ppc' = [ppc EXCEPT ![p] = "pending"]
  /\ UNCHANGED << memory_cap, frame_counter, pending_oframe, lockVars,
                  writerVars, taskletVars, mark, deviceVars, faults >>

MutClearPendingForgets(p) ==
  /\ ppc[p] = "pending"
  /\ pending_oframe_spinlock = Nobody
  /\ ppc' = [ppc EXCEPT ![p] = "wake"]
  /\ UNCHANGED << memory_cap, frame_counter, memoryVars, lockVars, writerVars,
                  taskletVars, mark, deviceVars, faults >>

ClearPending(p) ==
  /\ ppc[p] = "pending"
  /\ pending_oframe_spinlock = Nobody
  /\ pending_oframe' = NoFrame
  /\ announced' = 0
  /\ refused' = 0
  /\ ppc' = [ppc EXCEPT ![p] = "wake"]
  /\ UNCHANGED << memory_cap, frame_counter, queued_oframes, lockVars,
                  writerVars, taskletVars, mark, wire, card, faults >>

WakeAndReturn(p) ==
  /\ ppc[p] = "wake"
  /\ WakeOutputQueue
  /\ ppc' = [ppc EXCEPT ![p] = "idle"]
  /\ mark' = [mark EXCEPT ![p] = 0]
  /\ UNCHANGED << memory_cap, frame_counter, memoryVars, lockVars, wpc, count,
                  usage, cap_seen, waiting, taskletVars, deviceVars, faults >>

\* synccom_port_set_memory_cap.  It wakes nobody.
SetMemoryCap(c) ==
  /\ c # memory_cap
  /\ memory_cap' = c
  /\ UNCHANGED << frame_counter, memoryVars, lockVars, writerVars, taskletVars,
                  purgeVars, deviceVars, faults >>

-----------------------------------------------------------------------------
\* The steps of a write that has begun.
WriterStep(w) ==
  \/ DownWriteSemaphore(w)
  \/ ReadQueuedUsage(w) \/ ReadPendingUsage(w)
  \/ TestRoom(w) \/ TestFullBlock(w) \/ TestFullAgain(w) \/ TestFullSleep(w)
  \/ LookAgain(w)
  \/ InsertFrame(w) \/ InsertUncopied(w) \/ InsertUnallocated(w)
  \/ InsertNoMemory(w)
  \/ KickTasklet(w)

TaskletStep ==
  \/ RunTasklet \/ LockBoardTx \/ LockPending
  \/ PickFrame \/ NothingToSend
  \/ NothingPrepared \/ SubmitLoad \/ SubmitFails
  \/ AnnounceSize \/ ExecuteTransmit
  \/ FinishLoad \/ WakeAndReschedule

PurgeStep(p) ==
  \/ LockRegisters(p) \/ LockBoard(p) \/ ExecuteTRES(p)
  \/ ClearQueued(p) \/ ClearPending(p) \/ WakeAndReturn(p)

Next ==
  \/ \E w \in Writers :
        \/ \E n \in Sizes : Write(w, n)
        \/ WriterStep(w)
        \/ Interrupt(w)
  \/ TimerHandler
  \/ TaskletStep
  \/ UrbComplete \/ UrbFails
  \/ \E p \in Purgers : Purge(p) \/ PurgeStep(p)
  \/ \E c \in Caps : SetMemoryCap(c)

Spec == Init /\ [][Next]_vars

\* A process inside the driver, a scheduled tasklet and a URB in flight all go
\* on when they can.  Nobody has to call write, purge, set a cap or send a
\* signal.  A lock that keeps being released is got in the end.
Fairness ==
  /\ \A w \in Writers : SF_vars(WriterStep(w))
  /\ WF_vars(TimerHandler)
  /\ WF_vars(TaskletStep)
  /\ WF_vars(UrbComplete \/ UrbFails)
  /\ \A p \in Purgers : SF_vars(PurgeStep(p))

FairSpec == Spec /\ Fairness

-----------------------------------------------------------------------------
(* Properties                                                              *)

\* Every variable has its type.
TypeOK ==
  /\ memory_cap \in Nat
  /\ frame_counter \in Nat \ {0}
  /\ queued_oframes \in Flist(Frame)
  /\ pending_oframe \in Frame \cup {NoFrame}
  /\ write_semaphore \in Writers \cup {Nobody}
  /\ board_tx_spinlock \in Purgers \cup {Tasklet, Nobody}
  /\ pending_oframe_spinlock \in {Tasklet, Nobody}
  /\ register_access_mutex \in Purgers \cup {Nobody}
  /\ wpc \in [Writers -> {"idle", "down", "queued", "pending", "test", "asleep",
                          "insert", "kick"}]
  /\ count \in [Writers -> Nat]
  /\ usage \in [Writers -> Int]
  /\ cap_seen \in [Writers -> Nat]
  /\ waiting \in [Writers -> BOOLEAN]
  /\ woken \in [Writers -> BOOLEAN]
  /\ tpc \in {"idle", "board", "lock", "pick", "prepare", "announce",
              "command", "finish", "wake"}
  /\ scheduled \in BOOLEAN
  /\ timer_armed \in BOOLEAN
  /\ gave_up \in BOOLEAN
  /\ ppc \in [Purgers -> {"idle", "mutex", "board", "reset", "queued",
                          "pending", "wake"}]
  /\ mark \in [Purgers -> Nat]
  /\ wire \in Seq(Nat)
  /\ card \in SUBSET Nat
  /\ announced \in Nat
  /\ refused \in Nat
  /\ faults \in Nat

\* A writer that goes on to insert its frame still has the room it tested for,
\* although the tasklet moves and drains frames, other writers test and insert,
\* purges clear and the cap changes after the two reads of the usage
\* (synccom_write, get_output_memory_usage): the real usage and its count are
\* within the cap it tested against.
AdmittedFits ==
  \A w \in Writers : wpc[w] = "insert" => Usage + count[w] <= cap_seen[w]

\* The output memory in use is within one of the caps that can be set
\* (docs/memory-cap.md), whatever the interleaving of writers, sends and purges.
OutputWithinCap == \E c \in Caps \cup {InitCap} : Usage <= c

\* estimated_memory_usage, kept incrementally by flist.c, is the number of bytes
\* in the list: a frame has the same length when it leaves as when it entered.
EstimateIsExact ==
  queued_oframes.estimated_memory_usage = CalculateMemoryUsage(queued_oframes)

\* A load handed to USB (write_data copies transmit_length bytes of
\* frame->buffer) lies within the allocation, padding included.
TransmitWithinBuffer ==
  pending_oframe # NoFrame =>
     TransmitLength(pending_oframe) <= pending_oframe.buffer_size

\* No kick is lost: while a frame can be sent, the tasklet is scheduled, or
\* running and about to see it, or a writer is about to schedule it.  The one
\* exception is the tasklet that gave up on a frame without data.
SomethingToSend ==
  IF pending_oframe = NoFrame
  THEN queued_oframes.frames # << >>
  ELSE pending_oframe.data_length > 0

WorkIsScheduled ==
  SomethingToSend =>
     \/ gave_up
     \/ scheduled
     \/ tpc # "idle"
     \/ \E w \in Writers : wpc[w] = "kick"

\* When a purge is through with the software queues, no frame that was accepted
\* before it began is left in them, even if the tasklet was between the two: the
\* queue is emptied before the pending frame.
PurgeDropsOld ==
  \A p \in Purgers : ppc[p] = "wake" =>
     /\ \A i \in 1..Len(queued_oframes.frames) :
           queued_oframes.frames[i].number >= mark[p]
     /\ pending_oframe # NoFrame => pending_oframe.number >= mark[p]

\* A frame is not deleted as sent before its size was written to BC_FIFO_L,
\* however many loads it took (prepare_frame_for_fifo, oframe_worker).
FinishedWasAnnounced ==
  [][FinishLoad /\ pending_oframe' = NoFrame => announced >= 1]_vars

\* The port is a FIFO of frames: it implements TxQueue.
Abstract(frame) == [number |-> frame.number, left |-> frame.data_length]

Backlog ==
  (IF pending_oframe = NoFrame THEN << >> ELSE << Abstract(pending_oframe) >>)
  \o [i \in 1..Len(queued_oframes.frames) |-> Abstract(queued_oframes.frames[i])]

Queue == INSTANCE TxQueue WITH
  backlog <- Backlog,
  newest <- frame_counter - 1,
  purging <- {p \in Purgers : ppc[p] # "idle"},
  Lengths <- Sizes \cup {0}

ImplementsTxQueue == Queue!Spec

-----------------------------------------------------------------------------
\* A frame that was accepted is sent in the end, one load after another: it
\* leaves the queue and pending_oframe (without purges and faults).
Accepted(n) ==
  \/ \E i \in 1..Len(queued_oframes.frames) : queued_oframes.frames[i].number = n
  \/ pending_oframe # NoFrame /\ pending_oframe.number = n

AcceptedFrameIsSent == \A n \in 1..MaxFrames : Accepted(n) ~> ~Accepted(n)

\* A write that blocks for room returns once frames were sent: the wake-up that
\* makes room known is not lost between the test and the sleep.
WriteReturns == \A w \in Writers : (wpc[w] # "idle") ~> (wpc[w] = "idle")

\* "If this is the first time we add data to the FIFO for this frame we tell the
\* port how much data is in this frame" (prepare_frame_for_fifo).  As far as the
\* code does it: after its load, however many loads follow, the size is announced
\* at most once, and once more for every time the first load could not be
\* submitted, which leaves the frame as if nothing had been tried.
SizeAnnouncedOnce == announced <= 1 + refused

-----------------------------------------------------------------------------
(* What the documentation says and the code does not do                    *)

\* docs/purge.md: SYNCCOM_PURGE_TX returns.
PurgeReturns == \A p \in Purgers : (ppc[p] # "idle") ~> (ppc[p] = "idle")
=============================================================================
