----------------------------- MODULE SynccomRx -----------------------------
(***************************************************************************)
(* The receive path of one port: the bulk-in URBs and their callback       *)
(* (port.c), the work item that fetches frame sizes (frame.c), read(2) and *)
(* poll(2) for input (main.c), SYNCCOM_PURGE_RX and the settings a read    *)
(* depends on.                                                             *)
(*                                                                         *)
(* A frame reaches the driver on two ways.  Its bytes come through the     *)
(* bulk-in URBs into istream; its size is fetched from the card, register  *)
(* by register, into queued_iframes.  A read takes the oldest size and     *)
(* then that many bytes, under two different locks.  Whether what is read  *)
(* is a frame depends on the two staying in step.                          *)
(*                                                                         *)
(* A byte is a pair: the frame it belongs to and its position there.  The  *)
(* critical sections of istream_spinlock and queued_iframes_spinlock are   *)
(* one action each; register_access_mutex and read_semaphore are held      *)
(* across actions.                                                         *)
(***************************************************************************)
EXTENDS Integers, Sequences, FiniteSets, SequencesExt

CONSTANTS
  Readers,       \* processes inside synccom_read
  Pollers,       \* processes inside poll, waiting for POLLIN
  Purgers,       \* processes inside synccom_port_purge_rx
  FrameSizes,    \* sizes of the frames on the line, the two status bytes included
  ReadCounts,    \* the counts passed to read
  InitCap,       \* memory_cap.input after probe
  Caps,          \* the values SYNCCOM_SET_MEMORY_CAP sets
  NumberOfUrbs,  \* NUMBER_OF_URBS
  UrbPayload,    \* the bytes one URB carries
  Streams,       \* the modes a port can be in: streaming (TRUE) or frames
  Toggles,       \* which of "append_status", "rx_multiple" may be changed
  MaxFrames,     \* bound: frames on the line in a behaviour
  Faults,        \* which of "urb", "errorcheck", "enomem", "register", "copy",
                 \*   "signal" can happen
  MaxFaults,     \* bound: how many of them in a behaviour
  LeftoverSizes, \* what a read of BC_FIFO_L that fails can leave as a size,
  LeftoverCounts,\*   and one of FIFO_FC as a number of sizes
  UintRange,     \* an unsigned int is below it: 2^32
  Worker,        \* the work item, as a holder of register_access_mutex
  Nobody,        \* a lock is free
  NoFrame        \* a reader has taken no frame

ASSUME SizesAssumption ==
  /\ FrameSizes \subseteq Nat \ {0, 1}
  /\ \A n \in FrameSizes : n < UintRange
\* The kernel cuts the count of a read to less than half of the unsigned ints.
ASSUME CountsAssumption ==
  /\ ReadCounts \subseteq Nat \ {0}
  /\ UintRange \in Nat
  /\ \A n \in ReadCounts \cup {0} : 2 * (n + 3) <= UintRange
ASSUME LeftoversAssumption ==
  /\ LeftoverSizes \subseteq Nat
  /\ \A n \in LeftoverSizes : n < UintRange
  /\ LeftoverCounts \subseteq Nat
ASSUME CapsAssumption == InitCap \in Nat /\ Caps \subseteq Nat
ASSUME UrbsAssumption == NumberOfUrbs \in Nat /\ UrbPayload \in Nat \ {0}
ASSUME ModesAssumption == Streams \subseteq BOOLEAN
ASSUME BoundsAssumption == MaxFrames \in Nat /\ MaxFaults \in Nat

SizeEntry == [number : Nat, size : Nat]
Byte == [frame : Nat, at : Nat]

ASSUME ActorsAssumption ==
  /\ Nobody \notin Readers \cup Purgers \cup {Worker}
  /\ Readers \cap Pollers = {}
  /\ NoFrame \notin SizeEntry

VARIABLES
  dfifo,             \* the card: bytes received and not yet transferred
  bcfifo,            \*   and the sizes behind FIFO_FC and BC_FIFO_L
  arrived,           \*   frames that came in on the line
  submitted,         \* read URBs the card can fill
  completed,         \* filled URBs, in the order their callbacks run
  cpc,               \* where the running callback is in read_data_callback
  cb_usage,          \*   the input memory usage it read
  cb_cap,            \*   the cap it tested that against
  istream,           \* the bytes in the driver
  queued_iframes,    \* the sizes in the driver
  register_access_mutex, \* its holder, or Nobody
  work_pending,      \* bclist_worker is scheduled and has not begun
  kpc,               \* where it is in update_bc_buffer
  remaining,         \*   the sizes it has still to fetch
  miscounted,        \*   ghost: which is not what the card told it
  read_semaphore,    \* the reader inside, or Nobody
  rpc,               \* where each reader is in synccom_read
  rcount,            \*   its count
  taken,             \*   the size it has taken off queued_iframes
  take_length,       \*   the bytes of that frame it is going to copy
  out_length,        \*   what it will return
  copied,            \*   ghost: the bytes it copied to its caller
  since,             \*   ghost: what came to pass since it found something to
                     \*     read: a "purge", or a "bare" frame was taken
  waiting,           \* it is on input_queue, as a reader in
                     \*   wait_event_interruptible or a poller after poll_wait
  woken,             \*   and was woken meanwhile
  poll_semaphore,    \* its count
  qpc,               \* where each poller is
  ppc,               \* where each purger is in synccom_port_purge_rx
  running_bc_mutex,  \* the purger inside, or Nobody
  streaming,         \* synccom_port_is_streaming
  append_status,
  rx_multiple,
  memory_cap,        \* memory_cap.input
  disturbed,         \* ghost: bytes or sizes were dropped, or the meaning of a
                     \*   size was changed
  faults             \* ghost: faults so far

cardVars == << dfifo, bcfifo, arrived >>
urbVars == << submitted, completed, cpc, cb_usage, cb_cap >>
dataVars == << istream, queued_iframes >>
workVars == << work_pending, kpc, remaining, miscounted >>
takeVars == << rcount, taken, take_length, out_length, copied, since >>
pollVars == << poll_semaphore, qpc >>
readVars == << rpc, takeVars, waiting, woken >>
purgeVars == << ppc, running_bc_mutex >>
settingVars == << streaming, append_status, rx_multiple, memory_cap >>
ghostVars == << disturbed, faults >>
vars == << cardVars, urbVars, dataVars, register_access_mutex, workVars,
           read_semaphore, readVars, pollVars, purgeVars, settingVars, ghostVars >>

Waiters == Readers \cup Pollers

-----------------------------------------------------------------------------
FrameBytes(entry) == [i \in 1..entry.size |-> [frame |-> entry.number, at |-> i]]

Smaller(a, b) == IF a <= b THEN a ELSE b

Leading(s, n) == SubSeq(s, 1, Smaller(n, Len(s)))

MutRemoveOneMore(s, n) == SubSeq(s, Smaller(n, Len(s)) + 2, Len(s))

\* synccom_frame_remove_data on istream
Removed(s, n) == SubSeq(s, Smaller(n, Len(s)) + 1, Len(s))

Fault(kind) ==
  /\ kind \in Faults
  /\ faults < MaxFaults
  /\ faults' = faults + 1

MutNobodyIsWoken == UNCHANGED woken

\* wake_up_interruptible(&port->input_queue)
WakeInputQueue == woken' = [w \in Waiters |-> woken[w] \/ waiting[w]]

MutHasAnySize ==
  IF streaming THEN istream # << >> ELSE queued_iframes # << >>

\* synccom_port_has_incoming_data: in frame mode, the oldest frame is complete.
HasIncomingData ==
  IF streaming
  THEN istream # << >>
  ELSE queued_iframes # << >> /\ Head(queued_iframes).size <= Len(istream)

Init ==
  /\ dfifo = << >>
  /\ bcfifo = << >>
  /\ arrived = 0
  /\ submitted = NumberOfUrbs
  /\ completed = << >>
  /\ cpc = "idle"
  /\ cb_usage = 0
  /\ cb_cap = 0
  /\ istream = << >>
  /\ queued_iframes = << >>
  /\ register_access_mutex = Nobody
  /\ work_pending = FALSE
  /\ kpc = "idle"
  /\ remaining = 0
  /\ miscounted = FALSE
  /\ read_semaphore = Nobody
  /\ rpc = [r \in Readers |-> "idle"]
  /\ rcount = [r \in Readers |-> 0]
  /\ taken = [r \in Readers |-> NoFrame]
  /\ take_length = [r \in Readers |-> 0]
  /\ out_length = [r \in Readers |-> 0]
  /\ copied = [r \in Readers |-> << >>]
  /\ since = [r \in Readers |-> {}]
  /\ waiting = [w \in Waiters |-> FALSE]
  /\ woken = [w \in Waiters |-> FALSE]
  /\ poll_semaphore = 1
  /\ qpc = [q \in Pollers |-> "idle"]
  /\ ppc = [p \in Purgers |-> "idle"]
  /\ running_bc_mutex = Nobody
  /\ streaming \in Streams
  /\ append_status \in BOOLEAN
  /\ rx_multiple \in BOOLEAN
  /\ memory_cap = InitCap
  /\ disturbed = FALSE
  /\ faults = 0

-----------------------------------------------------------------------------
(* The card and the USB host controller                                    *)

\* A frame of n bytes comes in.  In a streaming mode its bytes have no size.
LineReceives(n) ==
  LET entry == [number |-> arrived + 1, size |-> n]
  IN  /\ arrived < MaxFrames
      /\ arrived' = arrived + 1
      /\ dfifo' = dfifo \o FrameBytes(entry)
      /\ bcfifo' = IF streaming THEN bcfifo ELSE Append(bcfifo, entry)
      /\ UNCHANGED << urbVars, dataVars, register_access_mutex, workVars,
                      read_semaphore, readVars, pollVars, purgeVars,
                      settingVars, ghostVars >>

FillUrb ==
  /\ submitted > 0
  /\ dfifo # << >>
  /\ submitted' = submitted - 1
  /\ completed' = Append(completed, Leading(dfifo, UrbPayload))
  /\ dfifo' = Removed(dfifo, UrbPayload)
  /\ UNCHANGED << bcfifo, arrived, cpc, cb_usage, cb_cap, dataVars,
                  register_access_mutex, workVars, read_semaphore, readVars,
                  pollVars, purgeVars, settingVars, ghostVars >>

\* A read URB completes with an error.  read_data_callback does not submit it
\* again ("someone else should resubmit"), and nobody else does.
UrbFails ==
  /\ submitted > 0
  /\ Fault("urb")
  /\ submitted' = submitted - 1
  /\ UNCHANGED << cardVars, completed, cpc, cb_usage, cb_cap, dataVars,
                  register_access_mutex, workVars, read_semaphore, readVars,
                  pollVars, purgeVars, settingVars, disturbed >>

-----------------------------------------------------------------------------
(* read_data_callback                                                      *)

\* synccom_port_get_input_memory_usage: the size entries hold no data and
\* pending_iframe is never set, so that it is the length of istream.
CallbackReadUsage ==
  /\ cpc = "idle"
  /\ completed # << >>
  /\ cb_usage' = Len(istream)
  /\ cpc' = "test"
  /\ UNCHANGED << cardVars, submitted, completed, cb_cap, dataVars,
                  register_access_mutex, workVars, read_semaphore, readVars,
                  pollVars, purgeVars, settingVars, ghostVars >>

\* The two bytes before the data are taken for a repeat of the last two of the
\* URB before, instead of the payload: the payload becomes all that was
\* transferred, in whole words.  For an odd payload that is one byte of padding
\* more.
Padding == [frame |-> 0, at |-> 0]

CallbackTakesAll ==
  /\ cpc = "idle"
  /\ completed # << >>
  /\ Len(Head(completed)) % 2 = 1
  /\ Fault("errorcheck")
  /\ disturbed' = TRUE
  /\ completed' = << Append(Head(completed), Padding) >> \o Tail(completed)
  /\ cb_usage' = Len(istream)
  /\ cpc' = "test"
  /\ UNCHANGED << cardVars, submitted, cb_cap, dataVars, register_access_mutex,
                  workVars, read_semaphore, readVars, pollVars, purgeVars,
                  settingVars >>

MutFitsBefore(usage, payload, cap) == usage <= cap

Fits(usage, payload, cap) == usage + payload <= cap

CallbackTest ==
  /\ cpc = "test"
  /\ Fits(cb_usage, Len(Head(completed)), memory_cap)
  /\ cb_cap' = memory_cap
  /\ cpc' = "add"
  /\ UNCHANGED << cardVars, submitted, completed, cb_usage, dataVars,
                  register_access_mutex, workVars, read_semaphore, readVars,
                  pollVars, purgeVars, settingVars, ghostVars >>

\* usb_submit_urb at the end of the callback
Resubmit ==
  /\ submitted' = submitted + 1
  /\ completed' = Tail(completed)
  /\ cpc' = "idle"
  /\ cb_usage' = 0
  /\ cb_cap' = 0

\* "Input memory overflow - discarding data": the bytes go, their size stays.
CallbackDiscard ==
  /\ cpc = "test"
  /\ ~Fits(cb_usage, Len(Head(completed)), memory_cap)
  /\ Resubmit
  /\ disturbed' = TRUE
  /\ UNCHANGED << cardVars, dataVars, register_access_mutex, workVars,
                  read_semaphore, readVars, pollVars, purgeVars, settingVars,
                  faults >>

CallbackAdd ==
  /\ cpc = "add"
  /\ istream' = istream \o Head(completed)
  /\ cpc' = "notify"
  /\ UNCHANGED << cardVars, submitted, completed, cb_usage, cb_cap,
                  queued_iframes, register_access_mutex, workVars,
                  read_semaphore, readVars, pollVars, purgeVars, settingVars,
                  ghostVars >>

\* The result of synccom_frame_add_data is not looked at.
CallbackAddFails ==
  /\ cpc = "add"
  /\ Fault("enomem")
  /\ disturbed' = TRUE
  /\ cpc' = "notify"
  /\ UNCHANGED << cardVars, submitted, completed, cb_usage, cb_cap, dataVars,
                  register_access_mutex, workVars, read_semaphore, readVars,
                  pollVars, purgeVars, settingVars >>

MutScheduleUnlessRunning == work_pending' = (work_pending \/ kpc = "idle")

\* schedule_work: a work item that runs already will run once more.
ScheduleWork == work_pending' = TRUE

\* Streaming readers are woken here, readers of frames by the work item.
CallbackNotify ==
  /\ cpc = "notify"
  /\ IF streaming
     THEN WakeInputQueue /\ UNCHANGED work_pending
     ELSE ScheduleWork /\ UNCHANGED woken
  /\ Resubmit
  /\ UNCHANGED << cardVars, dataVars, register_access_mutex, kpc, remaining,
                  miscounted, read_semaphore, rpc, takeVars, waiting, pollVars, purgeVars,
                  settingVars, ghostVars >>

-----------------------------------------------------------------------------
(* frame_count_worker: update_bc_buffer                                    *)

WorkerBegins ==
  /\ kpc = "idle"
  /\ work_pending
  /\ work_pending' = FALSE
  /\ kpc' = "lock"
  /\ UNCHANGED << cardVars, urbVars, dataVars, register_access_mutex,
                  remaining, miscounted, read_semaphore, readVars, pollVars, purgeVars,
                  settingVars, ghostVars >>

MutWorkerLeavesEarly ==
  /\ kpc = "lock"
  /\ register_access_mutex = Nobody
  /\ remaining' = Len(bcfifo)
  /\ kpc' = IF bcfifo = << >> THEN "idle" ELSE "fetch"
  /\ register_access_mutex' = IF bcfifo = << >> THEN Nobody ELSE Worker
  /\ UNCHANGED << cardVars, urbVars, dataVars, work_pending, miscounted,
                  read_semaphore, readVars, pollVars, purgeVars, settingVars,
                  ghostVars >>

\* The number of sizes is read once; sizes that arrive later are left to the
\* run that their bytes will schedule.
WorkerTakesCount(n) ==
  /\ kpc = "lock"
  /\ register_access_mutex = Nobody
  /\ register_access_mutex' = Worker
  /\ remaining' = n
  /\ kpc' = "fetch"
  /\ UNCHANGED << cardVars, urbVars, dataVars, work_pending, read_semaphore,
                  readVars, pollVars, purgeVars, settingVars >>

WorkerCounts ==
  /\ WorkerTakesCount(Len(bcfifo))
  /\ UNCHANGED << miscounted, ghostVars >>

\* The register could not be read, which synccom_port_get_register does not look
\* at: the count is ten bits of whatever memory it was given for the value.
WorkerMiscounts ==
  /\ \E n \in LeftoverCounts : WorkerTakesCount(n)
  /\ Fault("register")
  /\ miscounted' = TRUE
  /\ disturbed' = TRUE

MutOneMoreToFetch == remaining >= 0

MoreToFetch == remaining > 0

WorkerFetches ==
  /\ kpc = "fetch"
  /\ MoreToFetch
  /\ bcfifo # << >>
  /\ remaining' = remaining - 1
  /\ bcfifo' = Tail(bcfifo)
  /\ queued_iframes' = Append(queued_iframes, Head(bcfifo))
  /\ UNCHANGED << dfifo, arrived, urbVars, istream, register_access_mutex,
                  work_pending, kpc, miscounted, read_semaphore, readVars, pollVars,
                  purgeVars, settingVars, ghostVars >>

\* What the card answers when it has no size is not known, and a register that
\* could not be read gives a leftover, too; the card may have given the size away.
WorkerFetchesLeftover ==
  /\ kpc = "fetch"
  /\ MoreToFetch
  /\ \/ bcfifo = << >> /\ UNCHANGED faults
     \/ Fault("register")
  /\ disturbed' = TRUE
  /\ remaining' = remaining - 1
  /\ bcfifo' \in {bcfifo, Removed(bcfifo, 1)}
  /\ \E n \in LeftoverSizes :
        queued_iframes' = Append(queued_iframes, [number |-> 0, size |-> n])
  /\ UNCHANGED << dfifo, arrived, urbVars, istream, register_access_mutex,
                  work_pending, kpc, miscounted, read_semaphore, readVars, pollVars,
                  purgeVars, settingVars >>

\* synccom_frame_new failed, and the size that was read is stored through a null
\* pointer: the thread ends there, with the mutex locked, and the work item never
\* runs again.
WorkerOops ==
  /\ kpc = "fetch"
  /\ MoreToFetch
  /\ Fault("enomem")
  /\ disturbed' = TRUE
  /\ bcfifo' = Removed(bcfifo, 1)
  /\ kpc' = "oops"
  /\ UNCHANGED << dfifo, arrived, urbVars, dataVars, register_access_mutex,
                  work_pending, remaining, miscounted, read_semaphore, readVars,
                  pollVars, purgeVars, settingVars >>

WorkerUnlocks ==
  /\ kpc = "fetch"
  /\ remaining = 0
  /\ register_access_mutex' = Nobody
  /\ kpc' = "wake"
  /\ miscounted' = FALSE
  /\ UNCHANGED << cardVars, urbVars, dataVars, work_pending, remaining,
                  read_semaphore, readVars, pollVars, purgeVars, settingVars,
                  ghostVars >>

\* The readers are woken whether or not there was a size to fetch: the bytes
\* that completed an older frame may just have come.
WorkerWakes ==
  /\ kpc = "wake"
  /\ WakeInputQueue
  /\ kpc' = "idle"
  /\ UNCHANGED << cardVars, urbVars, dataVars, register_access_mutex,
                  work_pending, remaining, miscounted, read_semaphore, rpc,
                  takeVars, waiting, pollVars, purgeVars, settingVars,
                  ghostVars >>

-----------------------------------------------------------------------------
(* synccom_read                                                            *)

Read(r, n) ==
  /\ rpc[r] = "idle"
  /\ rpc' = [rpc EXCEPT ![r] = "down"]
  /\ rcount' = [rcount EXCEPT ![r] = n]
  /\ UNCHANGED << cardVars, urbVars, dataVars, register_access_mutex, workVars,
                  read_semaphore, taken, take_length, out_length, copied,
                  since, waiting, woken, pollVars, purgeVars, settingVars,
                  ghostVars >>

MutDownReadSemaphoreShared(r) ==
  /\ rpc[r] = "down"
  /\ read_semaphore' = r
  /\ rpc' = [rpc EXCEPT ![r] = "check"]
  /\ UNCHANGED << cardVars, urbVars, dataVars, register_access_mutex, workVars,
                  takeVars, waiting, woken, pollVars, purgeVars, settingVars,
                  ghostVars >>

DownReadSemaphore(r) ==
  /\ rpc[r] = "down"
  /\ read_semaphore = Nobody
  /\ read_semaphore' = r
  /\ rpc' = [rpc EXCEPT ![r] = "check"]
  /\ UNCHANGED << cardVars, urbVars, dataVars, register_access_mutex, workVars,
                  takeVars, waiting, woken, pollVars, purgeVars, settingVars,
                  ghostVars >>

CheckIncoming(r) ==
  /\ rpc[r] = "check"
  /\ HasIncomingData
  /\ rpc' = [rpc EXCEPT ![r] = "read"]
  /\ UNCHANGED << cardVars, urbVars, dataVars, register_access_mutex, workVars,
                  read_semaphore, takeVars, waiting, woken, pollVars,
                  purgeVars, settingVars, ghostVars >>

CheckBlock(r) ==
  /\ rpc[r] = "check"
  /\ ~HasIncomingData
  /\ read_semaphore' = Nobody
  /\ waiting' = [waiting EXCEPT ![r] = TRUE]
  /\ woken' = [woken EXCEPT ![r] = FALSE]
  /\ rpc' = [rpc EXCEPT ![r] = "look"]
  /\ UNCHANGED << cardVars, urbVars, dataVars, register_access_mutex, workVars,
                  takeVars, pollVars, purgeVars, settingVars, ghostVars >>

\* What every return from synccom_read does to the reader's own variables.
Return(r) ==
  /\ rpc' = [rpc EXCEPT ![r] = "idle"]
  /\ rcount' = [rcount EXCEPT ![r] = 0]
  /\ taken' = [taken EXCEPT ![r] = NoFrame]
  /\ take_length' = [take_length EXCEPT ![r] = 0]
  /\ out_length' = [out_length EXCEPT ![r] = 0]
  /\ copied' = [copied EXCEPT ![r] = << >>]
  /\ since' = [since EXCEPT ![r] = {}]
  /\ waiting' = [waiting EXCEPT ![r] = FALSE]
  /\ woken' = [woken EXCEPT ![r] = FALSE]

\* O_NONBLOCK: -EAGAIN.
CheckAgain(r) ==
  /\ rpc[r] = "check"
  /\ ~HasIncomingData
  /\ read_semaphore' = Nobody
  /\ Return(r)
  /\ UNCHANGED << cardVars, urbVars, dataVars, register_access_mutex, workVars,
                  pollVars, purgeVars, settingVars, ghostVars >>

\* The condition inside wait_event_interruptible, outside the semaphore.
LookIncoming(r) ==
  /\ rpc[r] = "look"
  /\ rpc' = [rpc EXCEPT ![r] = IF HasIncomingData THEN "down" ELSE "asleep"]
  /\ waiting' = [waiting EXCEPT ![r] = ~HasIncomingData]
  /\ UNCHANGED << cardVars, urbVars, dataVars, register_access_mutex, workVars,
                  read_semaphore, takeVars, woken, pollVars, purgeVars,
                  settingVars, ghostVars >>

LookAgain(r) ==
  /\ rpc[r] = "asleep"
  /\ woken[r]
  /\ woken' = [woken EXCEPT ![r] = FALSE]
  /\ rpc' = [rpc EXCEPT ![r] = "look"]
  /\ UNCHANGED << cardVars, urbVars, dataVars, register_access_mutex, workVars,
                  read_semaphore, takeVars, waiting, pollVars, purgeVars,
                  settingVars, ghostVars >>

\* A signal: -ERESTARTSYS.
Interrupt(r) ==
  /\ rpc[r] \in {"down", "asleep"}
  /\ Return(r)
  /\ UNCHANGED << cardVars, urbVars, dataVars, register_access_mutex, workVars,
                  read_semaphore, pollVars, purgeVars, settingVars,
                  ghostVars >>

-----------------------------------------------------------------------------
(* synccom_port_read                                                       *)

StreamRead(r) ==
  /\ rpc[r] = "read"
  /\ streaming
  /\ out_length' = [out_length EXCEPT ![r] = Smaller(rcount[r], Len(istream))]
  /\ copied' = [copied EXCEPT ![r] = Leading(istream, rcount[r])]
  /\ istream' = Removed(istream, rcount[r])
  /\ rpc' = [rpc EXCEPT ![r] = "up"]
  /\ UNCHANGED << cardVars, urbVars, queued_iframes, register_access_mutex,
                  workVars, read_semaphore, rcount, taken, take_length, since,
                  waiting, woken, pollVars, purgeVars, settingVars,
                  ghostVars >>

\* copy_to_user fails: remove_data leaves the bytes, which nobody looks at.
StreamCopyFails(r) ==
  /\ rpc[r] = "read"
  /\ streaming
  /\ istream # << >>
  /\ Fault("copy")
  /\ disturbed' = TRUE
  /\ out_length' = [out_length EXCEPT ![r] = Smaller(rcount[r], Len(istream))]
  /\ rpc' = [rpc EXCEPT ![r] = "up"]
  /\ UNCHANGED << cardVars, urbVars, dataVars, register_access_mutex, workVars,
                  read_semaphore, rcount, taken, take_length, copied, since,
                  waiting, woken, pollVars, purgeVars, settingVars >>

\* synccom_port_frame_read.  Without append_status the two status bytes of a
\* frame do not go into the buffer, so that a frame may be two bytes larger.
StatusLength == IF append_status THEN 0 ELSE 2

\* One addition or subtraction of unsigned ints, and an unsigned int put into an
\* int.
Unsigned(n) ==
  IF n < 0 THEN n + UintRange ELSE IF n >= UintRange THEN n - UintRange ELSE n
Signed(n) == IF 2 * n >= UintRange THEN n - UintRange ELSE n

MaxFrameLength(r) == Signed(Unsigned((rcount[r] - out_length[r]) + StatusLength))

MutCanTakeIncomplete(r) ==
  /\ MaxFrameLength(r) >= 0
  /\ queued_iframes # << >>
  /\ Head(queued_iframes).size <= MaxFrameLength(r)

\* The oldest frame fits the rest of the buffer and all its bytes are here.
CanTake(r) ==
  /\ MaxFrameLength(r) >= 0
  /\ queued_iframes # << >>
  /\ Head(queued_iframes).size <= MaxFrameLength(r)
  /\ Head(queued_iframes).size <= Len(istream)

TakeSize(r) ==
  /\ rpc[r] = "read"
  /\ ~streaming
  /\ CanTake(r)
  /\ taken' = [taken EXCEPT ![r] = Head(queued_iframes)]
  /\ queued_iframes' = Tail(queued_iframes)
  /\ rpc' = [rpc EXCEPT ![r] = "trim"]
  /\ UNCHANGED << cardVars, urbVars, istream, register_access_mutex, workVars,
                  read_semaphore, rcount, take_length, out_length, copied,
                  since, waiting, woken, pollVars, purgeVars, settingVars,
                  ghostVars >>

TakeNothing(r) ==
  /\ rpc[r] = "read"
  /\ ~streaming
  /\ ~CanTake(r)
  /\ rpc' = [rpc EXCEPT ![r] = "up"]
  /\ UNCHANGED << cardVars, urbVars, dataVars, register_access_mutex, workVars,
                  read_semaphore, takeVars, waiting, woken, pollVars,
                  purgeVars, settingVars, ghostVars >>

\* append_status is read a second time, outside the locks ...
TrimStatus(r) ==
  /\ rpc[r] = "trim"
  /\ take_length' = [take_length EXCEPT ![r] = Unsigned(taken[r].size - StatusLength)]
  /\ rpc' = [rpc EXCEPT ![r] = "copy"]
  /\ UNCHANGED << cardVars, urbVars, dataVars, register_access_mutex, workVars,
                  read_semaphore, rcount, taken, out_length, copied, since,
                  waiting, woken, pollVars, purgeVars, settingVars, ghostVars >>

\* ... and a third time, to remove the status bytes.  With rx_multiple the
\* read goes on with the next frame.
NextFrame(r) ==
  /\ rpc[r] = "copy"
  /\ out_length' = [out_length EXCEPT ![r] = Unsigned(@ + take_length[r])]
  /\ since' = [since EXCEPT ![r] = IF taken[r].size <= 2 THEN @ \cup {"bare"} ELSE @]
  /\ taken' = [taken EXCEPT ![r] = NoFrame]
  /\ take_length' = [take_length EXCEPT ![r] = 0]
  /\ rpc' = [rpc EXCEPT ![r] = IF rx_multiple THEN "read" ELSE "up"]
  /\ UNCHANGED << cardVars, urbVars, queued_iframes, register_access_mutex,
                  workVars, read_semaphore, rcount, waiting, woken, pollVars,
                  purgeVars, settingVars >>

CopyFrame(r) ==
  /\ NextFrame(r)
  /\ istream' = Removed(Removed(istream, take_length[r]), StatusLength)
  /\ copied' = [copied EXCEPT ![r] = @ \o Leading(istream, take_length[r])]
  /\ UNCHANGED ghostVars

\* The bytes of the frame stay although its size is gone; the status bytes,
\* which are not copied, are removed all the same.
CopyFails(r) ==
  /\ NextFrame(r)
  /\ take_length[r] > 0
  /\ istream # << >>
  /\ Fault("copy")
  /\ disturbed' = TRUE
  /\ istream' = Removed(istream, StatusLength)
  /\ UNCHANGED copied

\* synccom_read returns out_length, or -ENOBUFS when it is zero.
UpReadSemaphore(r) ==
  /\ rpc[r] = "up"
  /\ read_semaphore' = Nobody
  /\ Return(r)
  /\ UNCHANGED << cardVars, urbVars, dataVars, register_access_mutex, workVars,
                  pollVars, purgeVars, settingVars, ghostVars >>

-----------------------------------------------------------------------------
(* synccom_poll, and the loop of poll(2) around it: a poller joins          *)
(* input_queue in its first call, and sleeps if no call finds an event and *)
(* nobody has woken it since.                                              *)

Poll(q) ==
  /\ qpc[q] = "idle"
  /\ qpc' = [qpc EXCEPT ![q] = "down"]
  /\ UNCHANGED << cardVars, urbVars, dataVars, register_access_mutex, workVars,
                  read_semaphore, readVars, poll_semaphore, purgeVars,
                  settingVars, ghostVars >>

PollWait(q) ==
  /\ qpc[q] = "down"
  /\ waiting' = [waiting EXCEPT ![q] = TRUE]
  /\ qpc' = [qpc EXCEPT ![q] = "test"]
  /\ UNCHANGED << cardVars, urbVars, dataVars, register_access_mutex, workVars,
                  read_semaphore, rpc, takeVars, woken, purgeVars, settingVars >>

PollDown(q) ==
  /\ PollWait(q)
  /\ poll_semaphore > 0
  /\ poll_semaphore' = poll_semaphore - 1
  /\ UNCHANGED ghostVars

\* The result of down_interruptible is discarded: with a signal pending the
\* call goes on without the semaphore, and ups it all the same.
PollDownInterrupted(q) ==
  /\ PollWait(q)
  /\ Fault("signal")
  /\ UNCHANGED << poll_semaphore, disturbed >>

\* With POLLIN poll returns, and leaves the queue.
PollTest(q) ==
  /\ qpc[q] = "test"
  /\ qpc' = [qpc EXCEPT ![q] = IF HasIncomingData THEN "idle" ELSE "asleep"]
  /\ waiting' = [waiting EXCEPT ![q] = ~HasIncomingData]
  /\ woken' = [woken EXCEPT ![q] = @ /\ ~HasIncomingData]
  /\ poll_semaphore' = poll_semaphore + 1
  /\ UNCHANGED << cardVars, urbVars, dataVars, register_access_mutex, workVars,
                  read_semaphore, rpc, takeVars, purgeVars, settingVars,
                  ghostVars >>

PollAgain(q) ==
  /\ qpc[q] = "asleep"
  /\ woken[q]
  /\ woken' = [woken EXCEPT ![q] = FALSE]
  /\ qpc' = [qpc EXCEPT ![q] = "down"]
  /\ UNCHANGED << cardVars, urbVars, dataVars, register_access_mutex, workVars,
                  read_semaphore, rpc, takeVars, waiting, poll_semaphore,
                  purgeVars, settingVars, ghostVars >>

\* A timeout or a signal
PollEnds(q) ==
  /\ qpc[q] = "asleep"
  /\ qpc' = [qpc EXCEPT ![q] = "idle"]
  /\ waiting' = [waiting EXCEPT ![q] = FALSE]
  /\ woken' = [woken EXCEPT ![q] = FALSE]
  /\ UNCHANGED << cardVars, urbVars, dataVars, register_access_mutex, workVars,
                  read_semaphore, rpc, takeVars, poll_semaphore, purgeVars,
                  settingVars, ghostVars >>

-----------------------------------------------------------------------------
(* synccom_port_purge_rx                                                   *)

Purge(p) ==
  /\ ppc[p] = "idle"
  /\ running_bc_mutex = Nobody
  /\ running_bc_mutex' = p
  /\ ppc' = [ppc EXCEPT ![p] = "reset"]
  /\ disturbed' = TRUE
  /\ UNCHANGED << cardVars, urbVars, dataVars, register_access_mutex, workVars,
                  read_semaphore, readVars, pollVars, settingVars, faults >>

MutExecuteRRESUnlocked(p) ==
  /\ ppc[p] = "reset"
  /\ dfifo' = << >>
  /\ bcfifo' = << >>
  /\ ppc' = [ppc EXCEPT ![p] = "queued"]
  /\ UNCHANGED << arrived, urbVars, dataVars, register_access_mutex, workVars,
                  read_semaphore, readVars, pollVars, running_bc_mutex,
                  settingVars, ghostVars >>

\* RRES: the card drops its bytes and its sizes; filled URBs are on their way.
ExecuteRRES(p) ==
  /\ ppc[p] = "reset"
  /\ register_access_mutex = Nobody
  /\ dfifo' = << >>
  /\ bcfifo' = << >>
  /\ ppc' = [ppc EXCEPT ![p] = "queued"]
  /\ UNCHANGED << arrived, urbVars, dataVars, register_access_mutex, workVars,
                  read_semaphore, readVars, pollVars, running_bc_mutex,
                  settingVars, ghostVars >>

\* ghost: a reader that has found something to read may now find it gone.
PurgedWhileReading ==
  since' = [r \in Readers |->
              IF rpc[r] = "read" THEN since[r] \cup {"purge"} ELSE since[r]]

ClearQueued(p) ==
  /\ ppc[p] = "queued"
  /\ queued_iframes' = << >>
  /\ PurgedWhileReading
  /\ ppc' = [ppc EXCEPT ![p] = "stream"]
  /\ UNCHANGED << cardVars, urbVars, istream, register_access_mutex, workVars,
                  read_semaphore, rpc, rcount, taken, take_length, out_length,
                  copied, waiting, woken, pollVars, running_bc_mutex,
                  settingVars, ghostVars >>

ClearStream(p) ==
  /\ ppc[p] = "stream"
  /\ istream' = << >>
  /\ PurgedWhileReading
  /\ running_bc_mutex' = Nobody
  /\ ppc' = [ppc EXCEPT ![p] = "idle"]
  /\ UNCHANGED << cardVars, urbVars, queued_iframes, register_access_mutex,
                  workVars, read_semaphore, rpc, rcount, taken, take_length,
                  out_length, copied, waiting, woken, pollVars, settingVars,
                  ghostVars >>

-----------------------------------------------------------------------------
(* Settings                                                                *)

\* It cannot be enabled (-EOPNOTSUPP) in a streaming mode.
SetAppendStatus ==
  /\ "append_status" \in Toggles
  /\ append_status \/ ~streaming
  /\ append_status' = ~append_status
  /\ disturbed' = TRUE
  /\ UNCHANGED << cardVars, urbVars, dataVars, register_access_mutex, workVars,
                  read_semaphore, readVars, pollVars, purgeVars, streaming,
                  rx_multiple, memory_cap, faults >>

SetRxMultiple ==
  /\ "rx_multiple" \in Toggles
  /\ rx_multiple' = ~rx_multiple
  /\ UNCHANGED << cardVars, urbVars, dataVars, register_access_mutex, workVars,
                  read_semaphore, readVars, pollVars, purgeVars, streaming,
                  append_status, memory_cap, ghostVars >>

SetMemoryCap(c) ==
  /\ c # memory_cap
  /\ memory_cap' = c
  /\ UNCHANGED << cardVars, urbVars, dataVars, register_access_mutex, workVars,
                  read_semaphore, readVars, pollVars, purgeVars, streaming,
                  append_status, rx_multiple, ghostVars >>

-----------------------------------------------------------------------------
CallbackStep ==
  \/ CallbackReadUsage \/ CallbackTakesAll \/ CallbackTest \/ CallbackDiscard
  \/ CallbackAdd \/ CallbackAddFails \/ CallbackNotify

WorkerStep ==
  \/ WorkerBegins \/ WorkerCounts \/ WorkerMiscounts
  \/ WorkerFetches \/ WorkerFetchesLeftover \/ WorkerOops
  \/ WorkerUnlocks \/ WorkerWakes

ReaderStep(r) ==
  \/ DownReadSemaphore(r)
  \/ CheckIncoming(r) \/ CheckBlock(r) \/ CheckAgain(r)
  \/ LookIncoming(r) \/ LookAgain(r)
  \/ StreamRead(r) \/ StreamCopyFails(r)
  \/ TakeSize(r) \/ TakeNothing(r) \/ TrimStatus(r)
  \/ CopyFrame(r) \/ CopyFails(r)
  \/ UpReadSemaphore(r)

PollerStep(q) ==
  PollDown(q) \/ PollDownInterrupted(q) \/ PollTest(q) \/ PollAgain(q)

PurgeStep(p) == ExecuteRRES(p) \/ ClearQueued(p) \/ ClearStream(p)

Next ==
  \/ \E n \in FrameSizes : LineReceives(n)
  \/ FillUrb \/ UrbFails
  \/ CallbackStep
  \/ WorkerStep
  \/ \E r \in Readers :
        \/ \E n \in ReadCounts : Read(r, n)
        \/ ReaderStep(r)
        \/ Interrupt(r)
  \/ \E q \in Pollers : Poll(q) \/ PollerStep(q) \/ PollEnds(q)
  \/ \E p \in Purgers : Purge(p) \/ PurgeStep(p)
  \/ SetAppendStatus \/ SetRxMultiple
  \/ \E c \in Caps : SetMemoryCap(c)

Spec == Init /\ [][Next]_vars

\* The card fills URBs, callbacks and the work item run, and a process inside
\* the driver goes on, when they can.  Nobody has to send a frame, call read, poll
\* or purge, change a setting or send a signal.
Fairness ==
  /\ WF_vars(FillUrb)
  /\ WF_vars(CallbackStep)
  /\ SF_vars(WorkerStep)
  /\ \A r \in Readers : SF_vars(ReaderStep(r))
  /\ \A q \in Pollers : SF_vars(PollerStep(q))
  /\ \A p \in Purgers : SF_vars(PurgeStep(p))

FairSpec == Spec /\ Fairness

-----------------------------------------------------------------------------
(* Properties                                                              *)

\* Every variable has its type.
TypeOK ==
  /\ dfifo \in Seq(Byte) /\ bcfifo \in Seq(SizeEntry) /\ arrived \in Nat
  /\ submitted \in Nat
  /\ completed \in Seq(Seq(Byte))
  /\ cpc \in {"idle", "test", "add", "notify"}
  /\ cb_usage \in Nat /\ cb_cap \in Nat
  /\ istream \in Seq(Byte)
  /\ queued_iframes \in Seq(SizeEntry)
  /\ register_access_mutex \in {Worker, Nobody}
  /\ work_pending \in BOOLEAN
  /\ kpc \in {"idle", "lock", "fetch", "wake", "oops"}
  /\ remaining \in Nat /\ miscounted \in BOOLEAN
  /\ read_semaphore \in Readers \cup {Nobody}
  /\ rpc \in [Readers -> {"idle", "down", "check", "look", "asleep", "read",
                          "trim", "copy", "up"}]
  /\ rcount \in [Readers -> Nat]
  /\ taken \in [Readers -> SizeEntry \cup {NoFrame}]
  /\ take_length \in [Readers -> Nat]
  /\ out_length \in [Readers -> Nat]
  /\ copied \in [Readers -> Seq(Byte)]
  /\ since \in [Readers -> SUBSET {"purge", "bare"}]
  /\ waiting \in [Waiters -> BOOLEAN]
  /\ woken \in [Waiters -> BOOLEAN]
  /\ poll_semaphore \in Nat
  /\ qpc \in [Pollers -> {"idle", "down", "test", "asleep"}]
  /\ ppc \in [Purgers -> {"idle", "reset", "queued", "stream"}]
  /\ running_bc_mutex \in Purgers \cup {Nobody}
  /\ streaming \in BOOLEAN /\ append_status \in BOOLEAN
  /\ rx_multiple \in BOOLEAN
  /\ memory_cap \in Nat
  /\ disturbed \in BOOLEAN /\ faults \in Nat

\* The bytes on their way to the readers, oldest first.
Underway == IF cpc = "notify" THEN Tail(completed) ELSE completed
StreamBytes == istream \o FlattenSeq(Underway) \o dfifo

\* The sizes on their way, oldest first; at most one reader has taken one.
TakenSizes ==
  LET holders == {r \in Readers : taken[r] # NoFrame}
  IN  IF holders = {} THEN << >> ELSE << taken[CHOOSE r \in holders : TRUE] >>
StreamSizes == TakenSizes \o queued_iframes \o bcfifo

InStep ==
  StreamBytes = FlattenSeq([i \in 1..Len(StreamSizes) |-> FrameBytes(StreamSizes[i])])

\* Bytes and sizes stay in step although they come on two ways and are taken
\* under two locks (read_data_callback, update_bc_buffer, frame_read): what
\* readers will take are the frames of the line, whole, in order, each once -
\* as long as nothing was discarded, purged or redefined in between.
Aligned == ~streaming /\ ~disturbed => InStep

\* What a read of frames returns is what it copied, and not more than was asked
\* for: the bytes of a size it takes are there, and stay there until it copies.
ReadCountExact ==
  ~disturbed => \A r \in Readers :
     out_length[r] = Len(copied[r]) /\ out_length[r] <= rcount[r]

\* docs/read.md:16 gives one cause for -ENOBUFS, a next frame that is larger than
\* the buffer.  There are two more: a purge in between, and a frame of nothing but
\* its status bytes, which leaves nothing to return.  There is no other, whatever
\* is toggled or fails meanwhile: what synccom_port_has_incoming_data found is
\* still there when synccom_port_frame_read looks for it.
ReturnsEnobufs(r) ==
  ~streaming /\ rpc[r] # "up" /\ rpc'[r] = "up" /\ out_length'[r] = 0

EnobufsExplained ==
  [][\A r \in Readers : ReturnsEnobufs(r) =>
       \/ since'[r] # {}
       \/ queued_iframes # << >> /\ Head(queued_iframes).size > MaxFrameLength(r)]_vars

\* The input memory in use is within one of the caps that can be set, although
\* the callback reads the usage, tests it and adds the bytes at three different
\* times, with readers and purges in between.
InputWithinCap == \E c \in Caps \cup {InitCap} : Len(istream) <= c

Asleep(w) == IF w \in Readers THEN rpc[w] = "asleep" ELSE qpc[w] = "asleep"

\* No wake-up is lost: neither a reader nor a poller stays asleep on data it
\* could have.  If there is any, either it has been woken, or a callback or the
\* work item is on its way to wake it (synccom_read, synccom_poll,
\* read_data_callback, update_bc_buffer) - unless the work item has died.
NoLostWake ==
  HasIncomingData /\ kpc # "oops" =>
     \/ cpc = "notify" \/ work_pending \/ kpc # "idle"
     \/ \A w \in Waiters : Asleep(w) => woken[w]

\* The work item never reads BC_FIFO_L more often than there are sizes on the
\* card, unless it could not read how many there are: no purge resets the card
\* between its count and its last fetch.
FetchFindsSize == kpc = "fetch" /\ ~miscounted => remaining <= Len(bcfifo)

\* docs/purge.md: a purge is for to "clear this data and start fresh": when none
\* is under way and nothing else disturbs them, bytes and sizes are in step.
PurgeStartsFresh ==
  ~streaming /\ running_bc_mutex = Nobody => InStep

-----------------------------------------------------------------------------
\* Whatever comes in on the line becomes readable: its size is fetched, even if
\* it arrives while the work item runs.
SizesAreFetched == (bcfifo # << >>) ~> (bcfifo = << >>)

\* Neither a blocking read nor a poll misses its data: while there is something
\* to read one that waits goes on, or another reader gets it.
WaitingEnds ==
  \A w \in Waiters : (Asleep(w) /\ HasIncomingData) ~> (~Asleep(w) \/ ~HasIncomingData)

-----------------------------------------------------------------------------
\* The receive path as a queue of frames, see RxQueue.  In a streaming mode, and
\* after a disturbance, it promises nothing.
AbstractQueue == INSTANCE RxQueue WITH
  frames <- StreamSizes, newest <- arrived, disturbed <- disturbed \/ streaming

\* Readers get the frames of the line out of the driver: each one whole, in
\* order, to one reader, its own bytes (read_data_callback, update_bc_buffer,
\* synccom_read, synccom_port_frame_read).
ImplementsRxQueue == AbstractQueue!Spec
=============================================================================
