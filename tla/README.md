# A verification of the Sync Com driver

This directory holds a model of the Linux driver in `../src/src/` (`synccom.ko`,
the driver of Commtech's Sync Com USB cards) and of the clock calculation in
`../src/lib/raw/` in TLA+, the TLC configurations that check it on small instances,
and theorems about it that TLAPS proves for all instances.  Paths such as
`port.c:1320` are lines of `../src/src/port.c`.

## 1. The system

A Sync Com card is a synchronous serial port behind a USB interface.  The driver
makes it a character device: `write(2)` sends one frame, `read(2)` returns one
(or, in a streaming mode, bytes), `ioctl(2)` sets registers and options.

| Component | State it keeps | Operations |
| --- | --- | --- |
| frame buffers, frame lists (`frame.c`, `flist.c`) | a growable byte buffer; a list with a running estimate of its bytes | new, add_data, remove_data, update_buffer_size, add, remove, clear |
| transmit path (`main.c`, `port.c`) | `queued_oframes`, `pending_oframe`, `write_semaphore`, `output_queue`, the send tasklet and its start timer, write URBs | `synccom_write`, `oframe_worker`, `prepare_frame_for_fifo`, `write_data`, `purge_tx` |
| receive path (`main.c`, `port.c`, `frame.c`) | `istream` (bytes), `queued_iframes` (sizes), `read_semaphore`, `input_queue`, eight read URBs, the work item | `read_data_callback`, `update_bc_buffer`, `synccom_read`, `frame_read`, `stream_read`, `purge_rx` |
| registers (`port.c`, `utils.c`) | `register_storage`, `register_access_mutex`, the command endpoints | `get_register`, `set_register`, `set_registers`, `get_registers`, `set_clock_bits`, nonvolatile, FX2 revision, reprogramming |
| lifecycle (`main.c`, `port.c`) | `kref`, `interface`, `io_mutex`, `errors`, minor, timer, tasklet, work, URBs | probe, `initialize`, open, release, flush, suspend, reset, disconnect |
| settings | `memory_cap`, `append_status`, `rx_multiple`, `tx_modifiers`, `ignore_timeout` | the ioctls that set and get them |
| poll (`main.c`) | `poll_semaphore` | `synccom_poll` |
| sysfs, debug, descriptor (`sysfs.c`, `debug.c`, `descriptor.c`) | none of the driver's | attribute groups that nothing registers, counters, printing |
| user library (`../src/lib/raw`) | none | `calculate_clock_bits`: dividers, a loop filter and the programming word for a clock frequency |

### How the components interact

- `write(2)` appends a frame to `queued_oframes` and schedules the send tasklet.
  The tasklet moves the oldest frame to `pending_oframe`, hands it to a write URB
  one FIFO load at a time, writes its size and the transmit command through the
  register path, wakes `output_queue` and schedules itself again.
- The card's bytes come through eight read URBs. Their callback appends them to
  `istream`; in a streaming mode it wakes `input_queue`, otherwise it schedules the
  work item, which reads the sizes of the frames from the card's registers into
  `queued_iframes` and wakes `input_queue`. `read(2)` takes a size and then as many
  bytes.
- Everything that touches a register goes through one pair of endpoints under
  `register_access_mutex`: the send tasklet, the work item, both purges, the ioctls.
- `ioctl(2)` purges a direction, changes the settings the other parts read without
  a lock, or runs the register calls.
- `poll(2)` joins both queues and tests what a reader and a writer test.
- probe builds all of this and disconnect takes it away, while processes open, use
  and close the device; `kref` says when the port can be freed. The timer, the
  tasklet and the work item hold no reference.
- A program computes 20 bytes with `calculate_clock_bits` and hands them to
  `SYNCCOM_SET_CLOCK_BITS`, which shifts them into the clock generator.

### What is hard about it

- *Interleavings.* Usage is read in two halves under two locks, tested under a
  third, and acted on later (`port.c:921`, `main.c:224`); the callback does the same
  on the receiving side (`port.c:437`). A purge clears two structures one after the
  other while the tasklet or a callback moves data between them.
- *Two ways for one frame.* Bytes and sizes arrive independently and have to stay in
  step (`frame.c:270`, `port.c:248-284`).
- *Wake-ups and kicks.* Writers, readers, pollers, the tasklet and the work item sleep
  until somebody else says so.
- *Unchecked results.* Failed allocations, copies, URBs and bulk transfers are
  mostly not looked at; the program goes on with what it has.
- *Lock order.* A purge and the tasklet take two locks in opposite orders.
- *Timeouts.* A register read that times out leaves its reply to the next one.
- *Lifetime.* Opening, closing, resetting, suspending and unplugging race for one
  reference count, one pointer and one mutex, and what was scheduled before a
  disconnect runs after it.
- *Numbers.* The clock search compares doubles, and writes five overlapping tables
  into one word.

`PROJECT.json` lists these hazards one by one, at the line where each bites, with the
properties that would catch it going wrong or the reason why there is none.

### What makes each component correct

| Component | Properties |
| --- | --- |
| frames and lists | the running estimate is the sum of the lengths; a padded load is within the allocation |
| transmit | an admitted write fits and the cap holds; frames leave in order, whole, each with its size announced; a purge drops everything older; work is never left without a tasklet; accepted frames are sent; blocked writers and pollers return |
| receive | bytes and sizes stay in step; a read returns what it copied, or -ENOBUFS for a reason; the cap holds; the work item never fetches a size that is gone; no wake-up is lost; the whole is a queue of frames |
| registers | a reply goes to its request; no setting is undone by programming the clock; the clock gets one call's bits whole; the copy in memory is the last value set; calls return |
| lifecycle | no file loses its port, no port that was bound is leaked, power references balance, a disconnect ends, nothing new starts on a freed port |
| clock calculation | the word makes the requested frequency within the limits of the generator; "no solutions found" is true |

## 2. The modules and the code

| Module | Models | Proofs |
| --- | --- | --- |
| `Frames` | `frame.c`, `flist.c`: pure operators on buffers and lists | `FramesProofs` |
| `TxQueue` | what the transmit side promises: one FIFO queue of frames (abstract, written for this project) | - |
| `SynccomTx` (uses `Frames`, refines `TxQueue`) | `synccom_write`, `synccom_port_write`, `timer_handler`, `oframe_worker`, `prepare_frame_for_fifo`, `synccom_port_write_data`, `synccom_port_purge_tx`, output cap | `SynccomTxProofs` |
| `SynccomTxPoll` (extends `SynccomTx`) | `synccom_poll` for POLLOUT and the loop of `poll(2)` around it | `SynccomTxPollProofs` |
| `RxQueue` | what the receive side promises: a queue of frames that a read takes whole (abstract, written for this project) | - |
| `SynccomRx` (refines `RxQueue`) | `synccom_poll` for POLLIN, `read_data_callback`, `update_bc_buffer`, `synccom_read`, `synccom_port_stream_read`, `synccom_port_frame_read`, `synccom_port_purge_rx`, `append_status`, `rx_multiple`, input cap | `SynccomRxProofs` |
| `SynccomRegisters` | the register calls, `register_storage`, the firmware revision, the nonvolatile word, the clock, firmware lines, over endpoints that lose or delay a message | `SynccomRegistersProofs` |
| `SynccomLifecycle` | probe, `initialize`, open, release, flush, suspend, reset, disconnect | `SynccomLifecycleProofs` |
| `SynccomTeardown` (extends `SynccomLifecycle`) | the start timer, the send tasklet and the work item before, during and after a disconnect | `SynccomLifecycleProofs` |
| `ClockWord` | the five tables of `GetICS30703Data`, and how the generator reads a word | `SynccomClockProofs` |
| `SynccomClock` (extends `ClockWord`) | `calculate_clock_bits`, the search of `GetICS30703Data` | `SynccomClockProofs` |
| `SequenceLemmas` | nothing of the driver: induction over the natural numbers, flattened sequences | itself |
| `MCSynccom*` | names and small values for TLC | - |

The variables carry the names of the fields of `struct synccom_port` wherever there is
one (`queued_oframes`, `pending_oframe`, `istream`, `memory_cap`, `kref`, ...). The
variables that end in `pc` say where a thread of control is: `wpc` for a writer, `tpc`
for the tasklet, `rpc`, `cpc` and `kpc` for a reader, the callback and the work item,
`ppc` for a purge, `qpc` for a poller, `hpc` for the USB core, `fpc` for the process of
a file. Ghost variables (`mark`, `announced`, `refused`, `gave_up`, `disturbed`,
`copied`, `since`, `miscounted`, `lastSet`, `lastBits`, `overlapped`, `driven`) record
history for a property and guard nothing.

**Grain of the actions.** Where a handler takes a lock, releases it and takes another,
each critical section is an action of its own. A critical section inside which
nobody else can be told apart is one action, and its spinlock is no variable. Locks
that are held while something else of the model can happen are variables:
`write_semaphore`, `read_semaphore`, `register_access_mutex`, `board_tx_spinlock`,
`pending_oframe_spinlock`, `running_bc_mutex`, `io_mutex`. Reads of a setting without a lock are
where the code has them: `append_status` is read in three places of `frame_read`,
`memory_cap` when the test is made.

**`SynccomTx`.** `Write`, `DownWriteSemaphore`, `ReadQueuedUsage`,
`ReadPendingUsage` and the `Test...` actions are `synccom_write` and
`synccom_port_get_output_memory_usage`; `InsertFrame` and its failing forms are
`synccom_port_write`; `RunTasklet` to `WakeAndReschedule` are one run of
`oframe_worker`. `InsertUncopied` and `InsertUnallocated` stand for the result of
`synccom_frame_add_data_from_user` that nobody looks at: an empty frame is
queued all the same, and the tasklet gives up on it until somebody schedules it
again. A load that cannot be submitted leaves the frame whole; if it was the first
one, the next run announces the frame's size to the card a second time
(`port.c:1255`). `refused` counts such submissions, and `SizeAnnouncedOnce` allows one
announcement more for each: announcing comes after submitting, and nothing else
repeats it.

**`SynccomTxPoll`.** A poller is on `output_queue` from its first call of
`synccom_poll` until `poll(2)` returns, and sleeps only if nobody has woken it since.
It reads the usage in two halves without `write_semaphore`, so that it can count a frame
twice, or miss the one the tasklet is moving; every step of `SynccomTx` is a step here
(`DriverStep`), and two of them wake the queue: the tasklet after a load (`LoadDone`,
`port.c:1346-1349`) and a purge at its end (`PurgeDone`, `port.c:892`).

**`SynccomRx`.** A byte is a pair of the frame it belongs to and its position
there, so that `Aligned` can tell a byte that went to the wrong frame. `LineReceives`
and `FillUrb` are the card and the host controller; URB callbacks run one at a time in
the order the URBs were filled, as they do on one endpoint. A port stays in one mode
(streaming or frames) for a behaviour. `Poll` to `PollTest` are `synccom_poll`: its
`down_interruptible` may be interrupted, which nobody looks at, so that a poller goes
on without the semaphore and raises it all the same. The faults are those of the code's
unchecked results: `CallbackTakesAll` is the payload that the comparison with `errorcheck1`
and `errorcheck2` mistakes (`port.c:417-435`); what a failed register read leaves as a
count or a size is any of `LeftoverCounts` and `LeftoverSizes`; and when
`synccom_frame_new` fails the work item stores through a null pointer (`frame.c:273-274`)
and is gone, with `register_access_mutex` locked (`WorkerOops`). A leftover size is
why lengths are unsigned and signed numbers of the code's width (`Unsigned`, `Signed`,
`UintRange`): a size of 0 less its two status bytes wraps. `since` holds what has come
to pass since a reader found something to read, for `EnobufsExplained`.

**`SynccomRegisters`.** A caller is a process in an ioctl. `SetRegisters` and
`GetRegisters` walk the structure with one lock and unlock per register, as the code
does; `SetClockBits` reads FCR, writes every word of the pattern and restores what it
read, all under the mutex. FCR is the three clock lines and a rest; a structure that a
process sets can drive the lines too, which `port.c:729` lets through, and `driven`
remembers it. The card carries out requests in order; its clock generator shifts on a
rising clock and latches on a rising strobe. The firmware revision is made of two bytes
of the card (`FirmwareIsFrom`), with and without a signed `char`: where it is signed, a
second byte from 0x80 on makes a revision above every other, and the driver writes the
nonvolatile word of a card that has none.

**`SynccomLifecycle`.** The USB core calls probe, suspend, the halves of a reset and
disconnect one at a time, as one process `Hub`; an open runs under the core's
`minor_rwsem`, and a deregistration that waits for it keeps new opens out.
`initialize` has four parts, in the order of the code. A probe that finds no endpoints or
gets no minor drops the only reference before `initialize` has made the arrays of URBs.
`synccom_delete` then takes a null pointer (`main.c:67`, `port.c:161-163`) before
`usb_put_dev` and `kfree`: the thread ends (`hpc` is "oops"), the port stays, and
`main.c:521` ("this frees allocated memory") is not true. `NoPortIsLeaked` is about ports
that were bound.

**`SynccomTeardown`.** Which of the timer, the tasklet and the work item are due and
which run. A disconnect gives back its reference (`main.c:546`), which may free the port,
then deletes the timer (`main.c:548`), and never kills the tasklet or cancels the work
item. What such a run makes of the freed memory is undefined; here it ends in any of the
ways a run can. After the endpoints are shut a frame cannot be sent: the tasklet then
schedules itself without end.

**`SynccomClock`.** A frequency is a fraction of the 24 MHz input. One step is one reference
divider: all output and VCO dividers and loop filters for it, in the order in
which the loops try them. `ClockWord` writes a word as the set of its bits. The masks
of the code are applied one after the other to shared bytes; `WordMeetsRequest` reads
the result back with the tables the other way round (`ReadWord`, external: it is the
generator's side), which is checked against the word for 10 MHz in
`docs/clock-frequency.md:29`. `InputDividerBits` and the other encoders agree bit by
bit with the compiled C for every divider and filter in the tables' ranges.

### Abstractions, and what they leave out

- The driver sleeps with spinlocks held (a mutex and USB transfers inside
  `board_tx_spinlock`). A kernel that checks this complains; the model carries
  on when the mutex is free.
- What a failed `usb_bulk_msg` leaves in the buffer of a register read is
  uninitialised memory: any word of `Leftovers`.
- Sizes of received frames are at least two, as the card appends two status bytes.
- Doubles are exact fractions. Where the two sides of a comparison of the clock search
  are equal, or nearer than what doubles are exact to (`Slack`, one part in 10^15), the
  outcome depends on their rounding, and is either; the first pair of dividers that may
  pass can then be taken or not. This matters most at an allowance of 0 ppm, where an
  exact solution is a comparison of equal sides. The ratio of the loop filter is
  computed to its last digit (`RatioTenths`).
- `unsigned long` has 64 bits. Where it has 32, `ppm * desired` overflows
  (`calculate-clock-bits.c:189`), at 270 MHz from 16 ppm on, and the error allowed becomes
  too small.
- Contents of bytes, wording of log lines and arithmetic on time are left out.
  `append_timestamp` can never be switched on (`port.c:1083`).
- The counters bounded in the modules are `MaxFrames`, `MaxFaults`, `MaxUrbs` and
  `MaxCalls`. They are named in guards and hold in a model only; the theorems are
  for every value of them.

## 3. What TLC checks

| Run | Question | States |
| --- | --- | --- |
| `tx_safety` | two writers, a purge, a changing cap, one fault of any kind: admission, accounting, buffers, kicks, sizes announced once, purge order, and that `SynccomTx` implements `TxQueue` | 1,042,975 |
| `tx_live` | two writers and a poller, room for one frame: accepted frames are sent, blocked writers and the poller return, nobody sleeps through room | 70,320 |
| `rx_frames` | two readers, frames of two sizes split over URBs, one of them without data, `rx_multiple` toggling: reads return whole frames, -ENOBUFS has a cause, and `SynccomRx` implements `RxQueue` | 1,261,972 |
| `rx_storm` | purge, failing URBs, allocations, register reads and copies, mistaken payloads, changing cap, both modes, `append_status` toggling: cap, fetches, wake-ups and the causes of -ENOBUFS survive | 3,571,398 |
| `rx_live` | two frames at any time, a reader and a poller: every size is fetched, neither sleeps through its data | 76,584 |
| `life_safety` | three files, the timer, the tasklet and the work item against a probe that may fail, suspend, reset and disconnect: lifetime, power, what starts on a freed port, progress of a disconnect | 577,632 |
| `regs_safety` | three calls of two processes, one lost or late message: pairing, kept settings, the copy in memory, whole clock, calls return | 359,670 |
| `clock_search` | ten requests: the word makes the frequency, and nothing that would do is missed | 27,125 |
| `tx_purge_returns`, `rx_purge_fresh`, `life_ready`, `regs_answers` | what documents and comments say and the code does not do (section 5) | small |

Every property that passes is also checked against a model with a plausible bug put
into one definition (the operators named `Mut...`): dropping a wake-up, kicking only
when the frame is finished, forgetting the pending frame in a purge, unlocking
between request and reply, and so on. Each of them makes its property fail, which
shows that the bounds are large enough for the property to mean something.

### Why the bounds are enough

- *Transmit.* A FIFO of 8 bytes takes loads of 4, so that a frame of 3 bytes goes in
  one padded load and one of 6 in two, of which the second is padded. A cap of 9 has
  room for one frame of each kind and not for two of 6; 5 is less than one. Two
  writers and two frames are enough for every pair of orders at admission; a purge
  between any two steps of the tasklet needs one purger. In `tx_live` the second
  writer waits for the frame of the first, and the poller for both; that what an
  admitted writer inserts fits is proved for any number (section 4). The
  first load of a frame leaves room for the poller, its second for a writer. That
  nobody sleeps through room when purges clear and caps change as well is left to
  the proof.
- *Receive.* URBs of 3 bytes split a frame of 4 over two, and let one URB carry the end
  of a frame and the beginning of the next; two URBs in flight are enough for one to be
  filled while the callback of the other runs. A frame of 2 has nothing but its status
  bytes; with `append_status` off it leaves a read with nothing to return. A count of 1
  is too small for a frame of 4 in either setting, and for one of 2 if its status bytes
  are asked for; a count of 6 takes one frame, or two of them with `rx_multiple`. In
  `rx_storm` a payload of 3 meets caps of 4 and 6: it fits an empty stream, and a second
  one fits the larger cap only, which may be lowered between the test and the insert.
  One fault of five kinds, a leftover size below the status bytes and one above every
  buffer, and a leftover count above that of the card. In `rx_live` the second frame can
  arrive while the work item counts for the first. `UintRange` is 64 instead of 2^32:
  larger than twice every sum of a count and a status (`CountsAssumption`).
- *Registers.* Endpoints that buffer one request make a caller wait for the card;
  two clock bits and two distinct settings tell a mixture of two calls from either
  of them; three calls are enough for a set between the read and the restore of
  FCR and for a read after one that took the wrong reply. The second of the two structures
  that can be set leaves CCR0 alone (a negative value), tries to set STAR, and drives the
  clock line of FCR.
- *Lifecycle.* Three files: one open, one opening and one closing while disconnect
  runs. The proofs are for any finite number.
- *Clock.* All 1200 reference dividers of the code. Ten requests: exact solutions at the
  ends and in the middle of the range; one with a solution at 7 ppm, asked for with 10 and
  with 6; one within 1 ppm; one below and one above the range.

`CHECK_DEADLOCK FALSE` is in every configuration because the system may stop: all
frames and calls of the bound are done, no process has to call again, and a port that
is gone stays gone.

### Fairness

Liveness is checked under `FairSpec` of the modules.

- Weak fairness of the tasklet, the start timer, URB completions, the callback and
  the steps of disconnect and open: softirqs, timers and the USB core run what is
  due.
- Strong fairness of a process inside the driver (a poller too), of a purge and of the work item
  where it competes for a mutex, a semaphore or a spinlock: these locks are granted
  in the order of waiting or close to it, so that one that is released again and
  again is got. `SynccomRegisters` asks for weak fairness only, as calls are bounded.
- `SynccomTeardown` asks for no more than `SynccomLifecycle`: neither the timer, the
  tasklet nor the work item has to run for a disconnect to end.
- Nothing is asked of the environment: no process has to write, read, purge,
  interrupt, open or close, no frame has to come in, nobody has to unplug or reset.

## 4. What is proved

TLAPS proves the following for every value of the constants that the named
assumptions of the modules allow: any number of writers, purgers, files, sizes, caps,
faults and bounds.

**`SequenceLemmas`**: the library's induction theorems take an operator as a parameter,
which the provers cannot instantiate. `Induction` takes a set of numbers instead: the
numbers that are not in it would have a least one (`LeastNumber`, from the
well-foundedness of `<`). It makes folds provable: what `FlattenSeq` makes of
a longer, a shorter or a concatenated sequence, for sequences of any length.

**`SynccomTxProofs`** (over the lemmas of `FramesProofs` about padding, buffers and
lists). Six inductive invariants, each in its own section:

- `TypeInv` is `TypeOK`, who holds `pending_oframe_spinlock` where
  (`TaskletLock`), and that every frame fits its buffer and the estimate of the queue
  is exact (`FramesInv`). The account is needed to type the estimate at all: an
  estimate that drifted could go below zero. It is kept by running totals; that these
  are the sum `CalculateMemoryUsage` folds up is `UsageIsTotal` of `FramesProofs`, by
  induction over the list. It yields `TypesHold`, `LoadsStayWithinBuffer` and
  `EstimatesAreExact`.
- `AdmissionInv`: a writer inside the semaphore is alone; what it has read of the
  usage is still an upper bound, because only an insertion adds to the usage and moving a
  frame from the queue to `pending_oframe` lowers the first half before it raises
  the second; so the frame it inserts fits the cap it tested. It yields
  `AdmittedWritesFit` and `OutputStaysWithinCap`.
- `PurgeInv`: once a purge has emptied the queue, no older frame can come back into
  it, and once it has dropped the pending frame, none can follow from the queue. The
  order queue first, pending frame second carries the proof. It yields
  `PurgesDropOldFrames`.
- `OrderInv`: from the URBs in flight over the pending frame to the end of the queue
  the numbers under which frames were accepted only go up (`SentInOrder`), and the next
  number is above them all (`NumbersAreUsed`), without which an insertion could not be
  shown to keep the order. Only the loads of one frame share a number. It yields
  `FramesLeaveInOrder`, which no run checks as a property: `TransmitIsAQueue` says
  in which order frames are taken, this that nothing overtakes on the way to the card,
  whatever fails or is purged meanwhile.
- `KickInv`: while the port has a frame at all, a run of the tasklet is due, under
  way, or about to be asked for. `WorkIsScheduled` is not inductive, since a frame
  without data does not count for it; `KickInv` is stronger and is. It yields
  `NoKickIsLost`.
- `AnnounceInv`: a queued frame is whole, or never got its data; a pending frame of
  which something has gone was announced, and so was one the tasklet is about to
  finish; and the announcements made and about to be made are no more than the
  submissions of a whole frame: those that failed (`refused`) and one that did not, which
  leaves the frame short. It yields `SizesAnnouncedOnce` (at most once after the first
  load, plus once for each failed submission of it) and `FinishedFramesWereAnnounced`.

The last section is `TransmitIsAQueue`, that `SynccomTx` implements `TxQueue`
under the mapping that puts the pending frame before the queued ones. One lemma per
step of the queue; picking a frame is a stutter, a load takes bytes of the oldest
frame, a frame retires only when it is empty, and the two halves of a purge drop one
part each.

**`SynccomTxPollProofs`**, for any number of pollers as well: a step of `SynccomTxPoll` is
one of `SynccomTx` or leaves it alone (`PollersOnlyLook`), so that all of the above
holds with pollers. `SleepInv` says what somebody on `output_queue` knows who has not been
woken since he looked: what he has read of the queued frames is still queued, or the
tasklet has just taken the missing frame, or a wake-up is due (`SawQueued`); what he has
read in both halves is in use, or a wake-up is due (`SawAll`); and asleep, there is no room
for him or a wake-up is due (`NoRoomYet`). The frame that is being moved is why
the first claim has three cases: while it is moved, `pending_oframe_spinlock` keeps
the second half from being read (`SecondHalf`). `UsageFalls` is the heart: whatever takes
something from the usage leaves a wake-up due. It yields `RoomIsAlwaysNoticed`.

**`SynccomLifecycleProofs`**: `LifeInv` is `TypeOK`, the count is that of its holders
(`RefInv`), an open happens while the first reference is there (`OpenInv`, from
`minor_rwsem`), the power count is that of its users (`PowerInv`), and a probe that
fails does so before there are URBs and a disconnect finds them (`MadeInv`), which decides
whether the last reference frees the port. It yields
`TypesHold`, `FilesKeepPort`, `PortsAreFreed` and `PowerBalances`, for any finite set of
files (`ActorsAssumption`). For the timer, the tasklet and the work item: a step of
`SynccomTeardown` is one of the lifecycle, or leaves the lifecycle alone, so that
`LifeInv` and all it yields carry over (`LifetimeThen`).
`TeardownInv` adds that the read URBs are in flight only while probe's reference is
held; with the count of `RefInv` nobody is inside the driver once the port is freed
(`FreedIsQuiet`). It yields `LeftoversAlone`.

**`SynccomRxProofs`**, for any number of readers, pollers and purgers and all frame
sizes from two on (`SizesAssumption`: the status bytes):

- `TypeInv` is `TypeOK` and what is needed to type it: `Head` and `Tail` are taken of
  sequences that are not empty, sizes and counts stay within an `unsigned int`, and what
  the code subtracts and adds wraps there. It yields `TypesHold`.
- `FetchInv`: whoever counts or fetches sizes holds `register_access_mutex`, which a
  purge needs for its reset; a count that could not be read is excused (`miscounted`).
  It yields `FetchesFindSizes`.
- `CapInv`: the usage the callback has read bounds the bytes there are until it adds
  its own, because readers and purges only take away; the cap it tested against is one
  of those that were set, though it may be lowered meanwhile. It yields
  `InputStaysWithinCap`.
- `WakeInv`: whoever sleeps is on `input_queue`, and if there is data somebody is
  about to wake it or it has been woken. Readers and purges make no data
  appear (`NothingAppears`), one that waits looks before it sleeps (`WakeWaiter`), and
  a callback or the work item that adds anything stays busy until it wakes
  (`WakeCallback`, `WakeWorker`). A work item that died wakes nobody any more, and is
  excused. It yields `WakesAreNotLost`.
- `ReadInv`: a reader inside has the semaphore; one that has taken a size has as many
  bytes waiting for it and room for them, until it copies, because only readers and
  purges take bytes away. It yields `ReadCountsAreExact`.
  `DataInv`, that undisturbed sizes are those of the line and leave room for the status
  bytes, keeps the subtractions from wrapping there (`RoomIs`).
- `EmptyInv`: as long as nothing was purged since a reader found a frame, the frame is
  still the oldest and its bytes are there, and as long as it has taken no frame of status
  bytes alone and has nothing to return yet, its whole buffer is left. So
  what it leaves with is data, or the next frame is too large (`EmptyLeaves`). It holds
  through every fault and change of `append_status`: leftover sizes, miscut streams and all.
  It yields `EnobufsIsExplained`.
- `Aligned` is inductive together with these, since it speaks of all the bytes and all the
  sizes between the line and the readers at once (`StreamBytes`, `StreamSizes`): a step
  either moves one of them along, or adds or removes a frame at an end
  (`InStepStep`). The latter needs `FlattenHead` and its companions. It yields
  `BytesAndSizesStayInStep`.

`ReceiveImplementsQueue` is the refinement of `RxQueue`, from the same lemma:
`LineReceives` is an arrival, the copy of a reader takes the frame whose size it has
taken before, and every other step leaves the queue alone, ends a call or disturbs.

**`SynccomRegistersProofs`**, for any number of processes, any structure, clock bits and
faults and any depth of the endpoint:

- `TypeInv` is `TypeOK`, and that a caller which writes a register has a value for it.
- `PairInv`, with `MutexInv` (who is between its lock and its unlock holds the mutex):
  a read that the card has not carried out belongs to the caller that waits, and only
  firmware lines come behind it; a reply is the only one, and nothing that is left
  changes its register. A lost request leaves both true, a late
  reply does not. It yields `AnswersStayInStep`.
- `CopyInv`: a caller between its write and its copy owes `register_storage` a value; if
  sets have not overlapped, one caller at most owes it for a register, and owes what
  was set last. It yields `CopiesAreLastSets`.
- `SettledInv`: each register has what was set last, or that is the last message on its
  way there; while the clock is programmed, FCR instead has the value that was read as
  the last word to be written. What was read was what was set last by
  `PairInv`, and without a fault no caller gives up waiting (`AnswerInv`). It
  yields `SetsStay`.
- `ClockInv`: the state of the clock generator follows a course through the messages on
  their way to the card, one state for each. Along it whatever it has latched is the
  bits of one call, whole; and at its end it has latched `lastBits`, or somebody holds
  the mutex and the words that are left to write shift in, from where the course ends,
  all the bits of that call and then latch them (`AfterWords`, `NextWord`, one step of
  the course for each write). `LinesInv`, that no other call drives the clock lines as
  long as no process has set FCR with one of them high (`driven`), is
  why writes of other registers, and of the rest of FCR before and after, disturb
  nothing. It yields `ClockStaysWhole`, for bit patterns of any length.

**`SynccomClockProofs`**, for every request and every largest reference divider:

- `WordIsReadBack`: for every solution that is in the tables, the generator reads from
  the word what was put into it. `BitsAre` and `FieldOfBits` say what a field of up to
  eleven bits contains; then each table is read back on its own, and `WordLayout` says
  that no two of them share a bit. For the large output dividers this needs that each
  one the search tries has a fit (`LargeOutputDividersFit`).
- `SearchInv`: with every smaller reference divider, and with one ppm less with
  every divider, nothing passes surely (`NothingBehind`); and what is returned is
  the word of a solution that passes (`WordIsSolution`), which always has its place in
  the tables (`PassingIsSolution`). That other output dividers would not have helped is
  `ExpressibleAreTried`; that more ppm do no harm, also where rounding decides, is
  `AllowanceGrows` and `ErrorStaysAllowed`. It yields
  `ClockTypesHold`, `WordsMeetRequests` and `NothingIsMissed`.
- `SearchEnds`: the calculation returns. ENABLED and fairness being out of reach, it is
  stated with what they would stand for: while it searches, the guard of one of its
  steps is true (`SearchGoesOn`); the attempts left, `Remaining`, are a natural number
  below `AllAttempts`; and every step leaves fewer (`SearchAdvances`). That the search
  never stalls is not plain: the search may go on from a divider only where no pair
  passes surely, and return a pair only where none that passes surely is tried before
  it. So where some pass surely, the first of them in the order of the loops
  (`FirstSurePair`) must be one that may be returned: what passes surely is among
  what may pass (`SurePairsPass`, from `SureFiltersPass`).

**Only model-checked.** The liveness properties (`AcceptedFrameIsSent`, `WriteReturns`,
`PollReturns`, `SizesAreFetched`, `WaitingEnds`, `DisconnectReturns`, `CallsReturn`):
fairness and ENABLED are out of the prover's reach. `RoomIsAlwaysNoticed` is the safety part
of two of them. Every invariant and every action property of a passing run is proved,
and so are both refinements.

## 5. Where the code and its words differ

| Run | What is said | What the model shows |
| --- | --- | --- |
| `tx_purge_returns` | `docs/purge.md:16-20`: a purge that cannot be carried out returns `ETIMEDOUT` | purge takes `register_access_mutex` and then `board_tx_spinlock` (`port.c:875-876`), the tasklet the other way round (`port.c:1320`, `1256`, `1222`): they wait for each other for ever |
| `rx_purge_fresh` | `docs/purge.md:3`: "clear this data and start fresh" | URBs filled before the reset, or a size fetch in between, leave bytes and sizes out of step after the purge |
| `life_ready` | `main.c:503`: "we can register the device now, as it is ready" | the minor is given out before `initialize`: a process can write through semaphores and lists that do not exist yet |
| `regs_answers` | `docs/registers.md:121`: the structure gets the registers' "respective values" | a reply that comes after the timeout shifts every later reply by one |

Each of these is a configuration of its own whose one property TLC refutes.

Two more sentences are contradicted by what the models contain, without a run of their
own:

- `docs/read.md:16` has -ENOBUFS say that the next frame is larger than the buffer.
  `EnobufsExplained` names the two other causes the code has: a purge after the test
  of `has_incoming_data`, and a frame of two status bytes alone while `append_status` is
  off (`port.c:275-293`), whatever room there was. It shows that there is no fourth.
- `main.c:521`, "this frees allocated memory": not after a failed probe (`ProbeFails`).

## 6. Not modelled

- `tx_modifiers` and `ignore_timeout`: the bits of a command word, and a flag that
  nothing reads.
- A `poll` for both events at once: `SynccomRx` and `SynccomTxPoll` have one each.
- The endpoint search of probe and the registration of the driver.
- The mode of a port after a set of CCR0 (`synccom_port_is_streaming`): a port of `SynccomRx`
  keeps its mode. `CopyIsLastSet` says what the mode is decided by.
- Which bytes `errorcheck1` and `errorcheck2` compare, and that all ports share them: the
  model has bytes without values, and lets the comparison mistake any payload of
  odd length. On one of even length it changes nothing, as the card transfers whole
  words (the swap of bytes in pairs, `port.c:444`, supposes as much).
- Builds in which `unsigned long` has 32 bits, for the clock search.
- Functions nothing calls: `synccom_frame_transfer_data`,
  `synccom_flist_peek_back`, `synccom_flist_remove_frame_if_lte`, the timer
  reset, single-field getters.
- sysfs attribute groups (registered by no probe), DEBUG counters, the descriptor
  printer, sample programs, headers and packaging. One of the samples,
  `examples/clock-frequency.c:14`, ignores the result of `calculate_clock_bits` and
  programs a word that was not written when there is no solution.

## 7. Plan

Order of work; the parts marked *done* are those above.

1. *Done.* `Frames`, `SynccomTx`, `TxQueue`: the path on which data can be lost
   without anybody noticing, with its proofs and the refinement.
2. *Done.* `SynccomRx`, `SynccomRegisters`, `SynccomLifecycle`, with runs; the
   lifecycle with proofs.
3. *Done.* `synccom_poll` on both sides; `RxQueue` and `SynccomRx` shown to implement it;
   `SynccomTeardown`; `register_storage` and the firmware revision in
   `SynccomRegisters`; `ClockWord` and `SynccomClock`.
4. Composition of `SynccomRegisters` with the receive path: two sets of CCR0 that overlap
   can leave the driver in the other mode than the card, and a change of mode meets
   readers and frames of the old one.
5. *Done.* Proofs for `SynccomRx`, `SynccomTeardown` and `SynccomRegisters`.
6. *Done.* Proofs of every invariant and action property that a run checks: the
   announcements and the estimate of `SynccomTx`, the bytes and sizes of `SynccomRx` and
   its refinement of `RxQueue`, the clock generator, and the clock search.
7. *Done.* Proofs about `SynccomTxPoll`: the pollers leave the transmit path alone, and
   no wake-up of `output_queue` is lost (the safety part of `WriteReturns` and
   `PollReturns`).
8. *Done.* Two results beyond the runs: the order of the frames up to the URBs in flight,
   and that the search for the clock bits ends.

## 8. Running it

    tlc -config MCSynccomTx_safety.cfg MCSynccomTx      # and so on for each .cfg
    tlapm SynccomTxProofs.tla                           # and the other *Proofs modules

All passing runs finish within a few minutes on two workers.
