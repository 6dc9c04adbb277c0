--------------------------- MODULE SynccomTxPoll ---------------------------
(***************************************************************************)
(* The transmit path together with processes that poll(2) the port for     *)
(* POLLOUT: synccom_poll (main.c) and the loop around it.  A poller joins  *)
(* output_queue in its first call of synccom_poll, and sleeps if no call   *)
(* finds an event and nobody has woken it since.                           *)
(***************************************************************************)
EXTENDS SynccomTx

CONSTANTS Pollers   \* processes inside poll, waiting for POLLOUT

VARIABLES
  poll_semaphore,   \* its count
  qpc,              \* where each poller is
  q_usage,          \* what it has read of the memory usage
  q_waiting,        \* it is on output_queue
  q_woken           \*   and was woken meanwhile

pollVars == << poll_semaphore, qpc, q_usage, q_waiting, q_woken >>
allVars == << vars, pollVars >>

PollInit ==
  /\ Init
  /\ poll_semaphore = 1
  /\ qpc = [q \in Pollers |-> "idle"]
  /\ q_usage = [q \in Pollers |-> 0]
  /\ q_waiting = [q \in Pollers |-> FALSE]
  /\ q_woken = [q \in Pollers |-> FALSE]

-----------------------------------------------------------------------------
Poll(q) ==
  /\ qpc[q] = "idle"
  /\ qpc' = [qpc EXCEPT ![q] = "down"]
  /\ UNCHANGED << vars, poll_semaphore, q_usage, q_waiting, q_woken >>

\* down_interruptible and poll_wait.  (SynccomRx has the signal that ends the
\* former, whose result nobody looks at.)
PollDown(q) ==
  /\ qpc[q] = "down"
  /\ poll_semaphore > 0
  /\ poll_semaphore' = poll_semaphore - 1
  /\ q_waiting' = [q_waiting EXCEPT ![q] = TRUE]
  /\ qpc' = [qpc EXCEPT ![q] = "queued"]
  /\ UNCHANGED << vars, q_usage, q_woken >>

\* synccom_port_get_output_memory_usage, in its two halves
PollReadQueued(q) ==
  /\ qpc[q] = "queued"
  /\ q_usage' = [q_usage EXCEPT ![q] = queued_oframes.estimated_memory_usage]
  /\ qpc' = [qpc EXCEPT ![q] = "pending"]
  /\ UNCHANGED << vars, poll_semaphore, q_waiting, q_woken >>

PollReadPending(q) ==
  /\ qpc[q] = "pending"
  /\ pending_oframe_spinlock = Nobody
  /\ q_usage' = [q_usage EXCEPT ![q] = @ + PendingLength]
  /\ qpc' = [qpc EXCEPT ![q] = "test"]
  /\ UNCHANGED << vars, poll_semaphore, q_waiting, q_woken >>

MutPollTestForgets(q) ==
  /\ qpc[q] = "test"
  /\ poll_semaphore' = poll_semaphore + 1
  /\ LET ready == q_usage[q] < memory_cap
     IN  /\ qpc' = [qpc EXCEPT ![q] = IF ready THEN "idle" ELSE "asleep"]
         /\ q_waiting' = [q_waiting EXCEPT ![q] = ~ready]
         /\ q_woken' = [q_woken EXCEPT ![q] = FALSE]
  /\ q_usage' = [q_usage EXCEPT ![q] = 0]
  /\ UNCHANGED vars

\* With POLLOUT poll returns, and leaves the queue.
PollTest(q) ==
  /\ qpc[q] = "test"
  /\ poll_semaphore' = poll_semaphore + 1
  /\ LET ready == q_usage[q] < memory_cap
     IN  /\ qpc' = [qpc EXCEPT ![q] = IF ready THEN "idle" ELSE "asleep"]
         /\ q_waiting' = [q_waiting EXCEPT ![q] = ~ready]
         /\ q_woken' = [q_woken EXCEPT ![q] = @ /\ ~ready]
  /\ q_usage' = [q_usage EXCEPT ![q] = 0]
  /\ UNCHANGED vars

PollAgain(q) ==
  /\ qpc[q] = "asleep"
  /\ q_woken[q]
  /\ q_woken' = [q_woken EXCEPT ![q] = FALSE]
  /\ qpc' = [qpc EXCEPT ![q] = "down"]
  /\ UNCHANGED << vars, poll_semaphore, q_usage, q_waiting >>

\* A timeout or a signal
PollEnds(q) ==
  /\ qpc[q] = "asleep"
  /\ qpc' = [qpc EXCEPT ![q] = "idle"]
  /\ q_waiting' = [q_waiting EXCEPT ![q] = FALSE]
  /\ q_woken' = [q_woken EXCEPT ![q] = FALSE]
  /\ UNCHANGED << vars, poll_semaphore, q_usage >>

\* The two steps that wake output_queue: the tasklet after a load ...
LoadDone == tpc = "wake" /\ tpc' = "idle"

\* ... and a purge at its end.
PurgeDone == \E p \in Purgers : ppc[p] = "wake" /\ ppc'[p] = "idle"

WakesOutputQueue == LoadDone \/ PurgeDone

DriverStep ==
  /\ Next
  /\ q_woken' = [q \in Pollers |-> q_woken[q] \/ (q_waiting[q] /\ WakesOutputQueue)]
  /\ UNCHANGED << poll_semaphore, qpc, q_usage, q_waiting >>

PollerStep(q) ==
  \/ PollDown(q) \/ PollReadQueued(q) \/ PollReadPending(q)
  \/ PollTest(q) \/ PollAgain(q)

PollNext ==
  \/ DriverStep
  \/ \E q \in Pollers : Poll(q) \/ PollerStep(q) \/ PollEnds(q)

PollFairness ==
  /\ Fairness
  /\ \A q \in Pollers : SF_allVars(PollerStep(q))

PollSpec == PollInit /\ [][PollNext]_allVars

FairPollSpec == PollSpec /\ PollFairness

-----------------------------------------------------------------------------
(* Properties                                                              *)

\* A wake-up of output_queue is due: the tasklet has handed over a load, or a
\* purge has emptied the queue.
WakeIsDue ==
  \/ tpc \in {"announce", "command", "finish", "wake"}
  \/ \E p \in Purgers : ppc[p] \in {"pending", "wake"}

\* No wake-up is lost: neither a writer nor a poller stays asleep while there is
\* room for it under every cap, unless it has been woken or a wake-up is due.  Each
\* of them reads the usage in two halves and tests it later, while the tasklet
\* moves a frame from one half to the other and sends it, others insert, purges
\* clear and the cap changes (synccom_write, synccom_poll, oframe_worker).
RoomIsNoticed ==
  LET room(n) == \A c \in Caps \cup {InitCap} : Usage + n <= c
  IN  /\ \A w \in Writers :
            wpc[w] = "asleep" /\ ~woken[w] /\ room(count[w]) => WakeIsDue
      /\ \A q \in Pollers :
            qpc[q] = "asleep" /\ ~q_woken[q] /\ room(1) => WakeIsDue

\* A poll for POLLOUT returns once frames were sent: although the usage is read
\* in two halves while the tasklet moves frames from the one to the other, and
\* a frame counted twice or a wake-up before the sleep can make the poller think
\* there is no room, a wake-up follows that finds some (synccom_poll,
\* oframe_worker).
PollReturns == \A q \in Pollers : (qpc[q] # "idle") ~> (qpc[q] = "idle")
=============================================================================
