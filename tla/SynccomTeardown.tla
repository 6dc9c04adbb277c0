-------------------------- MODULE SynccomTeardown --------------------------
(***************************************************************************)
(* The life of a port together with what runs on it later: the start       *)
(* timer, the send tasklet and the work item bclist_worker (port.c).       *)
(*                                                                         *)
(* A disconnect gives its reference back first and deletes the timer then; *)
(* the tasklet and the work item are never killed or cancelled.  They hold *)
(* no reference, so they can be due, or running, when the port is freed.   *)
(* What such a run makes of the freed memory is undefined: here it may end *)
(* in every way a run can.                                                 *)
(***************************************************************************)
EXTENDS SynccomLifecycle

VARIABLES
  due,       \* which of "timer", "tasklet", "work" are armed or scheduled
  running,   \* which of "tasklet", "work" run at this moment
  unsent     \* a frame with data is queued or being sent

deferredVars == << due, running, unsent >>
allVars == << vars, deferredVars >>

TeardownInit ==
  /\ Init
  /\ due = {}
  /\ running = {}
  /\ unsent = FALSE

-----------------------------------------------------------------------------
\* mod_timer at the end of initialize; del_timer at the end of a disconnect,
\* which does not wait for a handler, and everything else leaves the timer alone.
TimerAfterStep ==
  CASE InitializeStarts -> due \cup {"timer"}
    [] DisconnectEnds   -> due \ {"timer"}
    [] OTHER            -> due

PortStep ==
  /\ Next
  /\ due' = TimerAfterStep
  /\ UNCHANGED << running, unsent >>

\* A process inside the driver, once the lists and the tasklet exist.
Inside(f) == fpc[f] = "io" /\ "queues" \in made

\* write(2), in the end: a frame in queued_oframes and a scheduled tasklet.
WriteQueues(f) ==
  /\ Inside(f)
  /\ unsent' = TRUE
  /\ due' = due \cup {"tasklet"}
  /\ UNCHANGED << vars, running >>

\* SYNCCOM_PURGE_TX drops the frames, while the tasklet does not hold the locks.
PurgeDrops(f) ==
  /\ Inside(f)
  /\ "tasklet" \notin running
  /\ unsent' = FALSE
  /\ UNCHANGED << vars, due, running >>

\* A callback that has stored received data outside of a streaming mode.
CallbackSchedules ==
  /\ receiving
  /\ due' = due \cup {"work"}
  /\ UNCHANGED << vars, running, unsent >>

TimerFires ==
  /\ "timer" \in due
  /\ due' = (due \ {"timer"}) \cup {"tasklet"}
  /\ UNCHANGED << vars, running, unsent >>

\* Each runs on one processor at a time, and can be scheduled while it runs.
Begins(item) ==
  /\ item \in due \ running
  /\ due' = due \ {item}
  /\ running' = running \cup {item}
  /\ UNCHANGED << vars, unsent >>

\* Before a disconnect the core shuts the endpoints: from then on no URB can be
\* submitted.
EndpointsOpen == hpc \in {"initialize", "bound", "resetting"}

\* Nothing to send, or only a frame without data: the tasklet stays where it is.
TaskletRests ==
  /\ "tasklet" \in running
  /\ running' = running \ {"tasklet"}
  /\ UNCHANGED << vars, due, unsent >>

\* A load was sent, maybe the last one of the last frame; or, with UNCHANGED
\* unsent, it could not be: either way the tasklet schedules itself.
TaskletGoesOn ==
  /\ "tasklet" \in running
  /\ unsent
  /\ running' = running \ {"tasklet"}
  /\ due' = due \cup {"tasklet"}
  /\ unsent' \in IF EndpointsOpen \/ freed THEN BOOLEAN ELSE {TRUE}
  /\ UNCHANGED vars

WorkEnds ==
  /\ "work" \in running
  /\ running' = running \ {"work"}
  /\ UNCHANGED << vars, due, unsent >>

-----------------------------------------------------------------------------
TeardownNext ==
  \/ PortStep
  \/ \E f \in Files : WriteQueues(f) \/ PurgeDrops(f)
  \/ CallbackSchedules
  \/ TimerFires
  \/ \E item \in {"tasklet", "work"} : Begins(item)
  \/ TaskletRests \/ TaskletGoesOn \/ WorkEnds

TeardownSpec == TeardownInit /\ [][TeardownNext]_allVars /\ Fairness

-----------------------------------------------------------------------------
(* Properties                                                              *)

\* What an item on its way may start: the timer and the send tasklet start the
\* tasklet.
Successors(item) == CASE item = "timer"   -> {"timer", "tasklet"}
                      [] item = "tasklet" -> {"tasklet"}
                      [] item = "work"    -> {"work"}

\* "prevent more I/O from starting" (synccom_disconnect), as far as the code
\* does it: on a freed port nothing starts but what was on its way before.  No
\* file, no URB callback and no probe schedules anything or queues a frame.
NothingStartsOnFreedPort ==
  [][freed => /\ due' \cup running' \subseteq
                   UNION {Successors(item) : item \in due \cup running}
              /\ unsent' => unsent]_allVars
=============================================================================
