-------------------------- MODULE SynccomLifecycle --------------------------
(***************************************************************************)
(* The life of one port: probe and initialize, the files that open it,     *)
(* suspend and reset, disconnect and the reference count that frees it     *)
(* (main.c, and initialize in port.c).                                     *)
(*                                                                         *)
(* The USB core calls probe, suspend, the two halves of a reset and        *)
(* disconnect one at a time: together they are one process, Hub.  The core *)
(* runs open under a lock for reading (minor_rwsem) that                   *)
(* usb_deregister_dev takes for writing, counts the users of an interface  *)
(* for autosuspend, and ends every URB in flight before a disconnect, in a *)
(* suspend and in a reset.  That much of it is modelled, from how the      *)
(* driver uses it.                                                         *)
(***************************************************************************)
EXTENDS Integers, FiniteSets

CONSTANTS
  Files,    \* the files processes open, flush and close
  Hub,      \* the USB core's thread, as a holder of io_mutex
  Nobody    \* io_mutex is free

ASSUME ActorsAssumption == IsFiniteSet(Files) /\ Hub # Nobody

VARIABLES
  hpc,         \* where Hub is: between two callbacks, or in one of them
  made,        \* the parts of the port that initialize has set up
  kref,        \* the reference count
  freed,       \* synccom_delete has freed the port
  intfdata,    \* usb_get_intfdata would return the port
  registered,  \* the minor is given out: open reaches synccom_open
  interface,   \* port->interface is not NULL
  io_mutex,    \* Hub, from pre_reset to post_reset, or Nobody
  pm_usage,    \* the core's count of users of the interface
  suspended,
  receiving,   \* the read URBs are in flight
  errors,      \* port->errors: "none", "pipe" (-EPIPE) or "io" (any other)
  fpc          \* where the process of each file is

portVars == << made, kref, freed >>
coreVars == << intfdata, registered, pm_usage, suspended >>
vars == << hpc, portVars, coreVars, interface, io_mutex, receiving, errors, fpc >>

-----------------------------------------------------------------------------
Parts == {"locks", "urbs", "queues", "started"}

FilePlaces == {"closed", "found", "resuming", "get", "open", "io", "flushed", "put"}

At(places) == {f \in Files : fpc[f] \in places}

\* The files that hold a reference: from kref_get to kref_put.
Holders == At({"open", "io", "flushed", "put"})

\* The files inside synccom_open, which hold minor_rwsem for reading.
Opening == At({"found", "resuming", "get"})

KrefGet == kref' = kref + 1 /\ UNCHANGED << made, freed >>

\* The last reference is dropped by synccom_delete.  Before initialize has made the
\* arrays of URBs synccom_port_destroy_urbs dereferences a null pointer there: the
\* thread ends, and neither usb_put_dev nor kfree is reached.
KrefPut ==
  /\ kref' = kref - 1
  /\ freed' = (freed \/ (kref = 1 /\ "urbs" \in made))
  /\ UNCHANGED made

Init ==
  /\ hpc = "absent"
  /\ made = {}
  /\ kref = 0
  /\ freed = FALSE
  /\ intfdata = FALSE
  /\ registered = FALSE
  /\ interface = FALSE
  /\ io_mutex = Nobody
  /\ pm_usage = 0
  /\ suspended = FALSE
  /\ receiving = FALSE
  /\ errors = "none"
  /\ fpc = [f \in Files |-> "closed"]

-----------------------------------------------------------------------------
(* synccom_probe                                                           *)

\* kzalloc, kref_init and the search for endpoints; kzalloc failing leaves
\* nothing behind.
ProbeAllocates ==
  /\ hpc = "absent"
  /\ kref' = 1
  /\ interface' = TRUE
  /\ hpc' = "endpoints"
  /\ UNCHANGED << made, freed, coreVars, io_mutex, receiving, errors, fpc >>

ProbeSetsData ==
  /\ hpc = "endpoints"
  /\ intfdata' = TRUE
  /\ hpc' = "register"
  /\ UNCHANGED << portVars, registered, pm_usage, suspended, interface, io_mutex,
                  receiving, errors, fpc >>

\* From here on the port can be opened.
ProbeRegisters ==
  /\ hpc = "register"
  /\ registered' = TRUE
  /\ hpc' = "initialize"
  /\ UNCHANGED << portVars, intfdata, pm_usage, suspended, interface, io_mutex,
                  receiving, errors, fpc >>

\* No endpoints, or no minor: drop the only reference, with no URBs made.  The
\* core's thread does not survive it.
ProbeFails ==
  /\ hpc \in {"endpoints", "register"}
  /\ intfdata' = FALSE
  /\ KrefPut
  /\ hpc' = "oops"
  /\ UNCHANGED << registered, pm_usage, suspended, interface, io_mutex,
                  receiving, errors, fpc >>

\* initialize: locks and settings, then the registers and the clock ...
InitializeLocks ==
  /\ hpc = "initialize"
  /\ made = {}
  /\ made' = {"locks"}
  /\ UNCHANGED << hpc, kref, freed, coreVars, interface, io_mutex, receiving,
                  errors, fpc >>

\* ... the URBs ...
InitializeUrbs ==
  /\ hpc = "initialize"
  /\ made = {"locks"}
  /\ made' = made \cup {"urbs"}
  /\ UNCHANGED << hpc, kref, freed, coreVars, interface, io_mutex, receiving,
                  errors, fpc >>

\* ... the lists, the timer, the work item and the tasklet ...
InitializeQueues ==
  /\ hpc = "initialize"
  /\ made = {"locks", "urbs"}
  /\ made' = made \cup {"queues"}
  /\ UNCHANGED << hpc, kref, freed, coreVars, interface, io_mutex, receiving,
                  errors, fpc >>

\* ... and, after a reset of the card, the timer runs and the URBs are out.
InitializeStarts ==
  /\ hpc = "initialize"
  /\ made = {"locks", "urbs", "queues"}
  /\ made' = made \cup {"started"}
  /\ receiving' = TRUE
  /\ hpc' = "bound"
  /\ UNCHANGED << kref, freed, coreVars, interface, io_mutex, errors, fpc >>

-----------------------------------------------------------------------------
(* synccom_suspend, synccom_resume, synccom_pre_reset, synccom_post_reset.  *)
(* synccom_draw_down waits for the anchor port->submitted, on which no URB  *)
(* is ever put: it returns at once and stops nothing.                       *)

\* The core ends the read URBs in flight: their callbacks record the status and
\* give up.  Nobody submits them again.
KillUrbs ==
  /\ receiving' = FALSE
  /\ errors' = IF receiving THEN "io" ELSE errors

Suspend ==
  /\ hpc = "bound"
  /\ pm_usage = 0
  /\ ~suspended
  /\ suspended' = TRUE
  /\ KillUrbs
  /\ UNCHANGED << hpc, portVars, intfdata, registered, pm_usage, interface, io_mutex,
                  fpc >>

\* The system sleeps and wakes up, with processes frozen: suspend and resume.
SystemSleeps ==
  /\ hpc = "bound"
  /\ KillUrbs
  /\ UNCHANGED << hpc, portVars, coreVars, interface, io_mutex, fpc >>

PreReset ==
  /\ hpc = "bound"
  /\ io_mutex = Nobody
  /\ io_mutex' = Hub
  /\ hpc' = "resetting"
  /\ UNCHANGED << portVars, coreVars, interface, receiving, errors, fpc >>

MutPostResetKeepsMutex ==
  /\ hpc = "resetting"
  /\ receiving' = FALSE
  /\ errors' = "pipe"
  /\ hpc' = "bound"
  /\ UNCHANGED << portVars, coreVars, interface, io_mutex, fpc >>

\* The reset in between has ended the URBs; what they recorded is overwritten.
PostReset ==
  /\ hpc = "resetting"
  /\ receiving' = FALSE
  /\ errors' = "pipe"
  /\ io_mutex' = Nobody
  /\ hpc' = "bound"
  /\ UNCHANGED << portVars, coreVars, interface, fpc >>

\* A read URB fails; it may be the last one in flight.
UrbError ==
  /\ receiving
  /\ errors' = "io"
  /\ receiving' \in BOOLEAN
  /\ UNCHANGED << hpc, portVars, coreVars, interface, io_mutex, fpc >>

-----------------------------------------------------------------------------
(* synccom_disconnect                                                      *)

Disconnect ==
  /\ hpc = "bound"
  /\ KillUrbs
  /\ intfdata' = FALSE
  /\ hpc' = "deregister"
  /\ UNCHANGED << portVars, registered, pm_usage, suspended, interface, io_mutex, fpc >>

MutDeregisterWaitsForNobody ==
  /\ hpc = "deregister"
  /\ registered' = FALSE
  /\ hpc' = "interface"
  /\ UNCHANGED << portVars, intfdata, pm_usage, suspended, interface, io_mutex,
                  receiving, errors, fpc >>

\* usb_deregister_dev waits until no open is under way.
DeregisterMinor ==
  /\ hpc = "deregister"
  /\ Opening = {}
  /\ registered' = FALSE
  /\ hpc' = "interface"
  /\ UNCHANGED << portVars, intfdata, pm_usage, suspended, interface, io_mutex,
                  receiving, errors, fpc >>

ClearInterface ==
  /\ hpc = "interface"
  /\ io_mutex = Nobody
  /\ interface' = FALSE
  /\ hpc' = "put"
  /\ UNCHANGED << portVars, coreVars, io_mutex, receiving, errors, fpc >>

\* No URB is anchored, so that usb_kill_anchored_urbs kills none.
DisconnectPuts ==
  /\ hpc = "put"
  /\ KrefPut
  /\ hpc' = "timer"
  /\ UNCHANGED << coreVars, interface, io_mutex, receiving, errors, fpc >>

\* del_timer, after the reference was given back.  When the driver is unbound the
\* core takes back the power references that are left.
DisconnectEnds ==
  /\ hpc = "timer"
  /\ pm_usage' = 0
  /\ hpc' = "gone"
  /\ UNCHANGED << portVars, intfdata, registered, suspended, interface, io_mutex,
                  receiving, errors, fpc >>

-----------------------------------------------------------------------------
(* synccom_open                                                            *)

\* usb_open has found the minor.  A deregistration that waits keeps new opens out.
OpenFinds(f) ==
  /\ fpc[f] = "closed"
  /\ registered
  /\ hpc # "deregister"
  /\ fpc' = [fpc EXCEPT ![f] = "found"]
  /\ UNCHANGED << hpc, portVars, coreVars, interface, io_mutex, receiving, errors >>

\* -ENODEV when disconnect has taken the pointer away.
OpenReadsData(f) ==
  /\ fpc[f] = "found"
  /\ fpc' = [fpc EXCEPT ![f] = IF intfdata THEN "resuming" ELSE "closed"]
  /\ UNCHANGED << hpc, portVars, coreVars, interface, io_mutex, receiving, errors >>

\* usb_autopm_get_interface, which resumes the device if it must.
OpenGetsPower(f) ==
  /\ fpc[f] = "resuming"
  /\ pm_usage' = pm_usage + 1
  /\ suspended' = FALSE
  /\ fpc' = [fpc EXCEPT ![f] = "get"]
  /\ UNCHANGED << hpc, portVars, intfdata, registered, interface, io_mutex,
                  receiving, errors >>

OpenFails(f) ==
  /\ fpc[f] = "resuming"
  /\ fpc' = [fpc EXCEPT ![f] = "closed"]
  /\ UNCHANGED << hpc, portVars, coreVars, interface, io_mutex, receiving, errors >>

MutOpenTakesNoReference(f) ==
  /\ fpc[f] = "get"
  /\ fpc' = [fpc EXCEPT ![f] = "open"]
  /\ UNCHANGED << hpc, portVars, coreVars, interface, io_mutex, receiving, errors >>

OpenTakesReference(f) ==
  /\ fpc[f] = "get"
  /\ KrefGet
  /\ fpc' = [fpc EXCEPT ![f] = "open"]
  /\ UNCHANGED << hpc, coreVars, interface, io_mutex, receiving, errors >>

-----------------------------------------------------------------------------
(* What processes do with an open file                                     *)

\* read, write, poll and ioctl take the port from the file and go on.  None of
\* them looks at port->interface.
IoBegins(f) ==
  /\ fpc[f] = "open"
  /\ fpc' = [fpc EXCEPT ![f] = "io"]
  /\ UNCHANGED << hpc, portVars, coreVars, interface, io_mutex, receiving, errors >>

IoEnds(f) ==
  /\ fpc[f] = "io"
  /\ fpc' = [fpc EXCEPT ![f] = "open"]
  /\ UNCHANGED << hpc, portVars, coreVars, interface, io_mutex, receiving, errors >>

\* synccom_flush, on every close(2); a duplicate of the file may stay open.
Flush(f) ==
  /\ fpc[f] = "open"
  /\ io_mutex = Nobody
  /\ errors' = "none"
  /\ \/ fpc' = [fpc EXCEPT ![f] = "flushed"]
     \/ UNCHANGED fpc
  /\ UNCHANGED << hpc, portVars, coreVars, interface, io_mutex, receiving >>

MutReleasePowerAlways(f) ==
  /\ fpc[f] = "flushed"
  /\ io_mutex = Nobody
  /\ pm_usage' = pm_usage - 1
  /\ fpc' = [fpc EXCEPT ![f] = "put"]
  /\ UNCHANGED << hpc, portVars, intfdata, registered, suspended, interface,
                  io_mutex, receiving, errors >>

MutReleaseOnlyBound(f) ==
  /\ fpc[f] = "flushed"
  /\ io_mutex = Nobody
  /\ pm_usage' = IF interface THEN pm_usage - 1 ELSE pm_usage
  /\ fpc' = [fpc EXCEPT ![f] = IF interface THEN "put" ELSE "closed"]
  /\ UNCHANGED << hpc, portVars, intfdata, registered, suspended, interface,
                  io_mutex, receiving, errors >>

\* synccom_release: give the power reference back while there is an interface
\* to give it to ...
ReleasePower(f) ==
  /\ fpc[f] = "flushed"
  /\ io_mutex = Nobody
  /\ pm_usage' = IF interface THEN pm_usage - 1 ELSE pm_usage
  /\ fpc' = [fpc EXCEPT ![f] = "put"]
  /\ UNCHANGED << hpc, portVars, intfdata, registered, suspended, interface,
                  io_mutex, receiving, errors >>

\* ... and the port's.
ReleasePuts(f) ==
  /\ fpc[f] = "put"
  /\ KrefPut
  /\ fpc' = [fpc EXCEPT ![f] = "closed"]
  /\ UNCHANGED << hpc, coreVars, interface, io_mutex, receiving, errors >>

-----------------------------------------------------------------------------
Probe ==
  \/ ProbeAllocates \/ ProbeSetsData \/ ProbeRegisters \/ ProbeFails
  \/ InitializeLocks \/ InitializeUrbs \/ InitializeQueues \/ InitializeStarts

DisconnectStep ==
  \/ DeregisterMinor \/ ClearInterface \/ DisconnectPuts \/ DisconnectEnds

OpenStep(f) ==
  \/ OpenReadsData(f) \/ OpenGetsPower(f) \/ OpenFails(f)
  \/ OpenTakesReference(f)

ReleaseStep(f) == ReleasePower(f) \/ ReleasePuts(f)

Next ==
  \/ Probe
  \/ Suspend \/ SystemSleeps \/ PreReset \/ PostReset \/ UrbError
  \/ Disconnect \/ DisconnectStep
  \/ \E f \in Files :
        \/ OpenFinds(f) \/ OpenStep(f)
        \/ IoBegins(f) \/ IoEnds(f)
        \/ Flush(f) \/ ReleaseStep(f)

Spec == Init /\ [][Next]_vars

\* A callback of the core that has begun goes on, and so does a process in open.
\* Nobody has to open or close a file, to reset or to unplug the card.
Fairness ==
  /\ WF_vars(PostReset)
  /\ WF_vars(DisconnectStep)
  /\ \A f \in Files : WF_vars(OpenStep(f))

FairSpec == Spec /\ Fairness

-----------------------------------------------------------------------------
(* Properties                                                              *)

\* Every variable has its type.
TypeOK ==
  /\ hpc \in {"absent", "endpoints", "register", "initialize", "oops", "bound",
              "resetting", "deregister", "interface", "put", "timer", "gone"}
  /\ made \in SUBSET Parts
  /\ kref \in Nat
  /\ freed \in BOOLEAN
  /\ intfdata \in BOOLEAN
  /\ registered \in BOOLEAN
  /\ interface \in BOOLEAN
  /\ io_mutex \in {Hub, Nobody}
  /\ pm_usage \in Nat
  /\ suspended \in BOOLEAN
  /\ receiving \in BOOLEAN
  /\ errors \in {"none", "pipe", "io"}
  /\ fpc \in [Files -> FilePlaces]

\* A port is not freed under a file, whenever its disconnect comes: an open that
\* has found the pointer gets its reference before disconnect can drop the first
\* one (synccom_open, synccom_disconnect, synccom_release).
FileKeepsPort ==
  freed => Holders = {} /\ At({"resuming", "get"}) = {}

\* And a port that was bound is freed in the end: when disconnect has given its
\* reference back and no file refers to it (synccom_disconnect, synccom_release).
\* A port whose probe failed is not: see KrefPut.
NoPortIsLeaked ==
  hpc \in {"timer", "gone"} /\ Holders = {} => freed

\* The power references balance: while there is an interface its count is that
\* of the files that use it, an autosuspended card has no users, and a file closed
\* after the disconnect does not give back what the core has taken back already
\* (synccom_open, synccom_release, synccom_disconnect).
PowerUsers == At({"get", "open", "io", "flushed"})

PowerBalanced ==
  /\ interface => pm_usage = Cardinality(PowerUsers)
  /\ suspended => PowerUsers = {}
  /\ hpc = "gone" => pm_usage = 0

\* A disconnect that has begun ends, although processes keep opening and closing
\* files meanwhile.
DisconnectReturns == (hpc = "deregister") ~> (hpc = "gone")

-----------------------------------------------------------------------------
(* What the comments say and the code does not do                          *)

\* "we can register the device now, as it is ready" (synccom_probe): a file
\* operation finds the semaphores, lists and the tasklet it uses.
FilesFindReadyPort ==
  \A f \in Files : fpc[f] = "io" => {"locks", "queues"} \subseteq made
=============================================================================
