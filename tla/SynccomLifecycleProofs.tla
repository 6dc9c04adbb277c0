----------------------- MODULE SynccomLifecycleProofs -----------------------
(***************************************************************************)
(* The reference count and the power references of a port, and what the    *)
(* timer, the send tasklet and the work item leave of its lifetime, for    *)
(* any number of files.                                                    *)
(***************************************************************************)
EXTENDS SynccomTeardown, FiniteSetTheorems, TLAPS

USE DEF portVars, coreVars

-----------------------------------------------------------------------------
(* The inductive invariant                                                 *)

\* The reference of probe, which disconnect or a failed probe gives back.
HubHolds == hpc \notin {"absent", "oops", "timer", "gone"}

\* The count is that of those who hold a reference, and a port that was bound is
\* freed when there are none.
RefInv ==
  /\ kref = Cardinality(Holders) + (IF HubHolds THEN 1 ELSE 0)
  /\ freed <=> (hpc \in {"timer", "gone"} /\ kref = 0)

\* The arrays of URBs, which the last reference takes down, exist from initialize
\* on.
MadeInv ==
  /\ hpc \in {"absent", "endpoints", "register", "oops"} => "urbs" \notin made
  /\ hpc \in {"bound", "resetting", "deregister", "interface", "put", "timer",
              "gone"} => "urbs" \in made

\* Files are inside synccom_open only while the minor is given out, which is
\* within the time of the reference of probe.
OpenInv ==
  /\ Opening # {} => registered
  /\ registered => hpc \in {"initialize", "bound", "resetting", "deregister"}
  /\ hpc = "absent" => \A f \in Files : fpc[f] = "closed"

PowerInv ==
  /\ interface <=> hpc \notin {"absent", "put", "timer", "gone"}
  /\ interface => pm_usage = Cardinality(PowerUsers)
  /\ suspended => PowerUsers = {}
  /\ hpc \in {"absent", "gone"} => pm_usage = 0

LifeInv == TypeOK /\ RefInv /\ MadeInv /\ OpenInv /\ PowerInv

-----------------------------------------------------------------------------
(* Counting files                                                          *)

\* The files in some places of their life are finitely many.
LEMMA AtIsFinite ==
  ASSUME NEW places
  PROVE  IsFiniteSet(At(places)) /\ Cardinality(At(places)) \in Nat
  <1>1. At(places) \in SUBSET Files
    BY DEF At
  <1>2. IsFiniteSet(At(places))
    BY <1>1, ActorsAssumption, FS_Subset
  <1> QED BY <1>2, FS_CardinalityType

\* One file moves: it enters the set, leaves it, or neither.
LEMMA FileMoves ==
  ASSUME NEW places, NEW f \in Files, NEW place,
         fpc \in [Files -> FilePlaces],
         fpc' = [fpc EXCEPT ![f] = place]
  PROVE  /\ At(places)' = IF place \in places THEN At(places) \cup {f}
                                              ELSE At(places) \ {f}
         /\ Cardinality(At(places)') =
              Cardinality(At(places))
                + (IF place \in places /\ fpc[f] \notin places THEN 1 ELSE 0)
                - (IF place \notin places /\ fpc[f] \in places THEN 1 ELSE 0)
  <1>1. At(places)' = IF place \in places THEN At(places) \cup {f}
                                          ELSE At(places) \ {f}
    BY DEF At
  <1>2. f \in At(places) <=> fpc[f] \in places
    BY DEF At
  <1>3. /\ IsFiniteSet(At(places))
        /\ Cardinality(At(places)) \in Nat
    BY AtIsFinite
  <1>4. CASE place \in places
    <2>1. Cardinality(At(places) \cup {f}) =
            IF f \in At(places) THEN Cardinality(At(places))
                                ELSE Cardinality(At(places)) + 1
      BY <1>3, FS_AddElement
    <2> QED BY <1>1, <1>2, <1>3, <1>4, <2>1
  <1>5. CASE place \notin places
    <2>1. Cardinality(At(places) \ {f}) =
            IF f \in At(places) THEN Cardinality(At(places)) - 1
                                ELSE Cardinality(At(places))
      BY <1>3, FS_RemoveElement
    <2> QED BY <1>1, <1>2, <1>3, <1>5, <2>1
  <1> QED BY <1>4, <1>5

\* A member counts for one at least.
LEMMA MemberCounts ==
  ASSUME NEW places, NEW f \in Files, fpc[f] \in places
  PROVE  Cardinality(At(places)) >= 1
  <1>1. IsFiniteSet(At(places)) /\ Cardinality(At(places)) \in Nat
    BY AtIsFinite
  <1>2. At(places) # {}
    BY DEF At
  <1>3. Cardinality(At(places)) # 0
    BY <1>1, <1>2, FS_EmptySet
  <1> QED BY <1>1, <1>3

-----------------------------------------------------------------------------
(* The invariant holds                                                     *)

\* The counts of open files match before the first one is opened.
LEMMA LifeInit == Init => LifeInv
  <1> SUFFICES ASSUME Init PROVE LifeInv
    OBVIOUS
  <1> USE DEF Init
  <1>1. TypeOK
    BY DEF TypeOK, FilePlaces, Parts
  <1>2. Holders = {} /\ Opening = {} /\ PowerUsers = {}
    BY DEF Holders, Opening, PowerUsers, At
  <1>3. Cardinality({}) = 0
    BY FS_EmptySet
  <1>4. RefInv
    BY <1>2, <1>3 DEF RefInv, HubHolds
  <1>5. OpenInv
    BY <1>2 DEF OpenInv
  <1>6. PowerInv
    BY <1>2, <1>3 DEF PowerInv
  <1>7. MadeInv
    BY DEF MadeInv
  <1> QED BY <1>1, <1>4, <1>5, <1>6, <1>7 DEF LifeInv

\* Giving back the last reference frees the port if there are URBs to take down.
LEMMA KrefPutFacts ==
  ASSUME TypeOK, KrefPut, kref >= 1, ~freed
  PROVE  /\ kref' = kref - 1
         /\ kref' \in Nat
         /\ freed' \in BOOLEAN
         /\ freed' <=> (kref' = 0 /\ "urbs" \in made)
         /\ made' = made
  <1>1. kref' = kref - 1 /\ kref' \in Nat /\ made' = made
    BY DEF TypeOK, KrefPut
  <1>2. freed' = (freed \/ (kref = 1 /\ "urbs" \in made))
    BY DEF KrefPut
  <1>3. kref = 1 <=> kref' = 0
    BY <1>1 DEF TypeOK
  <1>4. freed' \in BOOLEAN /\ (freed' <=> (kref = 1 /\ "urbs" \in made))
    BY <1>2, Zenon
  <1> QED BY <1>1, <1>3, <1>4

\* Steps of the USB core move no file.
LEMMA HubSteps ==
  ASSUME LifeInv,
         Probe \/ Suspend \/ SystemSleeps \/ PreReset \/ PostReset \/ UrbError
           \/ Disconnect \/ DisconnectStep
  PROVE  LifeInv'
  <1> USE DEF LifeInv, KillUrbs
  <1>1. UNCHANGED fpc
    BY DEF Probe, ProbeAllocates, ProbeSetsData, ProbeRegisters, ProbeFails,
           InitializeLocks, InitializeUrbs, InitializeQueues, InitializeStarts,
           Suspend, SystemSleeps, PreReset, PostReset, UrbError, Disconnect,
           DisconnectStep, DeregisterMinor, ClearInterface, DisconnectPuts,
           DisconnectEnds
  <1>2. UNCHANGED << Holders, Opening, PowerUsers >>
    BY <1>1 DEF Holders, Opening, PowerUsers, At
  <1>3. Cardinality(Holders) \in Nat /\ Cardinality(PowerUsers) \in Nat
    BY AtIsFinite DEF Holders, PowerUsers
  <1>4. hpc = "absent" => Cardinality(Holders) = 0 /\ Cardinality(PowerUsers) = 0
    <2>1. SUFFICES ASSUME hpc = "absent" PROVE Holders = {} /\ PowerUsers = {}
      BY FS_EmptySet
    <2> QED BY <2>1 DEF OpenInv, Holders, PowerUsers, At
  <1> USE DEF TypeOK, RefInv, HubHolds, MadeInv, OpenInv, PowerInv
  <1>5. CASE Probe
    <2>1. CASE ProbeAllocates
      BY <1>1, <1>2, <1>3, <1>4, <2>1 DEF ProbeAllocates
    <2>2. CASE ProbeSetsData
      BY <1>1, <1>2, <2>2 DEF ProbeSetsData
    <2>3. CASE ProbeRegisters
      BY <1>1, <1>2, <2>3 DEF ProbeRegisters
    <2>4. CASE ProbeFails
      <3>1. kref >= 1 /\ ~freed /\ KrefPut
        BY <1>3, <2>4 DEF ProbeFails
      <3>2. /\ kref' = kref - 1 /\ kref' \in Nat /\ made' = made
            /\ freed' \in BOOLEAN
            /\ freed' <=> (kref' = 0 /\ "urbs" \in made)
        BY <3>1, KrefPutFacts
      <3>3. /\ hpc \in {"endpoints", "register"} /\ hpc' = "oops"
            /\ intfdata' = FALSE
            /\ UNCHANGED << registered, pm_usage, suspended, interface, io_mutex,
                            receiving, errors, fpc >>
        BY <2>4 DEF ProbeFails
      <3>4. TypeOK'
        BY <3>2, <3>3
      <3>5. RefInv' /\ MadeInv'
        BY <1>2, <1>3, <3>2, <3>3
      <3>6. OpenInv' /\ PowerInv'
        BY <1>2, <3>3
      <3> QED BY <3>4, <3>5, <3>6
    <2>5. CASE InitializeLocks \/ InitializeUrbs \/ InitializeQueues
      BY <1>1, <1>2, <2>5
         DEF InitializeLocks, InitializeUrbs, InitializeQueues, Parts
    <2>6. CASE InitializeStarts
      BY <1>1, <1>2, <2>6 DEF InitializeStarts, Parts
    <2> QED BY <1>5, <2>1, <2>2, <2>3, <2>4, <2>5, <2>6 DEF Probe
  <1>6. CASE Suspend
    <2>1. PowerUsers = {}
      <3>1. IsFiniteSet(PowerUsers)
        BY AtIsFinite DEF PowerUsers
      <3>2. Cardinality(PowerUsers) = 0
        BY <1>6 DEF Suspend
      <3> QED BY <3>1, <3>2, FS_EmptySet
    <2> QED BY <1>1, <1>2, <1>6, <2>1 DEF Suspend
  <1>7. CASE SystemSleeps \/ UrbError
    <2>1. UNCHANGED << hpc, portVars, coreVars, interface, io_mutex >>
      BY <1>7 DEF SystemSleeps, UrbError
    <2>2. receiving' \in BOOLEAN /\ errors' \in {"none", "pipe", "io"}
      BY <1>7 DEF SystemSleeps, UrbError
    <2>3. TypeOK'
      BY <1>1, <2>1, <2>2
    <2> QED BY <1>1, <1>2, <2>1, <2>3
  <1>8. CASE PreReset \/ PostReset
    <2>1. /\ hpc \in {"bound", "resetting"}
          /\ hpc' \in {"bound", "resetting"}
          /\ UNCHANGED << portVars, coreVars, interface >>
      BY <1>8 DEF PreReset, PostReset
    <2>2. /\ receiving' \in BOOLEAN
          /\ errors' \in {"none", "pipe", "io"}
          /\ io_mutex' \in {Hub, Nobody}
      BY <1>8 DEF PreReset, PostReset
    <2> QED BY <1>1, <1>2, <2>1, <2>2
  <1>9. CASE Disconnect
    BY <1>1, <1>2, <1>9 DEF Disconnect
  <1>10. CASE DisconnectStep
    <2>1. CASE DeregisterMinor
      BY <1>1, <1>2, <2>1 DEF DeregisterMinor
    <2>2. CASE ClearInterface
      BY <1>1, <1>2, <2>2 DEF ClearInterface
    <2>3. CASE DisconnectPuts
      <3>1. kref >= 1 /\ ~freed /\ KrefPut
        BY <1>3, <2>3 DEF DisconnectPuts
      <3>2. /\ kref' = kref - 1 /\ kref' \in Nat /\ made' = made
            /\ freed' \in BOOLEAN
            /\ freed' <=> (kref' = 0 /\ "urbs" \in made)
        BY <3>1, KrefPutFacts
      <3>3. hpc = "put" /\ hpc' = "timer" /\ "urbs" \in made
        BY <2>3 DEF DisconnectPuts
      <3> QED BY <1>1, <1>2, <1>3, <2>3, <3>2, <3>3 DEF DisconnectPuts
    <2>4. CASE DisconnectEnds
      BY <1>1, <1>2, <2>4 DEF DisconnectEnds
    <2> QED BY <1>10, <2>1, <2>2, <2>3, <2>4 DEF DisconnectStep
  <1> QED BY <1>5, <1>6, <1>7, <1>8, <1>9, <1>10

\* A step of a file moves that file, and counts what it takes or gives back.
LEMMA FileSteps ==
  ASSUME LifeInv, NEW f \in Files,
         \/ OpenFinds(f) \/ OpenStep(f)
         \/ IoBegins(f) \/ IoEnds(f)
         \/ Flush(f) \/ ReleaseStep(f)
  PROVE  LifeInv'
  <1> USE DEF LifeInv
  <1>1. fpc \in [Files -> FilePlaces]
    BY DEF TypeOK
  <1>2. PICK place \in FilePlaces : fpc' = [fpc EXCEPT ![f] = place]
    <2>1. fpc = [fpc EXCEPT ![f] = fpc[f]]
      BY <1>1
    <2> QED
      BY <1>1, <2>1
         DEF OpenFinds, OpenStep, OpenReadsData, OpenGetsPower, OpenFails,
             OpenTakesReference, IoBegins, IoEnds, Flush, ReleaseStep,
             ReleasePower, ReleasePuts, FilePlaces
  <1>3. fpc' \in [Files -> FilePlaces] /\ fpc'[f] = place
    BY <1>1, <1>2
  <1>4. /\ Cardinality(Holders) \in Nat
        /\ Cardinality(PowerUsers) \in Nat
    BY AtIsFinite DEF Holders, PowerUsers
  <1>5. \A p :
          At(p)' = IF place \in p THEN At(p) \cup {f} ELSE At(p) \ {f}
    BY <1>1, <1>2, FileMoves
  <1>6. \A p :
          Cardinality(At(p)') = Cardinality(At(p))
            + (IF place \in p /\ fpc[f] \notin p THEN 1 ELSE 0)
            - (IF place \notin p /\ fpc[f] \in p THEN 1 ELSE 0)
    BY <1>1, <1>2, FileMoves
  <1>7. f \in Opening <=> fpc[f] \in {"found", "resuming", "get"}
    BY DEF Opening, At
  <1>8. hpc # "absent"
    BY DEF OpenInv, OpenFinds, OpenStep, OpenReadsData, OpenGetsPower, OpenFails,
           OpenTakesReference, IoBegins, IoEnds, Flush, ReleaseStep,
           ReleasePower, ReleasePuts
  \* A step that counts nothing: the file stays outside the two sets or in them.
  <1>9. ASSUME UNCHANGED << hpc, portVars, coreVars, interface, io_mutex, receiving >>,
               errors' \in {"none", "pipe", "io"},
               place \in {"found", "resuming", "get"} => registered,
               \A p \in {{"open", "io", "flushed", "put"},
                          {"get", "open", "io", "flushed"}} :
                 place \in p <=> fpc[f] \in p
        PROVE  LifeInv'
    <2>1. Holders' = Holders /\ PowerUsers' = PowerUsers
      BY <1>1, <1>2, <1>9 DEF Holders, PowerUsers, At
    <2>2. Opening' # {} => registered
      BY <1>1, <1>2, <1>9 DEF OpenInv, Opening, At
    <2> QED BY <1>3, <1>8, <1>9, <2>1, <2>2
            DEF TypeOK, RefInv, HubHolds, MadeInv, OpenInv, PowerInv
  <1>10. CASE OpenFinds(f) \/ OpenReadsData(f) \/ OpenFails(f)
    <2>1. UNCHANGED << hpc, portVars, coreVars, interface, io_mutex, receiving, errors >>
      BY <1>10 DEF OpenFinds, OpenReadsData, OpenFails
    <2>2. /\ fpc[f] \in {"closed", "found", "resuming"}
          /\ place \in {"closed", "found", "resuming"}
      BY <1>1, <1>2, <1>10 DEF OpenFinds, OpenReadsData, OpenFails
    <2>3. place \in {"found", "resuming", "get"} => registered
      BY <1>1, <1>2, <1>7, <1>10 DEF OpenFinds, OpenReadsData, OpenFails, OpenInv
    <2> QED BY <1>9, <2>1, <2>2, <2>3 DEF TypeOK
  <1>11. CASE IoBegins(f) \/ IoEnds(f) \/ Flush(f)
    <2>1. /\ UNCHANGED << hpc, portVars, coreVars, interface, io_mutex, receiving >>
          /\ errors' \in {"none", "pipe", "io"}
      BY <1>11 DEF IoBegins, IoEnds, Flush, TypeOK
    <2>2. /\ fpc[f] \in {"open", "io", "flushed"}
          /\ place \in {"open", "io", "flushed"}
      BY <1>1, <1>2, <1>11 DEF IoBegins, IoEnds, Flush
    <2> QED BY <1>9, <2>1, <2>2
  <1>12. CASE OpenGetsPower(f)
    <2>1. fpc[f] = "resuming" /\ place = "get"
      BY <1>1, <1>2, <1>12 DEF OpenGetsPower
    <2>2. registered /\ hpc \in {"initialize", "bound", "resetting", "deregister"}
      BY <1>7, <2>1 DEF OpenInv
    <2>3. Cardinality(Holders)' = Cardinality(Holders)
      BY <1>4, <1>6, <2>1 DEF Holders
    <2>4. Cardinality(PowerUsers)' = Cardinality(PowerUsers) + 1
      BY <1>4, <1>6, <2>1 DEF PowerUsers
    <2>5. /\ pm_usage' = pm_usage + 1
          /\ suspended' = FALSE
          /\ UNCHANGED << hpc, portVars, intfdata, registered, interface, io_mutex,
                          receiving, errors >>
      BY <1>12 DEF OpenGetsPower
    <2>6. TypeOK'
      <3>1. pm_usage' \in Nat
        BY <2>5 DEF TypeOK
      <3>2. suspended' \in BOOLEAN
        BY <2>5, Zenon
      <3>3. fpc' \in [Files -> FilePlaces]
        BY <1>3
      <3> QED BY <2>5, <3>1, <3>2, <3>3 DEF TypeOK
    <2>7. RefInv'
      BY <2>2, <2>3, <2>5 DEF RefInv, HubHolds
    <2>8. OpenInv'
      BY <2>2, <2>5 DEF OpenInv
    <2>9. PowerInv' /\ MadeInv'
      BY <1>4, <2>2, <2>4, <2>5 DEF TypeOK, PowerInv, MadeInv
    <2> QED BY <2>6, <2>7, <2>8, <2>9
  <1>13. CASE OpenTakesReference(f)
    <2>1. fpc[f] = "get" /\ place = "open"
      BY <1>1, <1>2, <1>13 DEF OpenTakesReference
    <2>2. registered /\ hpc \in {"initialize", "bound", "resetting", "deregister"}
      BY <1>7, <2>1 DEF OpenInv
    <2>3. Cardinality(Holders)' = Cardinality(Holders) + 1
      BY <1>4, <1>6, <2>1 DEF Holders
    <2>4. PowerUsers' = PowerUsers
      BY <1>1, <1>2, <2>1 DEF PowerUsers, At
    <2>5. ~freed
      BY <1>4, <2>2 DEF RefInv, HubHolds
    <2> QED BY <1>3, <1>4, <1>13, <2>2, <2>3, <2>4, <2>5
            DEF OpenTakesReference, KrefGet, TypeOK, RefInv, HubHolds, MadeInv, OpenInv,
                PowerInv
  <1>14. CASE ReleasePower(f)
    <2>1. fpc[f] = "flushed" /\ place = "put"
      BY <1>1, <1>2, <1>14 DEF ReleasePower
    <2>2. Holders' = Holders /\ Opening' = Opening
      BY <1>1, <1>2, <2>1 DEF Holders, Opening, At
    <2>3. Cardinality(PowerUsers)' = Cardinality(PowerUsers) - 1
      BY <1>4, <1>6, <2>1 DEF PowerUsers
    <2>4. f \in PowerUsers /\ Cardinality(PowerUsers) >= 1
      BY <2>1, MemberCounts DEF PowerUsers, At
    <2> QED BY <1>3, <1>4, <1>8, <1>14, <2>2, <2>3, <2>4
            DEF ReleasePower, TypeOK, RefInv, HubHolds, MadeInv, OpenInv, PowerInv
  <1>15. CASE ReleasePuts(f)
    <2>1. fpc[f] = "put" /\ place = "closed"
      BY <1>1, <1>2, <1>15 DEF ReleasePuts
    <2>2. Opening' = Opening /\ PowerUsers' = PowerUsers
      BY <1>1, <1>2, <2>1 DEF Opening, PowerUsers, At
    <2>3. Cardinality(Holders)' = Cardinality(Holders) - 1
      BY <1>4, <1>6, <2>1 DEF Holders
    <2>4. Cardinality(Holders) >= 1
      BY <2>1, MemberCounts DEF Holders
    <2>5. kref >= 1 /\ ~freed /\ KrefPut
      BY <1>4, <1>15, <2>4 DEF ReleasePuts, RefInv
    <2>6. /\ kref' = kref - 1 /\ kref' \in Nat /\ made' = made
          /\ freed' \in BOOLEAN
          /\ freed' <=> (kref' = 0 /\ "urbs" \in made)
      BY <2>5, KrefPutFacts
    <2>7. Cardinality(Holders)' \in Nat
      BY <1>4, <2>3, <2>4
    <2>8. RefInv'
      <3>1. UNCHANGED hpc
        BY <1>15 DEF ReleasePuts
      <3>2. CASE HubHolds
        <4>1. kref = Cardinality(Holders) + 1
          BY <3>2 DEF RefInv
        <4> QED BY <1>4, <2>3, <2>4, <2>6, <3>1, <3>2, <4>1 DEF RefInv, HubHolds
      <3>3. CASE ~HubHolds
        <4>1. hpc \in {"oops", "timer", "gone"} /\ kref = Cardinality(Holders)
          BY <1>4, <1>8, <3>3 DEF RefInv, HubHolds
        <4> QED BY <1>4, <2>3, <2>6, <2>7, <3>1, <4>1 DEF RefInv, HubHolds, MadeInv
      <3> QED BY <3>2, <3>3
    <2> QED BY <1>3, <1>4, <1>8, <1>15, <2>2, <2>6, <2>8
            DEF ReleasePuts, TypeOK, MadeInv, OpenInv, PowerInv
  <1> QED BY <1>10, <1>11, <1>12, <1>13, <1>14, <1>15 DEF OpenStep, ReleaseStep

\* Every step of the lifecycle keeps the invariant.
LEMMA LifeStep == LifeInv /\ [Next]_vars => LifeInv'
  <1>1. ASSUME LifeInv, [Next]_vars PROVE LifeInv'
    <2>1. CASE UNCHANGED vars
      BY <1>1, <2>1 DEF vars, LifeInv, TypeOK, RefInv, HubHolds, MadeInv, OpenInv, PowerInv,
                        Holders, Opening, PowerUsers, At
    <2> QED BY <1>1, <2>1, HubSteps, FileSteps DEF Next
  <1> QED BY <1>1

\* The inductive invariant of the lifecycle.
THEOREM LifeCorrect == Spec => []LifeInv
  <1> QED BY LifeInit, LifeStep, PTL DEF Spec

-----------------------------------------------------------------------------
(* What it says                                                            *)

\* While a file holds a reference, or is about to take one, the port is there.
LEMMA FreedHasNoFiles == LifeInv => FileKeepsPort
  <1>1. ASSUME LifeInv, freed PROVE Holders = {} /\ At({"resuming", "get"}) = {}
    <2> USE <1>1 DEF LifeInv
    <2>1. Cardinality(Holders) \in Nat /\ IsFiniteSet(Holders)
      BY AtIsFinite DEF Holders
    <2>2. Cardinality(Holders) = 0 /\ ~HubHolds
      BY <2>1 DEF RefInv, TypeOK
    <2>3. Opening = {}
      BY <2>2 DEF OpenInv, HubHolds
    <2> QED BY <2>1, <2>2, <2>3, FS_EmptySet DEF Opening, At
  <1> QED BY <1>1 DEF FileKeepsPort

\* The first reference is the only one that no file holds.
LEMMA UnusedIsFreed == LifeInv => NoPortIsLeaked
  BY FS_EmptySet DEF LifeInv, RefInv, HubHolds, NoPortIsLeaked

\* The interface is in use as often as files use it.
LEMMA PowerIsThatOfUsers == LifeInv => PowerBalanced
  BY DEF LifeInv, PowerInv, PowerBalanced

\* Every variable keeps its type; in particular neither count goes below zero.
THEOREM TypesHold == Spec => []TypeOK
  <1>1. LifeInv => TypeOK
    BY DEF LifeInv
  <1> QED BY <1>1, LifeCorrect, PTL

\* No file loses its port, whenever disconnect comes between the steps of
\* synccom_open and synccom_release.
THEOREM FilesKeepPort == Spec => []FileKeepsPort
  <1> QED BY FreedHasNoFiles, LifeCorrect, PTL

\* A port that was bound is freed when disconnect has given its reference back and
\* the last file is closed, in either order (synccom_disconnect, synccom_release).
THEOREM PortsAreFreed == Spec => []NoPortIsLeaked
  <1> QED BY UnusedIsFreed, LifeCorrect, PTL

\* The power references balance.
THEOREM PowerBalances == Spec => []PowerBalanced
  <1> QED BY PowerIsThatOfUsers, LifeCorrect, PTL

-----------------------------------------------------------------------------
(* With the timer, the send tasklet and the work item                      *)

\* The read URBs are in flight within the time of the reference of probe.
ReceivingInv == receiving => hpc \in {"bound", "resetting"}

DeferredInv ==
  /\ due \subseteq {"timer", "tasklet", "work"}
  /\ running \subseteq {"tasklet", "work"}

TeardownInv == LifeInv /\ ReceivingInv /\ DeferredInv

-----------------------------------------------------------------------------
\* After the last reference is gone nobody is inside the driver, no URB is in
\* flight and initialize is over.
LEMMA FreedIsQuiet ==
  ASSUME TeardownInv, freed
  PROVE  /\ \A f \in Files : ~Inside(f)
         /\ ~receiving
         /\ ~InitializeStarts
  <1> USE DEF TeardownInv, LifeInv
  <1>1. Cardinality(Holders) \in Nat
    BY AtIsFinite DEF Holders
  <1>2. ~HubHolds
    BY <1>1 DEF RefInv, TypeOK
  <1>3. Holders = {}
    BY FreedHasNoFiles DEF FileKeepsPort
  <1>4. \A f \in Files : ~Inside(f)
    BY <1>3 DEF Holders, At, Inside
  <1>5. ~receiving /\ ~InitializeStarts
    BY <1>2 DEF HubHolds, ReceivingInv, InitializeStarts
  <1> QED BY <1>4, <1>5

\* A step of the lifecycle keeps the invariant.
LEMMA PortSteps ==
  ASSUME TeardownInv, PortStep
  PROVE  TeardownInv'
  <1> USE DEF TeardownInv
  <1>1. Next
    BY DEF PortStep
  <1>2. LifeInv'
    BY <1>1, LifeStep
  <1>3. ReceivingInv'
    <2> USE DEF ReceivingInv, KillUrbs
    <2>1. CASE Probe
      BY <2>1 DEF Probe, ProbeAllocates, ProbeSetsData, ProbeRegisters, ProbeFails,
                  InitializeLocks, InitializeUrbs, InitializeQueues, InitializeStarts
    <2>2. CASE Suspend \/ SystemSleeps \/ PreReset \/ PostReset \/ UrbError \/ Disconnect
      BY <2>2 DEF Suspend, SystemSleeps, PreReset, PostReset, UrbError, Disconnect
    <2>3. CASE DisconnectStep
      BY <2>3 DEF DisconnectStep, DeregisterMinor, ClearInterface, DisconnectPuts,
                  DisconnectEnds
    <2>4. ASSUME NEW f \in Files,
                 \/ OpenFinds(f) \/ OpenStep(f) \/ IoBegins(f) \/ IoEnds(f)
                 \/ Flush(f) \/ ReleaseStep(f)
          PROVE  ReceivingInv'
      <3>1. UNCHANGED << hpc, receiving >>
        BY <2>4 DEF OpenFinds, OpenStep, OpenReadsData, OpenGetsPower, OpenFails,
                    OpenTakesReference, IoBegins, IoEnds, Flush, ReleaseStep,
                    ReleasePower, ReleasePuts
      <3> QED BY <3>1
    <2> QED BY <1>1, <2>1, <2>2, <2>3, <2>4 DEF Next
  <1>4. DeferredInv'
    BY DEF PortStep, TimerAfterStep, DeferredInv
  <1> QED BY <1>2, <1>3, <1>4

\* The other steps leave the port alone.
LEMMA DeferredSteps ==
  ASSUME TeardownInv, UNCHANGED vars,
         due' \subseteq due \cup {"tasklet", "work"},
         running' \subseteq running \cup {"tasklet", "work"}
  PROVE  TeardownInv'
  <1> USE DEF TeardownInv
  <1>1. LifeInv'
    BY LifeStep
  <1>2. ReceivingInv' /\ DeferredInv'
    BY DEF vars, ReceivingInv, DeferredInv
  <1> QED BY <1>1, <1>2

\* The invariant holds when the port does not exist yet ...
LEMMA TeardownStarts == TeardownInit => TeardownInv
  BY LifeInit DEF TeardownInit, Init, TeardownInv, ReceivingInv, DeferredInv

\* ... and every step keeps it.
LEMMA TeardownKeeps == TeardownInv /\ [TeardownNext]_allVars => TeardownInv'
  <1> SUFFICES ASSUME TeardownInv, [TeardownNext]_allVars PROVE TeardownInv'
    OBVIOUS
  <1>1. CASE PortStep
    BY <1>1, PortSteps
  <1>2. ASSUME NEW f \in Files, WriteQueues(f) \/ PurgeDrops(f)
        PROVE  TeardownInv'
    BY <1>2, DeferredSteps DEF WriteQueues, PurgeDrops
  <1>3. CASE CallbackSchedules \/ TimerFires
    BY <1>3, DeferredSteps DEF CallbackSchedules, TimerFires
  <1>4. ASSUME NEW item \in {"tasklet", "work"}, Begins(item)
        PROVE  TeardownInv'
    BY <1>4, DeferredSteps DEF Begins
  <1>5. CASE TaskletRests \/ TaskletGoesOn \/ WorkEnds
    BY <1>5, DeferredSteps DEF TaskletRests, TaskletGoesOn, WorkEnds
  <1>6. CASE UNCHANGED allVars
    BY <1>6, DeferredSteps DEF allVars, deferredVars
  <1> QED BY <1>1, <1>2, <1>3, <1>4, <1>5, <1>6 DEF TeardownNext

\* On a freed port only what was on its way goes on: a step there schedules no
\* other item, and queues no frame.
LEMMA LeftoversOnly ==
  ASSUME TeardownInv, [TeardownNext]_allVars, freed
  PROVE  /\ due' \cup running' \subseteq
              UNION {Successors(item) : item \in due \cup running}
         /\ unsent' => unsent
  <1> DEFINE reach == UNION {Successors(item) : item \in due \cup running}
  <1> USE DEF TeardownInv
  <1>1. \A item \in due \cup running :
          /\ item \in {"timer", "tasklet", "work"}
          /\ item \in Successors(item)
          /\ item # "work" => "tasklet" \in Successors(item)
    BY DEF DeferredInv, Successors
  <1>2. due \cup running \subseteq reach
    BY <1>1
  <1>3. ASSUME NEW item \in due \cup running, item # "work"
        PROVE  "tasklet" \in reach
    BY <1>1, <1>3
  <1> HIDE DEF reach
  <1>4. due' \cup running' \subseteq reach /\ (unsent' => unsent)
    <2>1. CASE PortStep
      BY <1>2, <2>1, FreedIsQuiet DEF PortStep, TimerAfterStep
    <2>2. CASE CallbackSchedules \/ \E f \in Files : WriteQueues(f)
      BY <2>2, FreedIsQuiet DEF CallbackSchedules, WriteQueues
    <2>3. CASE \E f \in Files : PurgeDrops(f)
      BY <2>3, FreedIsQuiet DEF PurgeDrops
    <2>4. CASE TimerFires
      BY <1>2, <1>3, <2>4 DEF TimerFires
    <2>5. ASSUME NEW item \in {"tasklet", "work"}, Begins(item)
          PROVE  due' \cup running' \subseteq reach /\ (unsent' => unsent)
      BY <1>2, <2>5 DEF Begins
    <2>6. CASE TaskletRests \/ WorkEnds
      BY <1>2, <2>6 DEF TaskletRests, WorkEnds
    <2>7. CASE TaskletGoesOn
      BY <1>2, <1>3, <2>7 DEF TaskletGoesOn
    <2>8. CASE UNCHANGED allVars
      BY <1>2, <2>8 DEF allVars, deferredVars
    <2> QED BY <2>1, <2>2, <2>3, <2>4, <2>5, <2>6, <2>7, <2>8 DEF TeardownNext
  <1> QED BY <1>4 DEF reach

\* No file, URB callback or probe starts anything on a freed port, for any number
\* of files (synccom_disconnect gives its reference back before it deletes the
\* timer, and the tasklet and the work item hold none).
THEOREM LeftoversAlone == TeardownSpec => NothingStartsOnFreedPort
  <1>1. TeardownInv /\ [TeardownNext]_allVars =>
          [freed => /\ due' \cup running' \subseteq
                         UNION {Successors(item) : item \in due \cup running}
                    /\ unsent' => unsent]_allVars
    BY LeftoversOnly
  <1> QED BY <1>1, TeardownStarts, TeardownKeeps, PTL
          DEF TeardownSpec, NothingStartsOnFreedPort

\* They take no reference and give none back: with them running, too, every
\* variable has its type, no file loses its port, no port that was bound is leaked
\* and the power references balance.
THEOREM LifetimeThen ==
  TeardownSpec => [](TypeOK /\ FileKeepsPort /\ NoPortIsLeaked /\ PowerBalanced)
  <1>1. TeardownInv => TypeOK /\ FileKeepsPort /\ NoPortIsLeaked /\ PowerBalanced
    BY FreedHasNoFiles, UnusedIsFreed, PowerIsThatOfUsers DEF TeardownInv, LifeInv
  <1> QED BY <1>1, TeardownStarts, TeardownKeeps, PTL DEF TeardownSpec
=============================================================================
