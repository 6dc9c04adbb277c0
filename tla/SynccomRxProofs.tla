--------------------------- MODULE SynccomRxProofs ---------------------------
(***************************************************************************)
(* Invariants of the receive path, and the queue that it implements, for   *)
(* any number of readers, pollers and purgers, every frame size from two   *)
(* on, every URB, cap, fault, leftover and bound.                          *)
(***************************************************************************)
EXTENDS SynccomRx, SequenceLemmas

-----------------------------------------------------------------------------
(* Types                                                                   *)

CardTypes == dfifo \in Seq(Byte) /\ bcfifo \in Seq(SizeEntry) /\ arrived \in Nat

\* A callback runs for the first of the filled URBs.
UrbTypes ==
  /\ submitted \in Nat
  /\ completed \in Seq(Seq(Byte))
  /\ cpc \in {"idle", "test", "add", "notify"}
  /\ cb_usage \in Nat /\ cb_cap \in Nat
  /\ cpc # "idle" => completed # << >>

DataTypes == istream \in Seq(Byte) /\ queued_iframes \in Seq(SizeEntry)

WorkTypes ==
  /\ work_pending \in BOOLEAN
  /\ kpc \in {"idle", "lock", "fetch", "wake", "oops"}
  /\ remaining \in Nat /\ miscounted \in BOOLEAN

LockTypes ==
  /\ register_access_mutex \in {Worker, Nobody}
  /\ read_semaphore \in Readers \cup {Nobody}

\* A reader that is about to trim a frame has taken one, and its count leaves room
\* in an unsigned int, and in an int.
TakeTypes ==
  /\ rpc \in [Readers -> {"idle", "down", "check", "look", "asleep", "read",
                          "trim", "copy", "up"}]
  /\ rcount \in [Readers -> Nat]
  /\ taken \in [Readers -> SizeEntry \cup {NoFrame}]
  /\ take_length \in [Readers -> Nat]
  /\ out_length \in [Readers -> Nat]
  /\ copied \in [Readers -> Seq(Byte)]
  /\ since \in [Readers -> SUBSET {"purge", "bare"}]
  /\ \A r \in Readers : rpc[r] = "trim" => taken[r] # NoFrame
  /\ \A r \in Readers : 2 * (rcount[r] + 3) <= UintRange

WaitTypes ==
  /\ waiting \in [Waiters -> BOOLEAN]
  /\ woken \in [Waiters -> BOOLEAN]

PollTypes ==
  /\ poll_semaphore \in Nat
  /\ qpc \in [Pollers -> {"idle", "down", "test", "asleep"}]

PurgeTypes ==
  /\ ppc \in [Purgers -> {"idle", "reset", "queued", "stream"}]
  /\ running_bc_mutex \in Purgers \cup {Nobody}

SettingTypes ==
  /\ streaming \in BOOLEAN /\ append_status \in BOOLEAN
  /\ rx_multiple \in BOOLEAN
  /\ memory_cap \in Nat

GhostTypes == disturbed \in BOOLEAN /\ faults \in Nat

TypeInv ==
  /\ CardTypes /\ UrbTypes /\ DataTypes /\ WorkTypes /\ LockTypes
  /\ TakeTypes /\ WaitTypes /\ PollTypes /\ PurgeTypes /\ SettingTypes
  /\ GhostTypes

-----------------------------------------------------------------------------
(* Sequences                                                               *)

\* remove_data takes bytes from the front, and never more than there are.
LEMMA RemovedFacts ==
  ASSUME NEW S, NEW s \in Seq(S), NEW n \in Nat
  PROVE  /\ Removed(s, n) \in Seq(S)
         /\ Len(Removed(s, n)) <= Len(s)
         /\ Len(s) = 0 => Len(Removed(s, n)) = 0
  <1>1. Len(s) \in Nat /\ \A i \in 1..Len(s) : s[i] \in S
    BY ElementOfSeq, LenProperties
  <1> DEFINE from == Smaller(n, Len(s)) + 1
  <1>2. from \in 1..(Len(s) + 1)
    BY <1>1 DEF Smaller
  <1> HIDE DEF from
  <1>3. /\ SubSeq(s, from, Len(s)) \in Seq(S)
        /\ Len(SubSeq(s, from, Len(s))) =
             IF from <= Len(s) THEN Len(s) - from + 1 ELSE 0
    BY <1>1, <1>2, SubSeqProperties
  <1>4. Removed(s, n) = SubSeq(s, from, Len(s))
    BY DEF Removed, from
  <1> QED BY <1>1, <1>2, <1>3, <1>4

\* The bytes copied are those at the front.
LEMMA LeadingFacts ==
  ASSUME NEW S, NEW s \in Seq(S), NEW n \in Nat
  PROVE  Leading(s, n) \in Seq(S)
  <1>1. Len(s) \in Nat /\ \A i \in 1..Len(s) : s[i] \in S
    BY ElementOfSeq, LenProperties
  <1>2. Smaller(n, Len(s)) \in 0..Len(s)
    BY <1>1 DEF Smaller
  <1>3. \A i \in 1..Smaller(n, Len(s)) : s[i] \in S
    BY <1>1, <1>2
  <1>4. SubSeq(s, 1, Smaller(n, Len(s))) \in Seq(S)
    BY <1>2, <1>3, SubSeqProperties
  <1> QED BY <1>4 DEF Leading

-----------------------------------------------------------------------------
(* What the callback and the work item leave alone                         *)

\* The callback changes neither sizes nor what readers, pollers and purges have.
LEMMA CallbackLeaves ==
  ASSUME CallbackStep
  PROVE  /\ UNCHANGED << cardVars, queued_iframes, register_access_mutex, kpc, remaining,
                         miscounted, read_semaphore, rpc, takeVars, waiting, pollVars,
                         purgeVars, settingVars >>
         /\ disturbed' \/ UNCHANGED disturbed
  BY DEF CallbackStep, CallbackReadUsage, CallbackTakesAll, CallbackTest, CallbackDiscard,
         CallbackAdd, CallbackAddFails, CallbackNotify, dataVars, workVars, readVars,
         ghostVars

\* The work item changes neither bytes nor what readers, pollers and purges have.
LEMMA WorkerLeaves ==
  ASSUME WorkerStep
  PROVE  /\ UNCHANGED << dfifo, arrived, urbVars, istream, read_semaphore, rpc, takeVars,
                         waiting, pollVars, purgeVars, settingVars >>
         /\ disturbed' \/ UNCHANGED disturbed
  BY DEF WorkerStep, WorkerBegins, WorkerCounts, WorkerMiscounts, WorkerTakesCount,
         WorkerFetches, WorkerFetchesLeftover, WorkerOops, WorkerUnlocks, WorkerWakes,
         cardVars, dataVars, readVars, ghostVars

-----------------------------------------------------------------------------
(* Every variable keeps its type                                           *)

\* A step keeps the types of what it leaves alone.
LEMMA Untouched ==
  /\ CardTypes /\ UNCHANGED cardVars => CardTypes'
  /\ UrbTypes /\ UNCHANGED urbVars => UrbTypes'
  /\ DataTypes /\ UNCHANGED dataVars => DataTypes'
  /\ WorkTypes /\ UNCHANGED workVars => WorkTypes'
  /\ LockTypes /\ UNCHANGED << register_access_mutex, read_semaphore >> => LockTypes'
  /\ TakeTypes /\ UNCHANGED << rpc, takeVars >> => TakeTypes'
  /\ WaitTypes /\ UNCHANGED << waiting, woken >> => WaitTypes'
  /\ PollTypes /\ UNCHANGED pollVars => PollTypes'
  /\ PurgeTypes /\ UNCHANGED purgeVars => PurgeTypes'
  /\ SettingTypes /\ UNCHANGED settingVars => SettingTypes'
  /\ GhostTypes /\ UNCHANGED ghostVars => GhostTypes'
  <1>1. CardTypes /\ UNCHANGED cardVars => CardTypes'
    BY DEF CardTypes, cardVars
  <1>2. UrbTypes /\ UNCHANGED urbVars => UrbTypes'
    BY DEF UrbTypes, urbVars
  <1>3. DataTypes /\ UNCHANGED dataVars => DataTypes'
    BY DEF DataTypes, dataVars
  <1>4. WorkTypes /\ UNCHANGED workVars => WorkTypes'
    BY DEF WorkTypes, workVars
  <1>5. LockTypes /\ UNCHANGED << register_access_mutex, read_semaphore >> => LockTypes'
    BY DEF LockTypes
  <1>6. TakeTypes /\ UNCHANGED << rpc, takeVars >> => TakeTypes'
    BY DEF TakeTypes, takeVars
  <1>7. WaitTypes /\ UNCHANGED << waiting, woken >> => WaitTypes'
    BY DEF WaitTypes
  <1>8. PollTypes /\ UNCHANGED pollVars => PollTypes'
    BY DEF PollTypes, pollVars
  <1>9. PurgeTypes /\ UNCHANGED purgeVars => PurgeTypes'
    BY DEF PurgeTypes, purgeVars
  <1>10. SettingTypes /\ UNCHANGED settingVars => SettingTypes'
    BY DEF SettingTypes, settingVars
  <1>11. GhostTypes /\ UNCHANGED ghostVars => GhostTypes'
    BY DEF GhostTypes, ghostVars
  <1> QED BY <1>1, <1>2, <1>3, <1>4, <1>5, <1>6, <1>7, <1>8, <1>9, <1>10, <1>11

\* The first state has the types.
LEMMA TypeInit == Init => TypeInv
  <1> SUFFICES ASSUME Init PROVE TypeInv
    OBVIOUS
  <1> USE DEF Init
  <1>1. \A S : << >> \in Seq(S)
    BY EmptySeq
  <1>2. CardTypes /\ DataTypes
    BY <1>1 DEF CardTypes, DataTypes
  <1>3. UrbTypes
    BY <1>1, UrbsAssumption DEF UrbTypes
  <1>4. WorkTypes /\ LockTypes /\ GhostTypes
    BY DEF WorkTypes, LockTypes, GhostTypes
  <1>5. TakeTypes
    BY <1>1, CountsAssumption DEF TakeTypes
  <1>6. WaitTypes /\ PollTypes /\ PurgeTypes
    BY DEF WaitTypes, PollTypes, PurgeTypes
  <1>7. SettingTypes
    BY ModesAssumption, CapsAssumption DEF SettingTypes
  <1> QED BY <1>2, <1>3, <1>4, <1>5, <1>6, <1>7 DEF TypeInv

\* The card, the host controller and the settings.
LEMMA TypeOutside ==
  ASSUME TypeInv,
         \/ \E n \in FrameSizes : LineReceives(n)
         \/ FillUrb \/ UrbFails
         \/ SetAppendStatus \/ SetRxMultiple
         \/ \E c \in Caps : SetMemoryCap(c)
  PROVE  TypeInv'
  <1> USE DEF TypeInv, readVars
  <1>1. ASSUME NEW n \in FrameSizes, LineReceives(n)
        PROVE  TypeInv'
    <2> DEFINE entry == [number |-> arrived + 1, size |-> n]
    <2>1. entry \in SizeEntry
      BY SizesAssumption DEF CardTypes, SizeEntry
    <2>2. FrameBytes(entry) \in Seq(Byte)
      <3>1. entry.size \in Nat /\ entry.number \in Nat
        BY <2>1 DEF SizeEntry
      <3>2. \A i \in 1..entry.size : [frame |-> entry.number, at |-> i] \in Byte
        BY <3>1 DEF Byte
      <3> HIDE DEF entry
      <3> QED BY <3>1, <3>2, IsASeq DEF FrameBytes
    <2>3. CardTypes'
      <3> HIDE DEF entry
      <3>1. /\ arrived' = arrived + 1
            /\ dfifo' = dfifo \o FrameBytes(entry)
            /\ bcfifo' = IF streaming THEN bcfifo ELSE Append(bcfifo, entry)
        BY <1>1 DEF LineReceives, entry
      <3>2. dfifo \o FrameBytes(entry) \in Seq(Byte)
        BY <2>2, ConcatProperties DEF CardTypes
      <3>3. Append(bcfifo, entry) \in Seq(SizeEntry)
        BY <2>1, AppendProperties DEF CardTypes
      <3> QED BY <3>1, <3>2, <3>3 DEF CardTypes
    <2> QED BY <1>1, <2>3, Untouched DEF LineReceives
  <1>2. CASE FillUrb
    <2>1. Leading(dfifo, UrbPayload) \in Seq(Byte)
      BY UrbsAssumption, LeadingFacts DEF CardTypes
    <2>2. Removed(dfifo, UrbPayload) \in Seq(Byte)
      BY UrbsAssumption, RemovedFacts DEF CardTypes
    <2>3. CardTypes'
      BY <1>2, <2>2 DEF FillUrb, CardTypes
    <2>4. UrbTypes'
      <3>1. completed' = Append(completed, Leading(dfifo, UrbPayload))
        BY <1>2 DEF FillUrb
      <3>2. completed \in Seq(Seq(Byte))
        BY DEF UrbTypes
      <3> DEFINE new == Leading(dfifo, UrbPayload)
      <3> HIDE DEF new
      <3>3. Append(completed, new) \in Seq(Seq(Byte)) /\ Append(completed, new) # << >>
        BY <2>1, <3>2, AppendProperties DEF new
      <3> QED BY <1>2, <3>1, <3>3 DEF FillUrb, UrbTypes, new
    <2> QED BY <1>2, <2>3, <2>4, Untouched DEF FillUrb
  <1>3. CASE UrbFails
    <2>1. UrbTypes' /\ GhostTypes'
      BY <1>3 DEF UrbFails, Fault, UrbTypes, GhostTypes
    <2> QED BY <1>3, <2>1, Untouched DEF UrbFails
  <1>4. CASE SetAppendStatus
    <2>1. SettingTypes' /\ GhostTypes'
      BY <1>4 DEF SetAppendStatus, SettingTypes, GhostTypes
    <2> QED BY <1>4, <2>1, Untouched DEF SetAppendStatus
  <1>5. CASE SetRxMultiple
    <2>1. SettingTypes'
      BY <1>5 DEF SetRxMultiple, SettingTypes
    <2> QED BY <1>5, <2>1, Untouched DEF SetRxMultiple
  <1>6. ASSUME NEW c \in Caps, SetMemoryCap(c)
        PROVE  TypeInv'
    <2>1. SettingTypes'
      BY <1>6, CapsAssumption DEF SetMemoryCap, SettingTypes
    <2> QED BY <1>6, <2>1, Untouched DEF SetMemoryCap
  <1> QED BY <1>1, <1>2, <1>3, <1>4, <1>5, <1>6

\* The callback.
LEMMA TypeCallback ==
  ASSUME TypeInv, CallbackStep
  PROVE  TypeInv'
  <1> USE DEF TypeInv, readVars
  <1>1. CASE CallbackReadUsage
    <2>1. UrbTypes'
      BY <1>1, LenProperties DEF CallbackReadUsage, UrbTypes, DataTypes
    <2> QED BY <1>1, <2>1, Untouched DEF CallbackReadUsage
  <1>8. CASE CallbackTakesAll
    <2> DEFINE longer == Append(Head(completed), Padding)
               rest == Tail(completed)
    <2>1. completed \in Seq(Seq(Byte)) /\ completed # << >>
      BY <1>8 DEF CallbackTakesAll, UrbTypes
    <2>2. Padding \in Byte
      BY DEF Padding, Byte
    <2>3. longer \in Seq(Byte) /\ rest \in Seq(Seq(Byte))
      BY <2>1, <2>2, HeadTailProperties, AppendProperties
    <2>4. completed' = << longer >> \o rest
      BY <1>8 DEF CallbackTakesAll
    <2> HIDE DEF longer, rest
    <2> DEFINE one == << longer >>
    <2>5. one \in Seq(Seq(Byte)) /\ Len(one) = 1
      BY <2>3
    <2> HIDE DEF one
    <2>6. one \o rest \in Seq(Seq(Byte)) /\ Len(one \o rest) = 1 + Len(rest)
      <3> DEFINE B == Seq(Byte)
      <3>1. one \in Seq(B) /\ rest \in Seq(B)
        BY <2>3, <2>5
      <3> HIDE DEF B
      <3>2. one \o rest \in Seq(B) /\ Len(one \o rest) = Len(one) + Len(rest)
        BY <3>1, ConcatProperties
      <3> QED BY <2>5, <3>2 DEF B
    <2>7. Len(rest) \in Nat
      BY <2>3, LenProperties
    <2>8. completed' \in Seq(Seq(Byte)) /\ completed' # << >>
      BY <2>4, <2>6, <2>7, EmptySeq DEF one
    <2>9. UrbTypes' /\ GhostTypes'
      BY <1>8, <2>8, LenProperties
         DEF CallbackTakesAll, Fault, UrbTypes, DataTypes, GhostTypes
    <2> QED BY <1>8, <2>9, Untouched DEF CallbackTakesAll
  <1>2. CASE CallbackTest
    <2>1. UrbTypes'
      BY <1>2 DEF CallbackTest, UrbTypes, SettingTypes
    <2> QED BY <1>2, <2>1, Untouched DEF CallbackTest
  <1>3. ASSUME Resubmit, cpc # "idle" PROVE UrbTypes'
    BY <1>3, HeadTailProperties DEF Resubmit, UrbTypes
  <1>4. CASE CallbackDiscard
    <2>1. UrbTypes' /\ GhostTypes'
      BY <1>3, <1>4 DEF CallbackDiscard, GhostTypes
    <2> QED BY <1>4, <2>1, Untouched DEF CallbackDiscard
  <1>5. CASE CallbackAdd
    <2>1. UrbTypes'
      BY <1>5 DEF CallbackAdd, UrbTypes
    <2>2. Head(completed) \in Seq(Byte)
      BY <1>5, HeadTailProperties DEF CallbackAdd, UrbTypes
    <2>3. DataTypes'
      BY <1>5, <2>2, ConcatProperties DEF CallbackAdd, DataTypes
    <2> QED BY <1>5, <2>1, <2>3, Untouched DEF CallbackAdd
  <1>6. CASE CallbackAddFails
    <2>1. UrbTypes' /\ GhostTypes'
      BY <1>6 DEF CallbackAddFails, Fault, UrbTypes, GhostTypes
    <2> QED BY <1>6, <2>1, Untouched DEF CallbackAddFails
  <1>7. CASE CallbackNotify
    <2>1. UrbTypes'
      BY <1>3, <1>7 DEF CallbackNotify
    <2>2. WorkTypes'
      BY <1>7 DEF CallbackNotify, ScheduleWork, WorkTypes
    <2>3. WaitTypes'
      BY <1>7 DEF CallbackNotify, WakeInputQueue, WaitTypes
    <2> QED BY <1>7, <2>1, <2>2, <2>3, Untouched DEF CallbackNotify
  <1> QED BY <1>1, <1>2, <1>4, <1>5, <1>6, <1>7, <1>8 DEF CallbackStep

\* The work item.
LEMMA TypeWorker ==
  ASSUME TypeInv, WorkerStep
  PROVE  TypeInv'
  <1> USE DEF TypeInv, readVars
  <1>1. CASE WorkerBegins
    <2>1. WorkTypes'
      BY <1>1 DEF WorkerBegins, WorkTypes
    <2> QED BY <1>1, <2>1, Untouched DEF WorkerBegins
  <1>2. CASE WorkerCounts
    <2>1. Len(bcfifo) \in Nat
      BY LenProperties DEF CardTypes
    <2>2. WorkTypes' /\ LockTypes'
      BY <1>2, <2>1 DEF WorkerCounts, WorkerTakesCount, WorkTypes, LockTypes
    <2> QED BY <1>2, <2>2, Untouched DEF WorkerCounts, WorkerTakesCount
  <1>6. CASE WorkerMiscounts
    <2>1. PICK n \in LeftoverCounts : WorkerTakesCount(n)
      BY <1>6 DEF WorkerMiscounts
    <2>2. n \in Nat
      BY LeftoversAssumption
    <2>3. WorkTypes' /\ LockTypes' /\ GhostTypes'
      BY <1>6, <2>1, <2>2
         DEF WorkerMiscounts, WorkerTakesCount, Fault, WorkTypes, LockTypes, GhostTypes
    <2> QED BY <2>1, <2>3, Untouched DEF WorkerTakesCount
  <1>3. CASE WorkerFetches
    <2>1. Head(bcfifo) \in SizeEntry /\ Tail(bcfifo) \in Seq(SizeEntry)
      BY <1>3, HeadTailProperties DEF WorkerFetches, CardTypes
    <2>2. CardTypes'
      BY <1>3, <2>1 DEF WorkerFetches, CardTypes
    <2>3. DataTypes'
      BY <1>3, <2>1, AppendProperties DEF WorkerFetches, DataTypes
    <2>4. WorkTypes'
      BY <1>3 DEF WorkerFetches, MoreToFetch, WorkTypes
    <2> QED BY <1>3, <2>2, <2>3, <2>4, Untouched DEF WorkerFetches
  <1>7. Removed(bcfifo, 1) \in Seq(SizeEntry)
    BY RemovedFacts DEF CardTypes
  <1>8. CASE WorkerFetchesLeftover
    <2>1. PICK n \in LeftoverSizes :
            queued_iframes' = Append(queued_iframes, [number |-> 0, size |-> n])
      BY <1>8 DEF WorkerFetchesLeftover
    <2>2. [number |-> 0, size |-> n] \in SizeEntry
      BY LeftoversAssumption DEF SizeEntry
    <2> DEFINE entry == [number |-> 0, size |-> n]
    <2> HIDE DEF entry
    <2>3. Append(queued_iframes, entry) \in Seq(SizeEntry)
      BY <2>2, AppendProperties DEF DataTypes, entry
    <2>4. DataTypes'
      BY <1>8, <2>1, <2>3 DEF WorkerFetchesLeftover, DataTypes, entry
    <2>5. CardTypes' /\ WorkTypes' /\ GhostTypes'
      BY <1>7, <1>8 DEF WorkerFetchesLeftover, MoreToFetch, Fault, CardTypes, WorkTypes,
                        GhostTypes
    <2> QED BY <1>8, <2>4, <2>5, Untouched DEF WorkerFetchesLeftover
  <1>9. CASE WorkerOops
    <2>1. CardTypes' /\ WorkTypes' /\ GhostTypes'
      BY <1>7, <1>9 DEF WorkerOops, Fault, CardTypes, WorkTypes, GhostTypes
    <2> QED BY <1>9, <2>1, Untouched DEF WorkerOops
  <1>4. CASE WorkerUnlocks
    <2>1. WorkTypes' /\ LockTypes'
      BY <1>4 DEF WorkerUnlocks, WorkTypes, LockTypes
    <2> QED BY <1>4, <2>1, Untouched DEF WorkerUnlocks
  <1>5. CASE WorkerWakes
    <2>1. WorkTypes'
      BY <1>5 DEF WorkerWakes, WorkTypes
    <2>2. WaitTypes'
      BY <1>5 DEF WorkerWakes, WakeInputQueue, WaitTypes
    <2> QED BY <1>5, <2>1, <2>2, Untouched DEF WorkerWakes
  <1> QED BY <1>1, <1>2, <1>3, <1>4, <1>5, <1>6, <1>8, <1>9 DEF WorkerStep

\* What a reader takes, copies and returns.
LEMMA TypeReader ==
  ASSUME TypeInv, NEW r \in Readers,
         \/ \E n \in ReadCounts : Read(r, n)
         \/ ReaderStep(r)
         \/ Interrupt(r)
  PROVE  TypeInv'
  <1> USE DEF TypeInv, readVars
  <1>1. ASSUME NEW n \in ReadCounts, Read(r, n)
        PROVE  TypeInv'
    <2>1. n \in Nat /\ 2 * (n + 3) <= UintRange
      BY CountsAssumption
    <2>2. TakeTypes'
      BY <1>1, <2>1 DEF Read, TakeTypes
    <2> QED BY <1>1, <2>2, Untouched DEF Read, takeVars
  <1>2. CASE DownReadSemaphore(r)
    <2>1. TakeTypes' /\ LockTypes'
      BY <1>2 DEF DownReadSemaphore, TakeTypes, takeVars, LockTypes
    <2> QED BY <1>2, <2>1, Untouched DEF DownReadSemaphore
  <1>3. CASE CheckIncoming(r)
    <2>1. TakeTypes'
      BY <1>3 DEF CheckIncoming, TakeTypes, takeVars
    <2> QED BY <1>3, <2>1, Untouched DEF CheckIncoming
  <1>4. CASE CheckBlock(r)
    <2>1. TakeTypes' /\ LockTypes'
      BY <1>4 DEF CheckBlock, TakeTypes, takeVars, LockTypes
    <2>2. WaitTypes'
      BY <1>4 DEF CheckBlock, WaitTypes
    <2> QED BY <1>4, <2>1, <2>2, Untouched DEF CheckBlock
  <1>5. ASSUME Return(r) PROVE TakeTypes' /\ WaitTypes'
    <2>1. << >> \in Seq(Byte) /\ 2 * (0 + 3) <= UintRange
      BY EmptySeq, CountsAssumption
    <2>2. TakeTypes'
      BY <1>5, <2>1 DEF Return, TakeTypes
    <2>3. WaitTypes'
      BY <1>5 DEF Return, WaitTypes
    <2> QED BY <2>2, <2>3
  <1>6. CASE CheckAgain(r) \/ UpReadSemaphore(r)
    <2>1. Return(r) /\ read_semaphore' = Nobody
      BY <1>6 DEF CheckAgain, UpReadSemaphore
    <2>2. /\ UNCHANGED << cardVars, urbVars, dataVars, register_access_mutex, workVars >>
          /\ UNCHANGED << pollVars, purgeVars, settingVars, ghostVars >>
      BY <1>6 DEF CheckAgain, UpReadSemaphore
    <2>3. LockTypes'
      BY <2>1, <2>2 DEF LockTypes
    <2> QED BY <1>5, <2>1, <2>2, <2>3, Untouched
  <1>7. CASE LookIncoming(r)
    <2>1. TakeTypes'
      BY <1>7 DEF LookIncoming, TakeTypes, takeVars
    <2>2. WaitTypes'
      <3>1. HasIncomingData \in BOOLEAN
        BY DEF HasIncomingData
      <3> QED BY <1>7, <3>1 DEF LookIncoming, WaitTypes
    <2> QED BY <1>7, <2>1, <2>2, Untouched DEF LookIncoming
  <1>8. CASE LookAgain(r)
    <2>1. TakeTypes'
      BY <1>8 DEF LookAgain, TakeTypes, takeVars
    <2>2. WaitTypes'
      BY <1>8 DEF LookAgain, WaitTypes
    <2> QED BY <1>8, <2>1, <2>2, Untouched DEF LookAgain
  <1>9. CASE Interrupt(r)
    BY <1>5, <1>9, Untouched DEF Interrupt
  <1>10. rcount[r] \in Nat /\ take_length[r] \in Nat /\ Len(istream) \in Nat
    BY LenProperties DEF TakeTypes, DataTypes
  <1>11. StatusLength \in {0, 2}
    BY DEF StatusLength
  <1>12. CASE StreamRead(r)
    <2>1. Leading(istream, rcount[r]) \in Seq(Byte)
      BY <1>10, LeadingFacts DEF DataTypes
    <2>2. Removed(istream, rcount[r]) \in Seq(Byte)
      BY <1>10, RemovedFacts DEF DataTypes
    <2>3. Smaller(rcount[r], Len(istream)) \in Nat
      BY <1>10 DEF Smaller
    <2>4. TakeTypes'
      BY <1>12, <2>1, <2>3 DEF StreamRead, TakeTypes
    <2>5. DataTypes'
      BY <1>12, <2>2 DEF StreamRead, DataTypes
    <2> QED BY <1>12, <2>4, <2>5, Untouched DEF StreamRead
  <1>13. CASE StreamCopyFails(r)
    <2>1. Smaller(rcount[r], Len(istream)) \in Nat
      BY <1>10 DEF Smaller
    <2>2. TakeTypes' /\ GhostTypes'
      BY <1>13, <2>1 DEF StreamCopyFails, Fault, TakeTypes, GhostTypes
    <2> QED BY <1>13, <2>2, Untouched DEF StreamCopyFails
  <1>14. CASE TakeSize(r)
    <2>1. Head(queued_iframes) \in SizeEntry /\ Tail(queued_iframes) \in Seq(SizeEntry)
      BY <1>14, HeadTailProperties DEF TakeSize, CanTake, DataTypes
    <2>2. NoFrame \notin SizeEntry
      BY ActorsAssumption DEF SizeEntry
    <2>3. TakeTypes'
      BY <1>14, <2>1, <2>2 DEF TakeSize, TakeTypes
    <2>4. DataTypes'
      BY <1>14, <2>1 DEF TakeSize, DataTypes
    <2> QED BY <1>14, <2>3, <2>4, Untouched DEF TakeSize
  <1>15. CASE TakeNothing(r)
    <2>1. TakeTypes'
      BY <1>15 DEF TakeNothing, TakeTypes, takeVars
    <2> QED BY <1>15, <2>1, Untouched DEF TakeNothing
  <1>16. CASE TrimStatus(r)
    <2>1. taken[r] \in SizeEntry
      BY <1>16 DEF TrimStatus, TakeTypes
    <2>2. Unsigned(taken[r].size - StatusLength) \in Nat
      <3>1. taken[r].size \in Nat
        BY <2>1 DEF SizeEntry
      <3> QED BY <1>11, <3>1, CountsAssumption DEF Unsigned
    <2>3. TakeTypes'
      BY <1>16, <2>2 DEF TrimStatus, TakeTypes
    <2> QED BY <1>16, <2>3, Untouched DEF TrimStatus
  <1>17. ASSUME NextFrame(r), copied' \in [Readers -> Seq(Byte)]
         PROVE  TakeTypes'
    <2>1. out_length[r] + take_length[r] \in Nat
      BY <1>10 DEF TakeTypes
    <2>2. Unsigned(out_length[r] + take_length[r]) \in Nat
      BY <2>1, CountsAssumption DEF Unsigned
    <2> QED BY <1>17, <2>2 DEF NextFrame, TakeTypes
  <1>18. CASE CopyFrame(r)
    <2>1. Leading(istream, take_length[r]) \in Seq(Byte)
      BY <1>10, LeadingFacts DEF DataTypes
    <2>2. Removed(istream, take_length[r]) \in Seq(Byte)
      BY <1>10, RemovedFacts DEF DataTypes
    <2>3. Removed(Removed(istream, take_length[r]), StatusLength) \in Seq(Byte)
      BY <1>11, <2>2, RemovedFacts
    <2>4. copied[r] \o Leading(istream, take_length[r]) \in Seq(Byte)
      BY <2>1, ConcatProperties DEF TakeTypes
    <2>5. copied' \in [Readers -> Seq(Byte)]
      BY <1>18, <2>4 DEF CopyFrame, TakeTypes
    <2>6. DataTypes'
      BY <1>18, <2>3 DEF CopyFrame, NextFrame, DataTypes
    <2> QED BY <1>17, <1>18, <2>5, <2>6, Untouched DEF CopyFrame, NextFrame
  <1>19. CASE CopyFails(r)
    <2>1. Removed(istream, StatusLength) \in Seq(Byte)
      BY <1>11, RemovedFacts DEF DataTypes
    <2>2. copied' \in [Readers -> Seq(Byte)]
      BY <1>19 DEF CopyFails, TakeTypes
    <2>3. DataTypes' /\ GhostTypes'
      BY <1>19, <2>1 DEF CopyFails, NextFrame, Fault, DataTypes, GhostTypes
    <2> QED BY <1>17, <1>19, <2>2, <2>3, Untouched DEF CopyFails, NextFrame
  <1> QED BY <1>1, <1>2, <1>3, <1>4, <1>6, <1>7, <1>8, <1>9, <1>12, <1>13, <1>14,
             <1>15, <1>16, <1>18, <1>19 DEF ReaderStep

\* Pollers and purges.
LEMMA TypePoller ==
  ASSUME TypeInv, NEW q \in Pollers, Poll(q) \/ PollerStep(q) \/ PollEnds(q)
  PROVE  TypeInv'
  <1> USE DEF TypeInv, readVars
  <1>1. q \in Waiters
    BY DEF Waiters
  <1>2. HasIncomingData \in BOOLEAN
    BY DEF HasIncomingData
  <1>3. WaitTypes'
    BY <1>1, <1>2 DEF WaitTypes, Poll, PollerStep, PollDown, PollDownInterrupted,
                      PollWait, PollTest, PollAgain, PollEnds
  <1>4. PollTypes'
    BY DEF PollTypes, Poll, PollerStep, PollDown, PollDownInterrupted,
           PollWait, PollTest, PollAgain, PollEnds
  <1>5. GhostTypes'
    BY DEF GhostTypes, ghostVars, Fault, Poll, PollerStep, PollDown,
           PollDownInterrupted, PollWait, PollTest, PollAgain, PollEnds
  <1>6. UNCHANGED << cardVars, urbVars, dataVars, register_access_mutex, workVars,
                     read_semaphore, rpc, takeVars, purgeVars, settingVars >>
    BY DEF Poll, PollerStep, PollDown, PollDownInterrupted, PollWait, PollTest,
           PollAgain, PollEnds
  <1> QED BY <1>3, <1>4, <1>5, <1>6, Untouched

\* Purges.
LEMMA TypePurge ==
  ASSUME TypeInv, NEW p \in Purgers, Purge(p) \/ PurgeStep(p)
  PROVE  TypeInv'
  <1> USE DEF TypeInv, readVars
  <1>1. \A S : << >> \in Seq(S)
    BY EmptySeq
  <1>2. CASE Purge(p)
    <2>1. PurgeTypes' /\ GhostTypes'
      BY <1>2 DEF Purge, PurgeTypes, GhostTypes
    <2> QED BY <1>2, <2>1, Untouched DEF Purge
  <1>3. CASE ExecuteRRES(p)
    <2>1. CardTypes' /\ PurgeTypes'
      BY <1>1, <1>3 DEF ExecuteRRES, CardTypes, PurgeTypes
    <2> QED BY <1>3, <2>1, Untouched DEF ExecuteRRES
  <1>4. CASE ClearQueued(p)
    <2>1. DataTypes' /\ PurgeTypes' /\ TakeTypes'
      BY <1>1, <1>4 DEF ClearQueued, PurgedWhileReading, DataTypes, PurgeTypes, TakeTypes
    <2> QED BY <1>4, <2>1, Untouched DEF ClearQueued
  <1>5. CASE ClearStream(p)
    <2>1. DataTypes' /\ PurgeTypes' /\ TakeTypes'
      BY <1>1, <1>5 DEF ClearStream, PurgedWhileReading, DataTypes, PurgeTypes, TakeTypes
    <2> QED BY <1>5, <2>1, Untouched DEF ClearStream
  <1> QED BY <1>2, <1>3, <1>4, <1>5 DEF PurgeStep

\* Every step keeps the types.
LEMMA TypeStep == TypeInv /\ [Next]_vars => TypeInv'
  <1> SUFFICES ASSUME TypeInv, [Next]_vars PROVE TypeInv'
    OBVIOUS
  <1>1. CASE UNCHANGED vars
    BY <1>1, Untouched DEF vars, readVars, TypeInv
  <1> QED BY <1>1, TypeOutside, TypeCallback, TypeWorker, TypeReader, TypePoller,
             TypePurge DEF Next

\* Every variable has its type, a running callback has an URB, and a count leaves
\* room in an unsigned int.
THEOREM TypeCorrect == Spec => []TypeInv
  <1> QED BY TypeInit, TypeStep, PTL DEF Spec

\* The type invariant of the receive path.
THEOREM TypesHold == Spec => []TypeOK
  <1>1. TypeInv => TypeOK
    BY DEF TypeInv, CardTypes, UrbTypes, DataTypes, WorkTypes, LockTypes, TakeTypes,
                WaitTypes, PollTypes, PurgeTypes, SettingTypes, GhostTypes, TypeOK
  <1> QED BY <1>1, TypeCorrect, PTL

-----------------------------------------------------------------------------
(* The work item and the card's sizes                                      *)

\* From its count to its last fetch the work item holds register_access_mutex,
\* and there are at least as many sizes as it has to fetch, if it could count them.
FetchInv ==
  kpc = "fetch" => /\ register_access_mutex = Worker
                   /\ miscounted \/ remaining <= Len(bcfifo)

\* Only the line, the work item and a purge change what FetchInv is about.
LEMMA FetchElsewhere ==
  ASSUME FetchInv, UNCHANGED << bcfifo, register_access_mutex, workVars >>
  PROVE  FetchInv'
  BY DEF FetchInv, workVars

\* No step takes sizes from under the work item.
LEMMA FetchStep == TypeInv /\ FetchInv /\ [Next]_vars => FetchInv'
  <1> SUFFICES ASSUME TypeInv, FetchInv, [Next]_vars PROVE FetchInv'
    OBVIOUS
  <1> USE DEF TypeInv, CardTypes, WorkTypes, FetchInv
  <1>1. ASSUME NEW n \in FrameSizes, LineReceives(n)
        PROVE  FetchInv'
    <2>1. UNCHANGED << register_access_mutex, kpc, remaining, miscounted >>
      BY <1>1 DEF LineReceives, workVars
    <2>2. bcfifo' = bcfifo \/ \E entry : bcfifo' = Append(bcfifo, entry)
      BY <1>1 DEF LineReceives
    <2>3. Len(bcfifo) \in Nat /\ Len(bcfifo') >= Len(bcfifo)
      <3>1. Len(bcfifo) \in Nat
        BY LenProperties
      <3>2. ASSUME NEW entry, bcfifo' = Append(bcfifo, entry)
            PROVE  Len(bcfifo') = Len(bcfifo) + 1
        BY <3>2
      <3> QED BY <2>2, <3>1, <3>2
    <2> QED BY <2>1, <2>3
  <1>2. CASE WorkerStep
    <2>1. CASE WorkerBegins
      BY <2>1 DEF WorkerBegins
    <2>2. CASE WorkerCounts
      <3>1. Len(bcfifo) \in Nat
        BY LenProperties
      <3> QED BY <2>2, <3>1 DEF WorkerCounts, WorkerTakesCount, cardVars
    <2>3. CASE WorkerFetches
      <3>1. Len(bcfifo) \in Nat /\ Len(Tail(bcfifo)) = Len(bcfifo) - 1
        BY <2>3, LenProperties, HeadTailProperties DEF WorkerFetches
      <3> QED BY <2>3, <3>1 DEF WorkerFetches
    <2>4. CASE WorkerUnlocks \/ WorkerWakes \/ WorkerOops
      BY <2>4 DEF WorkerUnlocks, WorkerWakes, WorkerOops
    <2>5. CASE WorkerMiscounts
      BY <2>5 DEF WorkerMiscounts, WorkerTakesCount
    \* The card gives away at most the one size that the work item reads.
    <2>6. CASE WorkerFetchesLeftover
      <3>1. Len(bcfifo) \in Nat
        BY LenProperties
      <3>2. CASE bcfifo = << >>
        <4>1. Len(bcfifo) = 0 /\ remaining > 0
          BY <2>6, <3>2, EmptySeq DEF WorkerFetchesLeftover, MoreToFetch
        <4>2. miscounted
          BY <2>6, <4>1 DEF WorkerFetchesLeftover
        <4> QED BY <2>6, <4>2 DEF WorkerFetchesLeftover
      <3>3. CASE bcfifo # << >>
        <4>1. Len(Removed(bcfifo, 1)) = Len(bcfifo) - 1
          <5>1. Len(bcfifo) > 0
            BY <3>1, <3>3, EmptySeq
          <5> DEFINE from == Smaller(1, Len(bcfifo)) + 1
          <5>2. from = 2
            BY <3>1, <5>1 DEF Smaller
          <5>3. \A i \in 1..Len(bcfifo) : bcfifo[i] \in SizeEntry
            BY ElementOfSeq
          <5> HIDE DEF from
          <5>4. from \in 1..(Len(bcfifo) + 1)
            BY <3>1, <5>1, <5>2
          <5>5. Len(SubSeq(bcfifo, from, Len(bcfifo))) =
                  IF from <= Len(bcfifo) THEN Len(bcfifo) - from + 1 ELSE 0
            BY <3>1, <5>3, <5>4, SubSeqProperties
          <5>6. Removed(bcfifo, 1) = SubSeq(bcfifo, from, Len(bcfifo))
            BY DEF Removed, from
          <5> QED BY <3>1, <5>1, <5>2, <5>5, <5>6
        <4>2. Len(bcfifo') >= Len(bcfifo) - 1
          BY <2>6, <3>1, <4>1 DEF WorkerFetchesLeftover
        <4>3. Len(bcfifo') \in Nat
          BY <2>6, <3>1, <4>1, <4>2, <3>3, EmptySeq DEF WorkerFetchesLeftover
        <4> QED BY <2>6, <3>1, <4>2, <4>3 DEF WorkerFetchesLeftover
      <3> QED BY <3>2, <3>3
    <2> QED BY <1>2, <2>1, <2>2, <2>3, <2>4, <2>5, <2>6 DEF WorkerStep
  <1>3. CASE CallbackStep
    <2>1. UNCHANGED << bcfifo, register_access_mutex, kpc, remaining, miscounted >>
      BY <1>3, CallbackLeaves DEF cardVars
    <2> QED BY <2>1
  \* A purge resets the card only while nobody holds the mutex.
  <1>4. ASSUME NEW p \in Purgers, Purge(p) \/ PurgeStep(p)
        PROVE  FetchInv'
    <2>1. CASE ExecuteRRES(p)
      BY <2>1, ActorsAssumption DEF ExecuteRRES, workVars
    <2>2. CASE Purge(p) \/ ClearQueued(p) \/ ClearStream(p)
      BY <2>2 DEF Purge, ClearQueued, ClearStream, cardVars, workVars
    <2> QED BY <1>4, <2>1, <2>2 DEF PurgeStep
  <1>5. ASSUME NEW r \in Readers,
               (\E n \in ReadCounts : Read(r, n)) \/ ReaderStep(r) \/ Interrupt(r)
        PROVE  FetchInv'
    <2>1. UNCHANGED << cardVars, register_access_mutex, workVars >>
      BY <1>5 DEF Read, ReaderStep, DownReadSemaphore, CheckIncoming, CheckBlock,
                  CheckAgain, LookIncoming, LookAgain, StreamRead, StreamCopyFails,
                  TakeSize, TakeNothing, TrimStatus, CopyFrame, CopyFails, NextFrame,
                  UpReadSemaphore, Interrupt
    <2> QED BY <2>1, FetchElsewhere DEF cardVars
  <1>6. ASSUME NEW q \in Pollers, Poll(q) \/ PollerStep(q) \/ PollEnds(q)
        PROVE  FetchInv'
    <2>1. UNCHANGED << cardVars, register_access_mutex, workVars >>
      BY <1>6 DEF Poll, PollerStep, PollDown, PollDownInterrupted, PollWait, PollTest,
                  PollAgain, PollEnds
    <2> QED BY <2>1, FetchElsewhere DEF cardVars
  <1>7. CASE FillUrb \/ UrbFails \/ SetAppendStatus \/ SetRxMultiple
               \/ \E c \in Caps : SetMemoryCap(c)
    <2>1. UNCHANGED << bcfifo, register_access_mutex, workVars >>
      BY <1>7 DEF FillUrb, UrbFails, SetAppendStatus, SetRxMultiple, SetMemoryCap,
                  cardVars
    <2> QED BY <2>1, FetchElsewhere
  <1>8. CASE UNCHANGED vars
    BY <1>8, FetchElsewhere DEF vars, cardVars
  <1> QED BY <1>1, <1>2, <1>3, <1>4, <1>5, <1>6, <1>7, <1>8 DEF Next

\* The work item never reads a size that a purge has taken off the card.
THEOREM FetchesFindSizes == Spec => []FetchFindsSize
  <1>1. Init => FetchInv
    BY DEF Init, FetchInv
  <1>2. FetchInv => FetchFindsSize
    BY DEF FetchInv, FetchFindsSize
  <1> QED BY <1>1, <1>2, TypeInit, TypeStep, FetchStep, PTL DEF Spec

-----------------------------------------------------------------------------
(* The input memory cap                                                    *)

AllCaps == Caps \cup {InitCap}

\* What the callback has read of the usage bounds it, because nobody else adds
\* bytes; so that what it tested has room until it adds it.
CapInv ==
  /\ memory_cap \in AllCaps
  /\ cpc = "test" => Len(istream) <= cb_usage
  /\ cpc = "add" => /\ cb_cap \in AllCaps
                    /\ Len(istream) + Len(Head(completed)) <= cb_cap
  /\ InputWithinCap

\* Whoever takes bytes, or changes nothing but the cap.
LEMMA CapElsewhere ==
  ASSUME TypeInv, TypeInv', CapInv,
         UNCHANGED << cpc, cb_usage, cb_cap >>,
         cpc # "idle" => Head(completed') = Head(completed),
         memory_cap' \in AllCaps,
         Len(istream') <= Len(istream)
  PROVE  CapInv'
  <1>1. Len(istream) \in Nat /\ Len(istream') \in Nat
    BY LenProperties DEF TypeInv, DataTypes
  <1>2. AllCaps \subseteq Nat
    BY CapsAssumption DEF AllCaps
  <1>3. InputWithinCap'
    BY <1>1, <1>2 DEF CapInv, InputWithinCap, AllCaps
  <1>4. cpc' = "test" => Len(istream') <= cb_usage'
    BY <1>1 DEF CapInv, TypeInv, UrbTypes
  <1>5. ASSUME cpc' = "add"
        PROVE  cb_cap' \in AllCaps /\ Len(istream') + Len(Head(completed')) <= cb_cap'
    <2>1. Head(completed') = Head(completed) /\ completed # << >>
      BY <1>5 DEF TypeInv, UrbTypes
    <2>2. Len(Head(completed)) \in Nat
      BY <2>1, HeadTailProperties, LenProperties DEF TypeInv, UrbTypes
    <2>3. cpc = "add" /\ cb_cap' = cb_cap
      BY <1>5
    <2>4. cb_cap \in AllCaps /\ Len(istream) + Len(Head(completed)) <= cb_cap
      BY <2>3 DEF CapInv
    <2>5. cb_cap \in Nat
      BY <1>2, <2>4
    <2>6. Len(istream') + Len(Head(completed)) <= cb_cap
      BY <1>1, <2>2, <2>4, <2>5
    <2> QED BY <2>1, <2>3, <2>4, <2>6
  <1> QED BY <1>3, <1>4, <1>5 DEF CapInv

\* A reader only takes bytes.
LEMMA ReaderTakes ==
  ASSUME TypeInv, NEW r \in Readers,
         (\E n \in ReadCounts : Read(r, n)) \/ ReaderStep(r) \/ Interrupt(r)
  PROVE  Len(istream') <= Len(istream)
  <1>0. Len(istream) \in Nat
    BY LenProperties DEF TypeInv, DataTypes
  <1>1. /\ istream \in Seq(Byte)
        /\ rcount[r] \in Nat /\ take_length[r] \in Nat /\ StatusLength \in Nat
    BY DEF TypeInv, DataTypes, TakeTypes, StatusLength
  <1>2. CASE StreamRead(r)
    BY <1>1, <1>2, RemovedFacts DEF StreamRead
  <1>3. CASE CopyFrame(r)
    <2>1. /\ Removed(istream, take_length[r]) \in Seq(Byte)
          /\ Len(Removed(istream, take_length[r])) <= Len(istream)
      BY <1>1, RemovedFacts
    <2>2. /\ Removed(Removed(istream, take_length[r]), StatusLength) \in Seq(Byte)
          /\ Len(Removed(Removed(istream, take_length[r]), StatusLength))
               <= Len(Removed(istream, take_length[r]))
      BY <1>1, <2>1, RemovedFacts
    <2>3. /\ Len(Removed(istream, take_length[r])) \in Nat
          /\ Len(Removed(Removed(istream, take_length[r]), StatusLength)) \in Nat
      BY <2>1, <2>2, LenProperties
    <2>4. istream' = Removed(Removed(istream, take_length[r]), StatusLength)
      BY <1>3 DEF CopyFrame
    <2> QED BY <1>0, <2>1, <2>2, <2>3, <2>4
  <1>4. CASE CopyFails(r)
    BY <1>1, <1>4, RemovedFacts DEF CopyFails
  <1>5. CASE ~(StreamRead(r) \/ CopyFrame(r) \/ CopyFails(r))
    <2>1. istream' = istream
      BY <1>5
         DEF Read, ReaderStep, DownReadSemaphore, CheckIncoming, CheckBlock,
             CheckAgain, LookIncoming, LookAgain, StreamCopyFails, TakeSize,
             TakeNothing, TrimStatus, UpReadSemaphore, Interrupt, dataVars
    <2> QED BY <1>0, <2>1
  <1> QED BY <1>2, <1>3, <1>4, <1>5

\* No step adds bytes that were not tested against a cap.
LEMMA CapStep == TypeInv /\ CapInv /\ [Next]_vars => CapInv'
  <1> SUFFICES ASSUME TypeInv, CapInv, [Next]_vars PROVE CapInv'
    OBVIOUS
  <1>1. TypeInv'
    BY TypeStep
  <1>2. Len(istream) \in Nat /\ memory_cap \in AllCaps
    BY LenProperties DEF TypeInv, DataTypes, CapInv
  <1>3. CASE CallbackStep
    <2>1. CASE CallbackReadUsage
      BY <1>2, <2>1 DEF CallbackReadUsage, CapInv, InputWithinCap, dataVars, settingVars
    <2>8. CASE CallbackTakesAll
      BY <1>2, <2>8 DEF CallbackTakesAll, CapInv, InputWithinCap, dataVars, settingVars
    <2> DEFINE payload == Len(Head(completed))
    <2>2. cpc # "idle" => payload \in Nat
      BY HeadTailProperties, LenProperties DEF TypeInv, UrbTypes
    <2>3. CASE CallbackTest
      <3>1. Len(istream) + payload <= memory_cap
        <4>1. Len(istream) <= cb_usage /\ cb_usage + payload <= memory_cap
          BY <2>3 DEF CallbackTest, Fits, CapInv
        <4> QED BY <1>2, <2>2, <2>3, <4>1
                DEF CallbackTest, TypeInv, UrbTypes, SettingTypes
      <3> QED BY <1>2, <2>3, <3>1
              DEF CallbackTest, CapInv, InputWithinCap, dataVars, settingVars
    <2>4. CASE CallbackDiscard
      BY <1>2, <2>4 DEF CallbackDiscard, Resubmit, CapInv, InputWithinCap, dataVars,
                        settingVars
    <2>5. CASE CallbackAdd
      <3>1. Len(istream \o Head(completed)) = Len(istream) + payload
        BY <2>5, HeadTailProperties, ConcatProperties
           DEF CallbackAdd, TypeInv, UrbTypes, DataTypes
      <3>2. \E c \in AllCaps : Len(istream') <= c
        BY <2>5, <3>1 DEF CallbackAdd, CapInv
      <3> QED BY <1>2, <2>5, <3>2
              DEF CallbackAdd, CapInv, InputWithinCap, AllCaps, settingVars
    <2>6. CASE CallbackAddFails
      BY <1>2, <2>6 DEF CallbackAddFails, CapInv, InputWithinCap, dataVars, settingVars
    <2>7. CASE CallbackNotify
      BY <1>2, <2>7 DEF CallbackNotify, Resubmit, CapInv, InputWithinCap, dataVars,
                        settingVars
    <2> QED BY <1>3, <2>1, <2>3, <2>4, <2>5, <2>6, <2>7, <2>8 DEF CallbackStep
  <1>4. CASE WorkerStep
    <2>1. UNCHANGED << urbVars, istream, settingVars >>
      BY <1>4, WorkerLeaves
    <2> QED BY <1>1, <1>2, <2>1, CapElsewhere DEF urbVars, settingVars
  <1>5. ASSUME NEW r \in Readers,
               (\E n \in ReadCounts : Read(r, n)) \/ ReaderStep(r) \/ Interrupt(r)
        PROVE  CapInv'
    <2>1. UNCHANGED << urbVars, settingVars >>
      BY <1>5 DEF Read, ReaderStep, DownReadSemaphore, CheckIncoming, CheckBlock,
                  CheckAgain, LookIncoming, LookAgain, StreamRead, StreamCopyFails,
                  TakeSize, TakeNothing, TrimStatus, CopyFrame, CopyFails, NextFrame,
                  UpReadSemaphore, Interrupt
    <2>2. Len(istream') <= Len(istream)
      BY <1>5, ReaderTakes
    <2> QED BY <1>1, <1>2, <2>1, <2>2, CapElsewhere DEF urbVars, settingVars
  <1>6. ASSUME NEW q \in Pollers, Poll(q) \/ PollerStep(q) \/ PollEnds(q)
        PROVE  CapInv'
    <2>1. UNCHANGED << urbVars, istream, settingVars >>
      BY <1>6 DEF Poll, PollerStep, PollDown, PollDownInterrupted, PollWait, PollTest,
                  PollAgain, PollEnds, dataVars
    <2> QED BY <1>1, <1>2, <2>1, CapElsewhere DEF urbVars, settingVars
  <1>7. ASSUME NEW p \in Purgers, Purge(p) \/ PurgeStep(p)
        PROVE  CapInv'
    <2>1. UNCHANGED << urbVars, settingVars >>
      BY <1>7 DEF Purge, PurgeStep, ExecuteRRES, ClearQueued, ClearStream
    <2>2. istream' \in {istream, << >>}
      BY <1>7 DEF Purge, PurgeStep, ExecuteRRES, ClearQueued, ClearStream, dataVars
    <2>3. Len(istream') <= Len(istream)
      BY <1>2, <2>2, EmptySeq
    <2> QED BY <1>1, <1>2, <2>1, <2>3, CapElsewhere DEF urbVars, settingVars
  <1>8. CASE FillUrb
    <2>1. UNCHANGED << cpc, cb_usage, cb_cap, istream, memory_cap >>
      BY <1>8 DEF FillUrb, dataVars, settingVars
    <2>2. ASSUME cpc # "idle" PROVE Head(completed') = Head(completed)
      <3>1. completed # << >> /\ completed \in Seq(Seq(Byte))
        BY <2>2 DEF TypeInv, UrbTypes
      <3>2. completed' = Append(completed, Leading(dfifo, UrbPayload))
        BY <1>8 DEF FillUrb
      <3> QED BY <3>1, <3>2
    <2> QED BY <1>1, <1>2, <2>1, <2>2, CapElsewhere
  <1>9. CASE \/ \E n \in FrameSizes : LineReceives(n)
             \/ UrbFails \/ SetAppendStatus \/ SetRxMultiple
    <2>1. UNCHANGED << cpc, cb_usage, cb_cap, completed, istream, memory_cap >>
      BY <1>9 DEF LineReceives, UrbFails, SetAppendStatus, SetRxMultiple, urbVars,
                  dataVars, settingVars
    <2> QED BY <1>1, <1>2, <2>1, CapElsewhere
  <1>10. ASSUME NEW c \in Caps, SetMemoryCap(c)
         PROVE  CapInv'
    <2>1. UNCHANGED << cpc, cb_usage, cb_cap, completed, istream >> /\ memory_cap' = c
      BY <1>10 DEF SetMemoryCap, urbVars, dataVars
    <2> QED BY <1>1, <1>2, <2>1, CapElsewhere DEF AllCaps
  <1>11. CASE UNCHANGED vars
    BY <1>1, <1>2, <1>11, CapElsewhere DEF vars, urbVars, dataVars, settingVars
  <1> QED BY <1>3, <1>4, <1>5, <1>6, <1>7, <1>8, <1>9, <1>10, <1>11 DEF Next

\* The input memory stays within one of the caps that were set, although the
\* callback reads, tests and adds at three times.
THEOREM InputStaysWithinCap == Spec => []InputWithinCap
  <1>1. Init => CapInv
    <2> SUFFICES ASSUME Init PROVE CapInv
      OBVIOUS
    <2>1. Len(istream) = 0
      BY EmptySeq DEF Init
    <2> QED BY <2>1, CapsAssumption DEF Init, CapInv, AllCaps, InputWithinCap
  <1>2. CapInv => InputWithinCap
    BY DEF CapInv
  <1> QED BY <1>1, <1>2, TypeInit, TypeStep, CapStep, PTL DEF Spec
-----------------------------------------------------------------------------
(* Wake-ups                                                                *)

\* A callback or the work item is on its way to wake the sleepers, or the work item
\* has died.
Busy == cpc = "notify" \/ work_pending \/ kpc # "idle"

\* Whoever sleeps is on input_queue, where a wake-up finds it.
SleepersWait == \A w \in Waiters : Asleep(w) => waiting[w]

WakeInv == SleepersWait /\ NoLostWake

\* Data appears only when somebody adds bytes or sizes.
LEMMA NothingAppears ==
  ASSUME TypeInv, TypeInv', streaming' = streaming,
         Len(istream') <= Len(istream),
         queued_iframes' \in {queued_iframes, << >>},
         HasIncomingData'
  PROVE  HasIncomingData
  <1>1. /\ istream \in Seq(Byte) /\ istream' \in Seq(Byte)
        /\ Len(istream) \in Nat /\ Len(istream') \in Nat
    BY LenProperties DEF TypeInv, DataTypes
  <1>2. CASE streaming
    <2>1. istream' # << >>
      BY <1>2 DEF HasIncomingData
    <2>2. Len(istream') # 0
      BY <1>1, <2>1, EmptySeq
    <2>3. istream # << >>
      BY <1>1, <2>2, EmptySeq
    <2> QED BY <1>2, <2>3 DEF HasIncomingData
  <1>3. CASE ~streaming
    <2>1. queued_iframes' # << >> /\ Head(queued_iframes').size <= Len(istream')
      BY <1>3 DEF HasIncomingData
    <2>2. queued_iframes' = queued_iframes
      BY <2>1
    <2>3. Head(queued_iframes) \in SizeEntry
      BY <2>1, <2>2, HeadTailProperties DEF TypeInv, DataTypes
    <2>4. Head(queued_iframes).size \in Nat
      BY <2>3 DEF SizeEntry
    <2> QED BY <1>1, <1>3, <2>1, <2>2, <2>4 DEF HasIncomingData
  <1> QED BY <1>2, <1>3

\* A step of nobody who waits.
LEMMA WakeElsewhere ==
  ASSUME WakeInv, UNCHANGED << rpc, qpc, waiting, woken >>,
         HasIncomingData' => Busy' \/ HasIncomingData,
         Busy => Busy'
  PROVE  WakeInv'
  BY DEF WakeInv, SleepersWait, NoLostWake, Asleep, Busy

\* wake_up_interruptible reaches all that sleep.
LEMMA WakeAll ==
  ASSUME TypeInv, WakeInv, UNCHANGED << rpc, qpc, waiting >>, WakeInputQueue
  PROVE  WakeInv'
  <1>1. \A w \in Waiters : Asleep(w)' => Asleep(w) /\ waiting[w]
    BY DEF WakeInv, SleepersWait, Asleep
  <1>2. \A w \in Waiters : waiting[w] => woken'[w]
    BY DEF WakeInputQueue
  <1> QED BY <1>1, <1>2 DEF WakeInv, SleepersWait, NoLostWake, Asleep

\* A step of one that waits: it falls asleep only on the queue, and finding
\* nothing.
LEMMA WakeWaiter ==
  ASSUME WakeInv, NEW w \in Waiters,
         UNCHANGED << cpc, work_pending, kpc >>,
         HasIncomingData' => HasIncomingData,
         \A v \in Waiters \ {w} : /\ Asleep(v)' <=> Asleep(v)
                                  /\ waiting'[v] = waiting[v]
                                  /\ woken'[v] = woken[v],
         Asleep(w)' => waiting'[w] /\ ~HasIncomingData'
  PROVE  WakeInv'
  <1>1. SleepersWait'
    BY DEF WakeInv, SleepersWait
  <1>2. NoLostWake'
    BY DEF WakeInv, NoLostWake
  <1> QED BY <1>1, <1>2 DEF WakeInv

\* A reader falls asleep only after it has looked.
LEMMA WakeReader ==
  ASSUME TypeInv, TypeInv', WakeInv, NEW r \in Readers,
         (\E n \in ReadCounts : Read(r, n)) \/ ReaderStep(r) \/ Interrupt(r)
  PROVE  WakeInv'
  <1>1. UNCHANGED << cpc, work_pending, kpc, streaming, qpc >>
    BY DEF Read, ReaderStep, DownReadSemaphore, CheckIncoming, CheckBlock,
           CheckAgain, LookIncoming, LookAgain, StreamRead, StreamCopyFails,
           TakeSize, TakeNothing, TrimStatus, CopyFrame, CopyFails, NextFrame,
           UpReadSemaphore, Interrupt, urbVars, workVars, settingVars, pollVars
  <1>2. HasIncomingData' => HasIncomingData
    <2>1. CASE TakeSize(r)
      BY <2>1 DEF TakeSize, CanTake, HasIncomingData
    <2>2. CASE ~TakeSize(r)
      <3>1. queued_iframes' = queued_iframes
        BY <2>2 DEF Read, ReaderStep, DownReadSemaphore, CheckIncoming, CheckBlock,
                    CheckAgain, LookIncoming, LookAgain, StreamRead, StreamCopyFails,
                    TakeNothing, TrimStatus, CopyFrame, CopyFails, NextFrame,
                    UpReadSemaphore, Interrupt, dataVars
      <3> QED BY <1>1, <3>1, ReaderTakes, NothingAppears
    <2> QED BY <2>1, <2>2
  <1>3. r \in Waiters /\ \A v \in Waiters : v \notin Readers => v \in Pollers
    BY DEF Waiters
  <1>4. /\ rpc \in [Readers -> {"idle", "down", "check", "look", "asleep", "read",
                                "trim", "copy", "up"}]
        /\ waiting \in [Waiters -> BOOLEAN] /\ woken \in [Waiters -> BOOLEAN]
    BY DEF TypeInv, TakeTypes, WaitTypes
  <1>5. /\ \A v \in Readers \ {r} : rpc'[v] = rpc[v]
        /\ \A v \in Waiters \ {r} : waiting'[v] = waiting[v] /\ woken'[v] = woken[v]
    BY <1>3, <1>4
       DEF Read, ReaderStep, DownReadSemaphore, CheckIncoming, CheckBlock,
           CheckAgain, LookIncoming, LookAgain, StreamRead, StreamCopyFails,
           TakeSize, TakeNothing, TrimStatus, CopyFrame, CopyFails, NextFrame,
           UpReadSemaphore, Interrupt, Return, takeVars
  <1>6. rpc'[r] = "asleep" => waiting'[r] /\ ~HasIncomingData'
    <2>1. CASE LookIncoming(r)
      <3>1. rpc'[r] = "asleep" => ~HasIncomingData
        BY <1>4, <2>1 DEF LookIncoming
      <3>2. waiting'[r] = ~HasIncomingData
        BY <1>3, <1>4, <2>1 DEF LookIncoming
      <3> QED BY <1>2, <3>1, <3>2
    <2>2. CASE ~LookIncoming(r)
      <3>1. rpc'[r] # "asleep"
        BY <1>4, <2>2
           DEF Read, ReaderStep, DownReadSemaphore, CheckIncoming, CheckBlock,
               CheckAgain, LookAgain, StreamRead, StreamCopyFails,
               TakeSize, TakeNothing, TrimStatus, CopyFrame, CopyFails, NextFrame,
               UpReadSemaphore, Interrupt, Return
      <3> QED BY <3>1
    <2> QED BY <2>1, <2>2
  <1>7. \A v \in Waiters \ {r} : Asleep(v)' <=> Asleep(v)
    BY <1>1, <1>5 DEF Asleep
  <1>8. Asleep(r)' <=> rpc'[r] = "asleep"
    BY DEF Asleep
  <1> QED BY <1>1, <1>2, <1>3, <1>5, <1>6, <1>7, <1>8, WakeWaiter

\* So does a poller.
LEMMA WakePoller ==
  ASSUME TypeInv, TypeInv', WakeInv, NEW q \in Pollers,
         Poll(q) \/ PollerStep(q) \/ PollEnds(q)
  PROVE  WakeInv'
  <1>1. UNCHANGED << cpc, work_pending, kpc, rpc, streaming, istream, queued_iframes >>
    BY DEF Poll, PollerStep, PollDown, PollDownInterrupted, PollWait, PollTest,
           PollAgain, PollEnds, urbVars, workVars, settingVars, dataVars, readVars
  <1>2. HasIncomingData' <=> HasIncomingData
    BY <1>1 DEF HasIncomingData
  <1>3. q \in Waiters /\ q \notin Readers
    BY ActorsAssumption DEF Waiters
  <1>4. /\ qpc \in [Pollers -> {"idle", "down", "test", "asleep"}]
        /\ waiting \in [Waiters -> BOOLEAN] /\ woken \in [Waiters -> BOOLEAN]
    BY DEF TypeInv, PollTypes, WaitTypes
  <1>5. /\ \A v \in Pollers \ {q} : qpc'[v] = qpc[v]
        /\ \A v \in Waiters \ {q} : waiting'[v] = waiting[v] /\ woken'[v] = woken[v]
    BY <1>3, <1>4
       DEF Poll, PollerStep, PollDown, PollDownInterrupted, PollWait, PollTest,
           PollAgain, PollEnds, readVars
  <1>6. qpc'[q] = "asleep" => waiting'[q] /\ ~HasIncomingData'
    <2>1. CASE PollTest(q)
      <3>1. qpc'[q] = "asleep" => ~HasIncomingData
        BY <1>4, <2>1 DEF PollTest
      <3>2. waiting'[q] = ~HasIncomingData
        BY <1>3, <1>4, <2>1 DEF PollTest
      <3> QED BY <1>2, <3>1, <3>2
    <2>2. CASE ~PollTest(q)
      <3>1. qpc'[q] # "asleep"
        BY <1>4, <2>2
           DEF Poll, PollerStep, PollDown, PollDownInterrupted, PollWait,
               PollAgain, PollEnds
      <3> QED BY <3>1
    <2> QED BY <2>1, <2>2
  <1>7. \A v \in Waiters \ {q} : Asleep(v)' <=> Asleep(v)
    BY <1>1, <1>5 DEF Asleep, Waiters
  <1>8. Asleep(q)' <=> qpc'[q] = "asleep"
    BY <1>3 DEF Asleep
  <1> QED BY <1>1, <1>2, <1>3, <1>5, <1>6, <1>7, <1>8, WakeWaiter

\* The callback wakes the sleepers, or leaves it to the work item.
LEMMA WakeCallback ==
  ASSUME TypeInv, WakeInv, CallbackStep
  PROVE  WakeInv'
  <1>1. CASE CallbackReadUsage \/ CallbackTakesAll \/ CallbackTest \/ CallbackDiscard
    <2>3. UNCHANGED << rpc, qpc, waiting, woken, streaming, istream, queued_iframes >>
      BY <1>1 DEF CallbackReadUsage, CallbackTakesAll, CallbackTest, CallbackDiscard,
                  readVars, pollVars, settingVars, dataVars
    <2>1. UNCHANGED << rpc, qpc, waiting, woken >> /\ (HasIncomingData' <=> HasIncomingData)
      BY <2>3 DEF HasIncomingData
    <2>2. Busy => Busy'
      BY <1>1 DEF CallbackReadUsage, CallbackTakesAll, CallbackTest, CallbackDiscard,
                  workVars, Busy
    <2> QED BY <2>1, <2>2, WakeElsewhere
  <1>2. CASE CallbackAdd \/ CallbackAddFails
    <2>1. UNCHANGED << rpc, qpc, waiting, woken >>
      BY <1>2 DEF CallbackAdd, CallbackAddFails, readVars, pollVars
    <2>2. Busy'
      BY <1>2 DEF CallbackAdd, CallbackAddFails, Busy
    <2> QED BY <2>1, <2>2, WakeElsewhere
  <1>3. CASE CallbackNotify
    <2>1. UNCHANGED << rpc, qpc, waiting >>
      BY <1>3 DEF CallbackNotify, pollVars
    <2>2. CASE streaming
      BY <1>3, <2>1, <2>2, WakeAll DEF CallbackNotify
    <2>3. CASE ~streaming
      <3>1. Busy' /\ UNCHANGED woken
        BY <1>3, <2>3 DEF CallbackNotify, ScheduleWork, Busy
      <3> QED BY <2>1, <3>1, WakeElsewhere
    <2> QED BY <2>2, <2>3
  <1> QED BY <1>1, <1>2, <1>3 DEF CallbackStep

\* The work item wakes them before it ends.
LEMMA WakeWorker ==
  ASSUME TypeInv, WakeInv, WorkerStep
  PROVE  WakeInv'
  <1>1. CASE WorkerWakes
    <2>1. UNCHANGED << rpc, qpc, waiting >> /\ WakeInputQueue
      BY <1>1 DEF WorkerWakes, pollVars
    <2> QED BY <2>1, WakeAll
  <1>2. CASE ~WorkerWakes
    <2>1. UNCHANGED << rpc, qpc, waiting, woken >>
      BY <1>2 DEF WorkerStep, WorkerBegins, WorkerCounts, WorkerMiscounts,
                  WorkerTakesCount, WorkerFetches, WorkerFetchesLeftover, WorkerOops,
                  WorkerUnlocks, readVars, pollVars
    <2>2. Busy'
      BY <1>2 DEF WorkerStep, WorkerBegins, WorkerCounts, WorkerMiscounts,
                  WorkerTakesCount, WorkerFetches, WorkerFetchesLeftover, WorkerOops,
                  WorkerUnlocks, Busy
    <2> QED BY <2>1, <2>2, WakeElsewhere
  <1> QED BY <1>1, <1>2

\* No step loses a wake-up.
LEMMA WakeStep == TypeInv /\ WakeInv /\ [Next]_vars => WakeInv'
  <1> SUFFICES ASSUME TypeInv, WakeInv, [Next]_vars PROVE WakeInv'
    OBVIOUS
  <1>1. TypeInv' /\ Len(istream) \in Nat
    BY TypeStep, LenProperties DEF TypeInv, DataTypes
  <1>2. ASSUME NEW p \in Purgers, Purge(p) \/ PurgeStep(p)
        PROVE  WakeInv'
    <2>1. UNCHANGED << rpc, qpc, waiting, woken, streaming, cpc, work_pending, kpc >>
      BY <1>2 DEF Purge, PurgeStep, ExecuteRRES, ClearQueued, ClearStream, readVars,
                  pollVars, settingVars, urbVars, workVars
    <2>2. istream' \in {istream, << >>} /\ queued_iframes' \in {queued_iframes, << >>}
      BY <1>2 DEF Purge, PurgeStep, ExecuteRRES, ClearQueued, ClearStream, dataVars
    <2>3. Len(istream') <= Len(istream)
      BY <1>1, <2>2, EmptySeq
    <2>4. Busy' <=> Busy
      BY <2>1 DEF Busy
    <2> QED BY <1>1, <2>1, <2>2, <2>3, <2>4, NothingAppears, WakeElsewhere
  <1>3. CASE \/ \E n \in FrameSizes : LineReceives(n)
             \/ FillUrb \/ UrbFails \/ SetAppendStatus \/ SetRxMultiple
             \/ \E c \in Caps : SetMemoryCap(c)
             \/ UNCHANGED vars
    <2>1. UNCHANGED << rpc, qpc, waiting, woken, cpc, work_pending, kpc, istream,
                       queued_iframes, streaming >>
      BY <1>3 DEF LineReceives, FillUrb, UrbFails, SetAppendStatus, SetRxMultiple,
                  SetMemoryCap, vars, urbVars, dataVars, workVars, readVars, pollVars,
                  settingVars
    <2>2. (HasIncomingData' <=> HasIncomingData) /\ (Busy' <=> Busy)
      BY <2>1 DEF HasIncomingData, Busy
    <2> QED BY <2>1, <2>2, WakeElsewhere
  <1> QED BY <1>1, <1>2, <1>3, WakeReader, WakePoller, WakeCallback, WakeWorker DEF Next

\* No wake-up is lost between a reader's or a poller's look and its sleep.
THEOREM WakesAreNotLost == Spec => []NoLostWake
  <1>1. Init => WakeInv
    <2> SUFFICES ASSUME Init PROVE WakeInv
      OBVIOUS
    <2>1. \A w \in Waiters : ~Asleep(w)
      BY DEF Init, Asleep, Waiters
    <2> QED BY <2>1 DEF WakeInv, SleepersWait, NoLostWake
  <1>2. WakeInv => NoLostWake
    BY DEF WakeInv
  <1> QED BY <1>1, <1>2, TypeInit, TypeStep, WakeStep, PTL DEF Spec

-----------------------------------------------------------------------------
(* Disturbances, and the sizes without one                                 *)

\* Nothing that was disturbed is ever undisturbed, and as long as nothing is
\* disturbed the settings a size depends on stay.
LEMMA Undisturbed ==
  ASSUME [Next]_vars, ~disturbed'
  PROVE  UNCHANGED << append_status, streaming, disturbed >>
  <1>1. CASE \/ \E n \in FrameSizes : LineReceives(n)
             \/ FillUrb \/ UrbFails \/ SetRxMultiple
             \/ (\E c \in Caps : SetMemoryCap(c)) \/ UNCHANGED vars
    BY <1>1 DEF LineReceives, FillUrb, UrbFails, SetRxMultiple, SetMemoryCap,
                vars, settingVars, ghostVars
  <1>2. CASE CallbackStep \/ WorkerStep
    BY <1>2, CallbackLeaves, WorkerLeaves DEF settingVars
  <1>3. CASE SetAppendStatus
    BY <1>3 DEF SetAppendStatus
  <1>4. ASSUME NEW r \in Readers,
               (\E n \in ReadCounts : Read(r, n)) \/ ReaderStep(r) \/ Interrupt(r)
        PROVE  UNCHANGED << append_status, streaming, disturbed >>
    <2>1. UNCHANGED settingVars
      BY <1>4 DEF Read, ReaderStep, DownReadSemaphore, CheckIncoming, CheckBlock,
             CheckAgain, LookIncoming, LookAgain, StreamRead, StreamCopyFails,
             TakeSize, TakeNothing, TrimStatus, CopyFrame, CopyFails, NextFrame,
             UpReadSemaphore, Interrupt
    <2>2. UNCHANGED ghostVars \/ disturbed'
      BY <1>4 DEF Read, ReaderStep, DownReadSemaphore, CheckIncoming, CheckBlock,
             CheckAgain, LookIncoming, LookAgain, StreamRead, StreamCopyFails,
             TakeSize, TakeNothing, TrimStatus, CopyFrame, CopyFails,
             UpReadSemaphore, Interrupt
    <2> QED BY <2>1, <2>2 DEF settingVars, ghostVars
  <1>5. ASSUME NEW q \in Pollers, Poll(q) \/ PollerStep(q) \/ PollEnds(q)
        PROVE  UNCHANGED << append_status, streaming, disturbed >>
    BY <1>5 DEF Poll, PollerStep, PollDown, PollDownInterrupted, PollWait, PollTest,
                PollAgain, PollEnds, settingVars, ghostVars
  <1>6. ASSUME NEW p \in Purgers, Purge(p) \/ PurgeStep(p)
        PROVE  UNCHANGED << append_status, streaming, disturbed >>
    BY <1>6 DEF Purge, PurgeStep, ExecuteRRES, ClearQueued, ClearStream, settingVars,
                ghostVars
  <1> QED BY <1>1, <1>2, <1>3, <1>4, <1>5, <1>6 DEF Next

\* A size that the line gave: it leaves room for the two status bytes.
LineEntry == [number : Nat, size : {n \in Nat : 2 <= n /\ n < UintRange}]

\* As long as nothing is disturbed, every size is one that the line gave.
DataInv ==
  ~disturbed =>
    /\ bcfifo \in Seq(LineEntry) /\ queued_iframes \in Seq(LineEntry)
    /\ \A r \in Readers : taken[r] # NoFrame => taken[r] \in LineEntry

\* A size stays what it was when the line gave it.
LEMMA DataStep == TypeInv /\ DataInv /\ [Next]_vars => DataInv'
  <1> SUFFICES ASSUME TypeInv, DataInv, [Next]_vars, ~disturbed' PROVE DataInv'
    BY DEF DataInv
  <1>7. /\ bcfifo \in Seq(LineEntry) /\ queued_iframes \in Seq(LineEntry)
        /\ \A r \in Readers : taken[r] # NoFrame => taken[r] \in LineEntry
    BY Undisturbed DEF DataInv
  <1>0. << >> \in Seq(LineEntry)
    BY EmptySeq
  <1>1. ASSUME NEW n \in FrameSizes, LineReceives(n)
        PROVE  DataInv'
    <2> DEFINE entry == [number |-> arrived + 1, size |-> n]
    <2>1. entry \in LineEntry
      BY SizesAssumption DEF TypeInv, CardTypes, LineEntry
    <2>2. /\ bcfifo' = IF streaming THEN bcfifo ELSE Append(bcfifo, entry)
          /\ UNCHANGED << queued_iframes, taken >>
      BY <1>1 DEF LineReceives, dataVars, readVars, takeVars
    <2> HIDE DEF entry
    <2>3. bcfifo' \in Seq(LineEntry)
      BY <1>7, <2>1, <2>2, AppendProperties
    <2> QED BY <1>7, <2>2, <2>3 DEF DataInv
  <1>2. CASE WorkerFetches
    <2>1. Head(bcfifo) \in LineEntry /\ Tail(bcfifo) \in Seq(LineEntry)
      BY <1>2, <1>7, HeadTailProperties DEF WorkerFetches
    <2>2. Append(queued_iframes, Head(bcfifo)) \in Seq(LineEntry)
      BY <1>7, <2>1, AppendProperties
    <2> QED BY <1>2, <1>7, <2>1, <2>2 DEF WorkerFetches, DataInv, readVars, takeVars
  <1>3. CASE CallbackStep
    BY <1>3, <1>7, CallbackLeaves DEF DataInv, cardVars, takeVars
  <1>8. CASE WorkerStep /\ ~WorkerFetches
    <2>1. UNCHANGED << bcfifo, queued_iframes >>
      BY <1>8 DEF WorkerStep, WorkerBegins, WorkerCounts, WorkerTakesCount, WorkerMiscounts,
                  WorkerFetchesLeftover, WorkerOops, WorkerUnlocks, WorkerWakes, cardVars,
                  dataVars
    <2> QED BY <1>7, <1>8, <2>1, WorkerLeaves DEF DataInv, takeVars
  <1>9. CASE \/ FillUrb \/ UrbFails \/ SetAppendStatus \/ SetRxMultiple
             \/ (\E c \in Caps : SetMemoryCap(c)) \/ UNCHANGED vars
    <2>1. UNCHANGED << bcfifo, queued_iframes, taken >>
      BY <1>9 DEF FillUrb, UrbFails, SetAppendStatus, SetRxMultiple, SetMemoryCap, vars,
                  cardVars, dataVars, readVars, takeVars
    <2> QED BY <1>7, <2>1 DEF DataInv
  <1>4. ASSUME NEW p \in Purgers, Purge(p) \/ PurgeStep(p)
        PROVE  DataInv'
    <2>1. /\ bcfifo' \in {bcfifo, << >>} /\ queued_iframes' \in {queued_iframes, << >>}
          /\ taken' = taken
      BY <1>4 DEF Purge, PurgeStep, ExecuteRRES, ClearQueued, ClearStream, cardVars,
                  dataVars, readVars, takeVars
    <2> QED BY <1>0, <1>7, <2>1 DEF DataInv
  <1>5. ASSUME NEW q \in Pollers, Poll(q) \/ PollerStep(q) \/ PollEnds(q)
        PROVE  DataInv'
    <2>1. UNCHANGED << bcfifo, queued_iframes, taken >>
      BY <1>5 DEF Poll, PollerStep, PollDown, PollDownInterrupted, PollWait, PollTest,
                  PollAgain, PollEnds, cardVars, dataVars, readVars, takeVars
    <2> QED BY <1>7, <2>1 DEF DataInv
  <1>6. ASSUME NEW r \in Readers,
               (\E n \in ReadCounts : Read(r, n)) \/ ReaderStep(r) \/ Interrupt(r)
        PROVE  DataInv'
    <2>1. bcfifo' = bcfifo
      BY <1>6 DEF Read, ReaderStep, DownReadSemaphore, CheckIncoming, CheckBlock,
                  CheckAgain, LookIncoming, LookAgain, StreamRead, StreamCopyFails,
                  TakeSize, TakeNothing, TrimStatus, CopyFrame, CopyFails, NextFrame,
                  UpReadSemaphore, Interrupt, cardVars
    <2>2. taken \in [Readers -> SizeEntry \cup {NoFrame}]
      BY DEF TypeInv, TakeTypes
    <2>3. CASE TakeSize(r)
      <3>1. Head(queued_iframes) \in LineEntry /\ Tail(queued_iframes) \in Seq(LineEntry)
        BY <1>7, <2>3, HeadTailProperties DEF TakeSize, CanTake
      <3>2. /\ queued_iframes' = Tail(queued_iframes)
            /\ taken' = [taken EXCEPT ![r] = Head(queued_iframes)]
        BY <2>3 DEF TakeSize
      <3> QED BY <1>7, <2>1, <2>2, <3>1, <3>2 DEF DataInv
    <2>4. CASE ~TakeSize(r)
      <3>1. queued_iframes' = queued_iframes
        BY <1>6, <2>4 DEF Read, ReaderStep, DownReadSemaphore, CheckIncoming, CheckBlock,
                    CheckAgain, LookIncoming, LookAgain, StreamRead, StreamCopyFails,
                    TakeNothing, TrimStatus, CopyFrame, CopyFails, NextFrame,
                    UpReadSemaphore, Interrupt, dataVars
      <3>2. taken' = taken \/ taken' = [taken EXCEPT ![r] = NoFrame]
        BY <1>6, <2>4 DEF Read, ReaderStep, DownReadSemaphore, CheckIncoming, CheckBlock,
                    CheckAgain, LookIncoming, LookAgain, StreamRead, StreamCopyFails,
                    TakeNothing, TrimStatus, CopyFrame, CopyFails, NextFrame,
                    UpReadSemaphore, Interrupt, Return, takeVars
      <3> QED BY <1>7, <2>1, <2>2, <3>1, <3>2 DEF DataInv
    <2> QED BY <2>3, <2>4
  <1> QED BY <1>1, <1>2, <1>3, <1>4, <1>5, <1>6, <1>8, <1>9 DEF Next

\* No size has come at first.
LEMMA DataInit == Init => DataInv
  BY EmptySeq DEF Init, DataInv

-----------------------------------------------------------------------------
(* What a read takes and returns                                           *)

Inside(r) == rpc[r] \in {"check", "read", "trim", "copy", "up"}
Holding(r) == rpc[r] \in {"trim", "copy"}

\* While nothing is disturbed no purge is under way; the bytes of a size that
\* a reader has taken are there, and they fit its buffer.
ReadsKept ==
  /\ \A p \in Purgers : ppc[p] = "idle"
  /\ \A r \in Readers :
        /\ out_length[r] = Len(copied[r]) /\ out_length[r] <= rcount[r]
        /\ Holding(r) => /\ taken[r].size <= Len(istream)
                         /\ taken[r].size <= MaxFrameLength(r)
        /\ rpc[r] = "copy" => take_length[r] = taken[r].size - StatusLength

\* A reader in the critical section has the semaphore; it has taken a size from
\* synccom_port_frame_read's first lock to its second, and only of frames; and
\* nothing is copied before it is inside.
ReadInv ==
  /\ \A r \in Readers :
        /\ Inside(r) => read_semaphore = r
        /\ taken[r] # NoFrame <=> Holding(r)
        /\ Holding(r) => ~streaming
        /\ rpc[r] \in {"idle", "down", "check", "look", "asleep"} => out_length[r] = 0
  /\ ~disturbed => ReadsKept

\* A step of nobody who reads: bytes are added, or something is disturbed.
LEMMA ReadElsewhere ==
  ASSUME TypeInv, TypeInv', ReadInv,
         UNCHANGED << read_semaphore, rpc, rcount, taken, take_length, out_length, copied,
                      streaming >>,
         ~disturbed' => /\ ~disturbed
                        /\ UNCHANGED << append_status, ppc >>
                        /\ Len(istream') >= Len(istream)
  PROVE  ReadInv'
  <1>1. \A r \in Readers :
          /\ Inside(r)' => read_semaphore' = r
          /\ taken'[r] # NoFrame <=> Holding(r)'
          /\ Holding(r)' => ~streaming'
          /\ rpc'[r] \in {"idle", "down", "check", "look", "asleep"} => out_length'[r] = 0
    BY DEF ReadInv, Inside, Holding
  <1>2. ASSUME ~disturbed'
        PROVE  ReadsKept'
    <2>1. ReadsKept /\ UNCHANGED << append_status, ppc >>
      BY <1>2 DEF ReadInv
    <2>2. Len(istream) \in Nat /\ Len(istream') \in Nat /\ Len(istream') >= Len(istream)
      BY <1>2, LenProperties DEF TypeInv, DataTypes
    <2>3. \A r \in Readers : Holding(r) => taken[r] \in SizeEntry
      BY DEF ReadInv, TypeInv, TakeTypes
    <2>4. \A r \in Readers : Holding(r) => taken[r].size \in Nat
      BY <2>3 DEF SizeEntry
    <2>5. \A r \in Readers : Holding(r) => taken[r].size <= Len(istream')
      BY <2>1, <2>2, <2>4 DEF ReadsKept
    <2>6. StatusLength' = StatusLength
      BY <2>1 DEF StatusLength
    <2>7. \A r \in Readers : MaxFrameLength(r)' = MaxFrameLength(r)
      BY <2>6 DEF MaxFrameLength
    <2> QED BY <2>1, <2>5, <2>6, <2>7 DEF ReadsKept, Holding
  <1> QED BY <1>1, <1>2 DEF ReadInv

\* Without a wrap-around the room is what it seems to be.
LEMMA RoomIs ==
  ASSUME NEW r \in Readers, rcount[r] \in Nat, 2 * (rcount[r] + 3) <= UintRange,
         out_length[r] \in Nat, out_length[r] <= rcount[r] + 2
  PROVE  MaxFrameLength(r) = (rcount[r] - out_length[r]) + StatusLength
  <1> DEFINE room == (rcount[r] - out_length[r]) + StatusLength
  <1>1. UintRange \in Nat /\ StatusLength \in {0, 2}
    BY CountsAssumption DEF StatusLength
  <1>2. room \in Int /\ -2 <= room /\ 2 * (room + 1) <= UintRange /\ 6 <= UintRange
    BY <1>1
  <1> HIDE DEF room
  <1>3. Signed(Unsigned(room)) = room
    BY <1>1, <1>2 DEF Signed, Unsigned
  <1> QED BY <1>3 DEF MaxFrameLength, room

\* The steps of one reader, and what they leave to the others.
LEMMA ReadReader ==
  ASSUME TypeInv, TypeInv', DataInv, ReadInv, NEW r \in Readers,
         (\E n \in ReadCounts : Read(r, n)) \/ ReaderStep(r) \/ Interrupt(r)
  PROVE  ReadInv'
  <1>1. UNCHANGED << streaming, append_status, ppc >> /\ (disturbed => disturbed')
    <2>1. UNCHANGED << purgeVars, settingVars >>
      BY DEF Read, ReaderStep, DownReadSemaphore, CheckIncoming, CheckBlock,
             CheckAgain, LookIncoming, LookAgain, StreamRead, StreamCopyFails,
             TakeSize, TakeNothing, TrimStatus, CopyFrame, CopyFails, NextFrame,
             UpReadSemaphore, Interrupt
    <2>2. UNCHANGED ghostVars \/ disturbed'
      BY DEF Read, ReaderStep, DownReadSemaphore, CheckIncoming, CheckBlock,
             CheckAgain, LookIncoming, LookAgain, StreamRead, StreamCopyFails,
             TakeSize, TakeNothing, TrimStatus, CopyFrame, CopyFails,
             UpReadSemaphore, Interrupt
    <2> QED BY <2>1, <2>2 DEF purgeVars, settingVars, ghostVars
  <1>2. /\ rpc \in [Readers -> {"idle", "down", "check", "look", "asleep", "read",
                                "trim", "copy", "up"}]
        /\ rcount \in [Readers -> Nat]
        /\ taken \in [Readers -> SizeEntry \cup {NoFrame}]
        /\ take_length \in [Readers -> Nat]
        /\ out_length \in [Readers -> Nat]
        /\ copied \in [Readers -> Seq(Byte)]
        /\ istream \in Seq(Byte) /\ Len(istream) \in Nat
    BY LenProperties DEF TypeInv, TakeTypes, DataTypes
  <1>3. \A v \in Readers \ {r} :
          /\ rpc'[v] = rpc[v] /\ rcount'[v] = rcount[v] /\ taken'[v] = taken[v]
          /\ take_length'[v] = take_length[v] /\ out_length'[v] = out_length[v]
          /\ copied'[v] = copied[v]
    BY <1>2
       DEF Read, ReaderStep, DownReadSemaphore, CheckIncoming, CheckBlock,
           CheckAgain, LookIncoming, LookAgain, StreamRead, StreamCopyFails,
           TakeSize, TakeNothing, TrimStatus, CopyFrame, CopyFails, NextFrame,
           UpReadSemaphore, Interrupt, Return, takeVars
  <1>4. ASSUME NEW v \in Readers \ {r}, Inside(v)
        PROVE  read_semaphore' = v /\ istream' = istream
    <2>1. read_semaphore = v /\ v # Nobody /\ v # r
      BY <1>4, ActorsAssumption DEF ReadInv
    <2>2. ~Inside(r)
      BY <2>1 DEF ReadInv
    <2>3. UNCHANGED << read_semaphore, istream >>
      BY <2>1, <2>2
         DEF Inside, Read, ReaderStep, DownReadSemaphore, CheckIncoming, CheckBlock,
             CheckAgain, LookIncoming, LookAgain, StreamRead, StreamCopyFails,
             TakeSize, TakeNothing, TrimStatus, CopyFrame, CopyFails, NextFrame,
             UpReadSemaphore, Interrupt, dataVars
    <2> QED BY <2>1, <2>3
  <1>5. StatusLength' = StatusLength /\ StatusLength \in {0, 2}
    BY <1>1 DEF StatusLength
  \* The others.
  <1>6. ASSUME NEW v \in Readers \ {r}
        PROVE  /\ Inside(v)' => read_semaphore' = v
               /\ taken'[v] # NoFrame <=> Holding(v)'
               /\ Holding(v)' => ~streaming'
               /\ rpc'[v] \in {"idle", "down", "check", "look", "asleep"} => out_length'[v] = 0
               /\ ~disturbed' =>
                    /\ out_length'[v] = Len(copied'[v]) /\ out_length'[v] <= rcount'[v]
                    /\ Holding(v)' => /\ taken'[v].size <= Len(istream')
                                      /\ taken'[v].size <= MaxFrameLength(v)'
                    /\ rpc'[v] = "copy" => take_length'[v] = taken'[v].size - StatusLength'
    <2>1. (Inside(v)' <=> Inside(v)) /\ (Holding(v)' <=> Holding(v)) /\ (Holding(v) => Inside(v))
      BY <1>3 DEF Inside, Holding
    <2>2. MaxFrameLength(v)' = MaxFrameLength(v)
      BY <1>3, <1>5 DEF MaxFrameLength
    <2>3. ~disturbed' => ReadsKept
      BY <1>1 DEF ReadInv
    <2>4. /\ Inside(v)' => read_semaphore' = v
          /\ taken'[v] # NoFrame <=> Holding(v)'
          /\ Holding(v)' => ~streaming'
          /\ rpc'[v] \in {"idle", "down", "check", "look", "asleep"} => out_length'[v] = 0
      BY <1>1, <1>3, <1>4, <2>1 DEF ReadInv
    <2>5. ASSUME ~disturbed'
          PROVE  /\ out_length'[v] = Len(copied'[v]) /\ out_length'[v] <= rcount'[v]
                 /\ Holding(v)' => /\ taken'[v].size <= Len(istream')
                                   /\ taken'[v].size <= MaxFrameLength(v)'
                 /\ rpc'[v] = "copy" => take_length'[v] = taken'[v].size - StatusLength'
      BY <1>3, <1>4, <1>5, <2>1, <2>2, <2>3, <2>5 DEF ReadsKept
    <2> QED BY <2>4, <2>5
  \* The reader itself.
  <1> DEFINE Mine ==
               /\ Inside(r)' => read_semaphore' = r
               /\ taken'[r] # NoFrame <=> Holding(r)'
               /\ Holding(r)' => ~streaming'
               /\ rpc'[r] \in {"idle", "down", "check", "look", "asleep"} => out_length'[r] = 0
             Kept ==
               /\ out_length'[r] = Len(copied'[r]) /\ out_length'[r] <= rcount'[r]
               /\ Holding(r)' => /\ taken'[r].size <= Len(istream')
                                 /\ taken'[r].size <= MaxFrameLength(r)'
               /\ rpc'[r] = "copy" => take_length'[r] = taken'[r].size - StatusLength'
  <1>7. Mine
    <2> USE DEF Inside, Holding
    <2>1. /\ Inside(r) => read_semaphore = r
          /\ taken[r] # NoFrame <=> Holding(r)
          /\ Holding(r) => ~streaming
          /\ rpc[r] \in {"idle", "down", "check", "look", "asleep"} => out_length[r] = 0
      BY DEF ReadInv
    <2>2. CASE \/ \E n \in ReadCounts : Read(r, n)
               \/ DownReadSemaphore(r) \/ CheckIncoming(r) \/ CheckBlock(r)
               \/ LookIncoming(r) \/ LookAgain(r) \/ TakeNothing(r) \/ TrimStatus(r)
      BY <1>1, <1>2, <2>1, <2>2
         DEF Read, DownReadSemaphore, CheckIncoming, CheckBlock, LookIncoming, LookAgain,
             TakeNothing, TrimStatus, takeVars
    <2>3. CASE CheckAgain(r) \/ UpReadSemaphore(r) \/ Interrupt(r)
      BY <1>2, <2>3 DEF CheckAgain, UpReadSemaphore, Interrupt, Return
    <2>4. CASE StreamRead(r) \/ StreamCopyFails(r)
      BY <1>1, <1>2, <2>1, <2>4 DEF StreamRead, StreamCopyFails
    <2>5. CASE TakeSize(r)
      <3>1. Head(queued_iframes) \in SizeEntry
        BY <2>5, HeadTailProperties DEF TakeSize, CanTake, TypeInv, DataTypes
      <3>2. Head(queued_iframes) # NoFrame
        BY <3>1, ActorsAssumption DEF SizeEntry
      <3> QED BY <1>1, <1>2, <2>1, <2>5, <3>2 DEF TakeSize
    <2>6. CASE CopyFrame(r) \/ CopyFails(r)
      BY <1>1, <1>2, <2>1, <2>6 DEF CopyFrame, CopyFails, NextFrame
    <2> QED BY <2>2, <2>3, <2>4, <2>5, <2>6 DEF ReaderStep
  <1>8. ASSUME ~disturbed'
        PROVE  Kept
    <2>1. /\ ~disturbed
          /\ out_length[r] = Len(copied[r]) /\ out_length[r] <= rcount[r]
          /\ Holding(r) => /\ taken[r].size <= Len(istream)
                           /\ taken[r].size <= MaxFrameLength(r)
          /\ rpc[r] = "copy" => take_length[r] = taken[r].size - StatusLength
          /\ rpc[r] \in {"idle", "down", "check", "look", "asleep"} => out_length[r] = 0
      BY <1>1, <1>8 DEF ReadInv, ReadsKept
    <2>2. Len(copied[r]) \in Nat /\ out_length[r] \in Nat /\ rcount[r] \in Nat
      BY <1>2, LenProperties
    <2>3. CASE \/ \E n \in ReadCounts : Read(r, n)
               \/ DownReadSemaphore(r) \/ CheckIncoming(r) \/ CheckBlock(r)
               \/ LookIncoming(r) \/ LookAgain(r) \/ TakeNothing(r)
      <3>1. ~Holding(r)' /\ rpc'[r] # "copy"
        BY <1>2, <2>3 DEF Holding, Read, DownReadSemaphore, CheckIncoming, CheckBlock,
             LookIncoming, LookAgain, TakeNothing
      <3>2. out_length'[r] = out_length[r] /\ copied'[r] = copied[r]
        BY <2>3 DEF Read, DownReadSemaphore, CheckIncoming, CheckBlock,
             LookIncoming, LookAgain, TakeNothing, takeVars
      <3>3. out_length[r] <= rcount'[r]
        <4>1. CASE \E n \in ReadCounts : Read(r, n)
          BY <1>2, <2>1, <4>1, CountsAssumption DEF Read
        <4>2. CASE ~\E n \in ReadCounts : Read(r, n)
          BY <2>1, <2>3, <4>2 DEF DownReadSemaphore, CheckIncoming, CheckBlock,
             LookIncoming, LookAgain, TakeNothing, takeVars
        <4> QED BY <4>1, <4>2
      <3> QED BY <2>1, <3>1, <3>2, <3>3
    <2>4. CASE CheckAgain(r) \/ UpReadSemaphore(r) \/ Interrupt(r)
      <3>1. /\ rpc'[r] = "idle" /\ out_length'[r] = 0 /\ copied'[r] = << >> /\ rcount'[r] = 0
        BY <1>2, <2>4 DEF CheckAgain, UpReadSemaphore, Interrupt, Return
      <3>2. Len(<< >>) = 0
        BY EmptySeq
      <3> QED BY <3>1, <3>2 DEF Holding
    <2>5. CASE StreamRead(r)
      <3>1. Len(Leading(istream, rcount[r])) = Smaller(rcount[r], Len(istream))
        <4>1. Smaller(rcount[r], Len(istream)) \in 0..Len(istream)
          BY <1>2, <2>2 DEF Smaller
        <4>2. \A i \in 1..Smaller(rcount[r], Len(istream)) : istream[i] \in Byte
          BY <1>2, <4>1, ElementOfSeq
        <4>3. Len(SubSeq(istream, 1, Smaller(rcount[r], Len(istream))))
                = IF 1 <= Smaller(rcount[r], Len(istream))
                  THEN Smaller(rcount[r], Len(istream)) - 1 + 1 ELSE 0
          BY <4>1, <4>2, SubSeqProperties
        <4> QED BY <1>2, <4>1, <4>3 DEF Leading
      <3>2. /\ rpc'[r] = "up" /\ rcount'[r] = rcount[r]
            /\ out_length'[r] = Smaller(rcount[r], Len(istream))
            /\ copied'[r] = Leading(istream, rcount[r])
        BY <1>2, <2>5 DEF StreamRead
      <3>3. Smaller(rcount[r], Len(istream)) <= rcount[r]
        BY <1>2, <2>2 DEF Smaller
      <3> QED BY <3>1, <3>2, <3>3 DEF Holding
    <2>6. CASE StreamCopyFails(r) \/ CopyFails(r)
      BY <1>8, <2>6 DEF StreamCopyFails, CopyFails
    <2>7. CASE TakeSize(r)
      <3>1. /\ rpc'[r] = "trim" /\ taken'[r] = Head(queued_iframes)
            /\ UNCHANGED << rcount, out_length, copied, istream >>
            /\ CanTake(r)
        BY <1>2, <2>7 DEF TakeSize
      <3>2. MaxFrameLength(r)' = MaxFrameLength(r)
        BY <1>5, <3>1 DEF MaxFrameLength
      <3> QED BY <2>1, <3>1, <3>2 DEF CanTake
    <2>8. CASE TrimStatus(r)
      <3>1. /\ rpc[r] = "trim" /\ rpc'[r] = "copy"
            /\ UNCHANGED << rcount, taken, out_length, copied, istream >>
            /\ take_length'[r] = Unsigned(taken[r].size - StatusLength)
        BY <1>2, <2>8 DEF TrimStatus, dataVars
      <3>2. MaxFrameLength(r)' = MaxFrameLength(r)
        BY <1>5, <3>1 DEF MaxFrameLength
      <3>3. taken[r] \in LineEntry
        BY <2>1, <3>1 DEF DataInv, ReadInv, Holding
      <3>4. Unsigned(taken[r].size - StatusLength) = taken[r].size - StatusLength
        <4>1. taken[r].size \in Nat /\ 2 <= taken[r].size /\ taken[r].size < UintRange
          BY <3>3 DEF LineEntry
        <4> QED BY <1>5, <4>1, CountsAssumption DEF Unsigned
      <3> QED BY <1>5, <2>1, <3>1, <3>2, <3>4 DEF Holding
    <2>9. CASE CopyFrame(r)
      <3>1. /\ rpc[r] = "copy" /\ rpc'[r] \in {"read", "up"} /\ rcount'[r] = rcount[r]
            /\ out_length'[r] = Unsigned(out_length[r] + take_length[r])
            /\ copied'[r] = copied[r] \o Leading(istream, take_length[r])
        BY <1>2, <2>9 DEF CopyFrame, NextFrame
      <3>2. /\ taken[r] \in SizeEntry
            /\ taken[r].size <= Len(istream) /\ taken[r].size <= MaxFrameLength(r)
            /\ take_length[r] = taken[r].size - StatusLength
        BY <1>2, <2>1, <3>1 DEF ReadInv, Holding
      <3>3. taken[r].size \in Nat /\ take_length[r] \in Nat
        BY <1>2, <3>2 DEF SizeEntry
      <3>8. /\ MaxFrameLength(r) = (rcount[r] - out_length[r]) + StatusLength
            /\ 2 * (rcount[r] + 3) <= UintRange
        <4>1. 2 * (rcount[r] + 3) <= UintRange /\ out_length[r] <= rcount[r] + 2
          BY <2>1, <2>2 DEF TypeInv, TakeTypes
        <4> QED BY <2>2, <4>1, RoomIs
      <3>4. take_length[r] <= Len(istream) /\ take_length[r] <= rcount[r] - out_length[r]
        BY <1>2, <1>5, <2>2, <3>2, <3>3, <3>8
      <3>5. /\ Leading(istream, take_length[r]) \in Seq(Byte)
            /\ Len(Leading(istream, take_length[r])) = take_length[r]
        <4>1. Smaller(take_length[r], Len(istream)) = take_length[r]
          BY <1>2, <3>3, <3>4 DEF Smaller
        <4>2. \A i \in 1..take_length[r] : istream[i] \in Byte
          BY <1>2, <3>3, <3>4, ElementOfSeq
        <4>3. Len(SubSeq(istream, 1, take_length[r]))
                = IF 1 <= take_length[r] THEN take_length[r] - 1 + 1 ELSE 0
          BY <3>3, <4>2, SubSeqProperties
        <4>4. Leading(istream, take_length[r]) \in Seq(Byte)
          BY <1>2, <3>3, LeadingFacts
        <4> QED BY <3>3, <4>1, <4>3, <4>4 DEF Leading
      <3>6. Len(copied'[r]) = Len(copied[r]) + take_length[r]
        BY <1>2, <3>1, <3>5, ConcatProperties
      <3>7. out_length[r] + take_length[r] <= rcount[r]
        BY <2>2, <3>3, <3>4
      <3>9. out_length'[r] = out_length[r] + take_length[r]
        <4>1. UintRange \in Nat /\ out_length[r] + take_length[r] \in Nat
          BY <2>2, <3>3, CountsAssumption
        <4>2. out_length[r] + take_length[r] < UintRange
          BY <2>2, <3>7, <3>8, <4>1
        <4> QED BY <3>1, <4>1, <4>2 DEF Unsigned
      <3> QED BY <2>1, <3>1, <3>6, <3>7, <3>9 DEF Holding
    <2> QED BY <2>3, <2>4, <2>5, <2>6, <2>7, <2>8, <2>9 DEF ReaderStep
  <1> HIDE DEF Mine, Kept
  <1>9. ~disturbed' => \A p \in Purgers : ppc'[p] = "idle"
    BY <1>1 DEF ReadInv, ReadsKept
  <1>10. \A v \in Readers :
            /\ Inside(v)' => read_semaphore' = v
            /\ taken'[v] # NoFrame <=> Holding(v)'
            /\ Holding(v)' => ~streaming'
            /\ rpc'[v] \in {"idle", "down", "check", "look", "asleep"} => out_length'[v] = 0
    BY <1>6, <1>7 DEF Mine
  <1>11. ~disturbed' => ReadsKept'
    BY <1>6, <1>8, <1>9 DEF ReadsKept, Kept
  <1> QED BY <1>10, <1>11 DEF ReadInv

\* Every step keeps it: readers exclude each other, and whoever takes their bytes
\* away disturbs.
LEMMA ReadStep == TypeInv /\ DataInv /\ ReadInv /\ [Next]_vars => ReadInv'
  <1> SUFFICES ASSUME TypeInv, DataInv, ReadInv, [Next]_vars PROVE ReadInv'
    OBVIOUS
  <1>1. TypeInv' /\ istream \in Seq(Byte) /\ Len(istream) \in Nat
    BY TypeStep, LenProperties DEF TypeInv, DataTypes
  <1>2. CASE CallbackStep
    <2>1. UNCHANGED << read_semaphore, rpc, takeVars, streaming, append_status, ppc >>
      BY <1>2, CallbackLeaves DEF settingVars, purgeVars
    <2>2. Len(istream') >= Len(istream) /\ (disturbed => disturbed')
      <3>1. CASE CallbackAdd
        <4>1. Head(completed) \in Seq(Byte) /\ Len(Head(completed)) \in Nat
          BY <3>1, HeadTailProperties, LenProperties DEF CallbackAdd, TypeInv, UrbTypes
        <4>2. Len(istream') = Len(istream) + Len(Head(completed))
          BY <1>1, <3>1, <4>1, ConcatProperties DEF CallbackAdd
        <4> QED BY <1>1, <3>1, <4>1, <4>2 DEF CallbackAdd, ghostVars
      <3>2. CASE ~CallbackAdd
        <4>1. istream' = istream
          BY <1>2, <3>2
             DEF CallbackStep, CallbackReadUsage, CallbackTakesAll, CallbackTest,
                 CallbackDiscard, CallbackAddFails, CallbackNotify, dataVars
        <4>2. disturbed => disturbed'
          BY <1>2, CallbackLeaves
        <4> QED BY <1>1, <4>1, <4>2
      <3> QED BY <3>1, <3>2
    <2> QED BY <1>1, <2>1, <2>2, ReadElsewhere DEF takeVars
  <1>7. CASE WorkerStep
    <2>1. /\ UNCHANGED << read_semaphore, rpc, takeVars, streaming, append_status, ppc,
                          istream >>
          /\ disturbed => disturbed'
      BY <1>7, WorkerLeaves DEF settingVars, purgeVars
    <2>2. Len(istream') >= Len(istream)
      BY <1>1, <2>1
    <2> QED BY <1>1, <2>1, <2>2, ReadElsewhere DEF takeVars
  <1>3. CASE (\E n \in FrameSizes : LineReceives(n)) \/ FillUrb
               \/ UrbFails \/ SetRxMultiple \/ (\E c \in Caps : SetMemoryCap(c))
               \/ UNCHANGED vars
    <2>1. UNCHANGED << read_semaphore, rpc, takeVars, streaming, append_status, ppc,
                       istream, disturbed >>
      BY <1>3 DEF LineReceives, FillUrb, UrbFails, SetRxMultiple,
                  SetMemoryCap, vars, readVars, settingVars, purgeVars, dataVars, ghostVars
    <2>2. Len(istream') >= Len(istream)
      BY <1>1, <2>1
    <2> QED BY <1>1, <2>1, <2>2, ReadElsewhere DEF takeVars
  <1>4. CASE SetAppendStatus
    <2>1. UNCHANGED << read_semaphore, rpc, takeVars, streaming >> /\ disturbed'
      BY <1>4 DEF SetAppendStatus, readVars
    <2> QED BY <1>1, <2>1, ReadElsewhere DEF takeVars
  <1>5. ASSUME NEW p \in Purgers, Purge(p) \/ PurgeStep(p)
        PROVE  ReadInv'
    <2>1. UNCHANGED << read_semaphore, rpc, rcount, taken, take_length, out_length, copied,
                       streaming >>
      BY <1>5 DEF Purge, PurgeStep, ExecuteRRES, ClearQueued, ClearStream, readVars,
                  takeVars, settingVars
    <2>2. disturbed'
      <3>1. CASE Purge(p)
        BY <3>1 DEF Purge
      <3>2. CASE PurgeStep(p)
        <4>1. ppc[p] # "idle" /\ disturbed' = disturbed
          BY <3>2 DEF PurgeStep, ExecuteRRES, ClearQueued, ClearStream, ghostVars
        <4> QED BY <4>1 DEF ReadInv, ReadsKept
      <3> QED BY <1>5, <3>1, <3>2
    <2> QED BY <1>1, <2>1, <2>2, ReadElsewhere
  <1>6. ASSUME NEW q \in Pollers, Poll(q) \/ PollerStep(q) \/ PollEnds(q)
        PROVE  ReadInv'
    <2>1. UNCHANGED << read_semaphore, rpc, takeVars, streaming, append_status, ppc,
                       istream, disturbed >>
      BY <1>6 DEF Poll, PollerStep, PollDown, PollDownInterrupted, PollWait, PollTest,
                  PollAgain, PollEnds, readVars, settingVars, purgeVars, dataVars, ghostVars
    <2>2. Len(istream') >= Len(istream)
      BY <1>1, <2>1
    <2> QED BY <1>1, <2>1, <2>2, ReadElsewhere DEF takeVars
  <1> QED BY <1>1, <1>2, <1>3, <1>4, <1>5, <1>6, <1>7, ReadReader DEF Next

\* Nobody reads at first.
LEMMA ReadInit == Init => ReadInv
  <1> SUFFICES ASSUME Init PROVE ReadInv
    OBVIOUS
  <1>1. Len(<< >>) = 0
    BY EmptySeq
  <1> QED BY <1>1 DEF Init, ReadInv, ReadsKept, Inside, Holding

\* What a read returns is what it copied, and no more than was asked for.
THEOREM ReadCountsAreExact == Spec => []ReadCountExact
  <1>1. ReadInv => ReadCountExact
    BY DEF ReadInv, ReadsKept, ReadCountExact
  <1> QED BY <1>1, ReadInit, ReadStep, DataInit, DataStep, TypeInit, TypeStep, PTL DEF Spec

-----------------------------------------------------------------------------
(* What -ENOBUFS means                                                     *)

\* A reader that is going to read, has nothing yet and was not purged still finds
\* the frame it was let in for; and until it takes a frame of status bytes alone
\* what it copies fits the buffer, but for the status bytes of an append_status
\* that was taken back.
Finds(r) ==
  rpc[r] = "read" /\ ~streaming /\ out_length[r] = 0 =>
     queued_iframes # << >> /\ Head(queued_iframes).size <= Len(istream)
Room(r) == (rcount[r] - out_length[r]) + 2
Roomy(r) ==
  /\ Room(r) >= 0
  /\ rpc[r] = "trim" => taken[r].size <= Room(r)
  /\ rpc[r] = "copy" /\ taken[r].size > 2 => take_length[r] \in 1..Room(r)

EmptyInv == \A r \in Readers : since[r] = {} => Finds(r) /\ Roomy(r)

\* A step of somebody else, who adds bytes or sizes or is noted.
LEMMA EmptyKept ==
  ASSUME TypeInv, TypeInv', NEW r \in Readers, Finds(r), Roomy(r),
         rpc'[r] = rpc[r], rcount'[r] = rcount[r], out_length'[r] = out_length[r],
         taken'[r] = taken[r], take_length'[r] = take_length[r], streaming' = streaming,
         rpc[r] = "read" =>
            /\ Len(istream') >= Len(istream)
            /\ queued_iframes' = queued_iframes
                 \/ \E entry \in SizeEntry : queued_iframes' = Append(queued_iframes, entry)
  PROVE  Finds(r)' /\ Roomy(r)'
  <1>1. /\ Len(istream) \in Nat /\ Len(istream') \in Nat
        /\ queued_iframes \in Seq(SizeEntry)
    BY LenProperties DEF TypeInv, DataTypes
  <1>2. ASSUME rpc[r] = "read", queued_iframes # << >>
        PROVE  /\ queued_iframes' # << >> /\ Head(queued_iframes') = Head(queued_iframes)
               /\ Head(queued_iframes).size \in Nat
    <2>1. Head(queued_iframes) \in SizeEntry
      BY <1>1, <1>2, HeadTailProperties
    <2>2. ASSUME NEW entry \in SizeEntry, queued_iframes' = Append(queued_iframes, entry)
          PROVE  queued_iframes' # << >> /\ Head(queued_iframes') = Head(queued_iframes)
      BY <1>1, <1>2, <2>2, AppendProperties, HeadTailAppend
    <2> QED BY <1>2, <2>1, <2>2 DEF SizeEntry
  <1>3. Finds(r)'
    BY <1>1, <1>2 DEF Finds
  <1>4. Roomy(r)'
    BY DEF Roomy, Room
  <1> QED BY <1>3, <1>4

\* The steps of a reader.
LEMMA EmptyReader ==
  ASSUME TypeInv, TypeInv', ReadInv, ReadInv', EmptyInv, NEW r \in Readers,
         (\E n \in ReadCounts : Read(r, n)) \/ ReaderStep(r) \/ Interrupt(r)
  PROVE  EmptyInv'
  <1>1. streaming' = streaming
    BY DEF Read, ReaderStep, DownReadSemaphore, CheckIncoming, CheckBlock,
           CheckAgain, LookIncoming, LookAgain, StreamRead, StreamCopyFails,
           TakeSize, TakeNothing, TrimStatus, CopyFrame, CopyFails, NextFrame,
           UpReadSemaphore, Interrupt, settingVars
  <1>2. /\ rpc \in [Readers -> {"idle", "down", "check", "look", "asleep", "read",
                                "trim", "copy", "up"}]
        /\ rcount \in [Readers -> Nat]
        /\ taken \in [Readers -> SizeEntry \cup {NoFrame}]
        /\ take_length \in [Readers -> Nat]
        /\ out_length \in [Readers -> Nat]
        /\ since \in [Readers -> SUBSET {"purge", "bare"}]
        /\ istream \in Seq(Byte) /\ Len(istream) \in Nat
        /\ queued_iframes \in Seq(SizeEntry)
    BY LenProperties DEF TypeInv, TakeTypes, DataTypes
  <1>3. ASSUME NEW v \in Readers \ {r}, since'[v] = {}
        PROVE  Finds(v)' /\ Roomy(v)'
    <2>1. /\ rpc'[v] = rpc[v] /\ rcount'[v] = rcount[v] /\ out_length'[v] = out_length[v]
          /\ taken'[v] = taken[v] /\ take_length'[v] = take_length[v]
          /\ since'[v] = since[v]
      BY <1>2
         DEF Read, ReaderStep, DownReadSemaphore, CheckIncoming, CheckBlock,
             CheckAgain, LookIncoming, LookAgain, StreamRead, StreamCopyFails,
             TakeSize, TakeNothing, TrimStatus, CopyFrame, CopyFails, NextFrame,
             UpReadSemaphore, Interrupt, Return, takeVars
    <2>2. ASSUME rpc[v] = "read"
          PROVE  UNCHANGED dataVars
      <3>1. ~Inside(r)
        BY <2>2 DEF ReadInv, Inside
      <3> QED BY <3>1
         DEF Inside, Read, ReaderStep, DownReadSemaphore, CheckIncoming, CheckBlock,
             CheckAgain, LookIncoming, LookAgain, StreamRead, StreamCopyFails,
             TakeSize, TakeNothing, TrimStatus, CopyFrame, CopyFails, NextFrame,
             UpReadSemaphore, Interrupt
    <2>3. rpc[v] = "read" => Len(istream') >= Len(istream) /\ queued_iframes' = queued_iframes
      BY <1>2, <2>2 DEF dataVars
    <2>4. Finds(v) /\ Roomy(v)
      BY <1>3, <2>1 DEF EmptyInv
    <2> QED BY <1>1, <2>1, <2>3, <2>4, EmptyKept
  <1>4. ASSUME since'[r] = {}
        PROVE  Finds(r)' /\ Roomy(r)'
    <2> DEFINE size == taken[r].size
    <2>1. /\ out_length[r] \in Nat /\ rcount[r] \in Nat /\ take_length[r] \in Nat
          /\ 2 * (rcount[r] + 3) <= UintRange /\ UintRange \in Nat
          /\ StatusLength \in {0, 2}
      BY <1>2, CountsAssumption DEF TypeInv, TakeTypes, StatusLength
    <2>2. since[r] = {} => Finds(r) /\ Roomy(r)
      BY DEF EmptyInv
    <2>3. Holding(r) => taken[r] \in SizeEntry /\ size \in Nat
      <3>1. Holding(r) => taken[r] \in SizeEntry
        BY <1>2 DEF ReadInv
      <3> QED BY <3>1 DEF SizeEntry
    <2> HIDE DEF size
    <2>4. CASE \/ \E n \in ReadCounts : Read(r, n)
               \/ DownReadSemaphore(r) \/ CheckBlock(r) \/ CheckAgain(r)
               \/ LookIncoming(r) \/ LookAgain(r) \/ UpReadSemaphore(r) \/ Interrupt(r)
      <3>1. rpc'[r] \in {"idle", "down", "check", "look", "asleep"}
        BY <1>2, <2>4 DEF Read, DownReadSemaphore, CheckBlock, CheckAgain, LookIncoming,
                          LookAgain, UpReadSemaphore, Interrupt, Return
      <3>2. out_length'[r] = 0 /\ rcount'[r] \in Nat
        BY <3>1 DEF ReadInv, TypeInv, TakeTypes
      <3> QED BY <3>1, <3>2 DEF Finds, Roomy, Room
    <2>5. CASE CheckIncoming(r)
      <3>1. /\ rpc[r] = "check" /\ rpc'[r] = "read" /\ HasIncomingData
            /\ UNCHANGED << rcount, out_length, dataVars >>
        BY <1>2, <2>5 DEF CheckIncoming, takeVars
      <3>2. out_length[r] = 0
        BY <3>1 DEF ReadInv
      <3>3. Finds(r)'
        BY <1>1, <3>1 DEF Finds, HasIncomingData, dataVars
      <3>4. Roomy(r)'
        BY <2>1, <3>1, <3>2 DEF Roomy, Room
      <3> QED BY <3>3, <3>4
    <2>6. CASE StreamRead(r) \/ StreamCopyFails(r)
      <3>1. /\ rpc'[r] = "up" /\ rcount'[r] = rcount[r]
            /\ out_length'[r] = Smaller(rcount[r], Len(istream))
        BY <1>2, <2>6 DEF StreamRead, StreamCopyFails
      <3>2. Smaller(rcount[r], Len(istream)) <= rcount[r]
        BY <1>2, <2>1 DEF Smaller
      <3>3. Smaller(rcount[r], Len(istream)) \in Nat
        BY <1>2, <2>1 DEF Smaller
      <3> QED BY <2>1, <3>1, <3>2, <3>3 DEF Finds, Roomy, Room
    <2>7. CASE TakeSize(r)
      <3>1. /\ rpc[r] = "read" /\ rpc'[r] = "trim" /\ taken'[r] = Head(queued_iframes)
            /\ UNCHANGED << rcount, out_length, since >> /\ CanTake(r)
        BY <1>2, <2>7 DEF TakeSize
      <3>2. Room(r) \in Nat
        BY <1>4, <2>1, <2>2, <3>1 DEF Roomy, Room
      <3>3. MaxFrameLength(r) = (rcount[r] - out_length[r]) + StatusLength
        <4>1. out_length[r] <= rcount[r] + 2
          BY <2>1, <3>2 DEF Room
        <4> QED BY <2>1, <4>1, RoomIs
      <3>4. Head(queued_iframes).size \in Nat
        <4>1. Head(queued_iframes) \in SizeEntry
          BY <1>2, <3>1, HeadTailProperties DEF CanTake
        <4> QED BY <4>1 DEF SizeEntry
      <3>5. Head(queued_iframes).size <= Room(r)
        BY <2>1, <3>1, <3>3, <3>4 DEF CanTake, Room
      <3> QED BY <3>1, <3>2, <3>5 DEF Finds, Roomy, Room
    <2>8. CASE TakeNothing(r)
      <3>1. rpc'[r] = "up" /\ UNCHANGED << rcount, out_length, since >>
        BY <1>2, <2>8 DEF TakeNothing, takeVars
      <3> QED BY <1>4, <2>2, <3>1 DEF Finds, Roomy, Room
    <2>9. CASE TrimStatus(r)
      <3>1. /\ rpc[r] = "trim" /\ rpc'[r] = "copy"
            /\ UNCHANGED << rcount, out_length, taken, since >>
            /\ take_length'[r] = Unsigned(size - StatusLength)
        BY <1>2, <2>9 DEF TrimStatus, size
      <3>2. Room(r) \in Nat /\ size <= Room(r) /\ size \in Nat
        BY <1>4, <2>1, <2>2, <2>3, <3>1 DEF Roomy, Room, Holding, size
      <3>3. ASSUME size > 2
            PROVE  take_length'[r] \in 1..Room(r)
        <4>1. size - StatusLength \in 1..size
          BY <2>1, <3>2, <3>3
        <4>2. size < UintRange
          BY <2>1, <3>2 DEF Room
        <4>3. Unsigned(size - StatusLength) = size - StatusLength
          BY <2>1, <3>2, <4>1, <4>2 DEF Unsigned
        <4> QED BY <2>1, <3>1, <3>2, <4>1, <4>3
      <3> QED BY <3>1, <3>2, <3>3 DEF Finds, Roomy, Room, size
    <2>10. CASE CopyFrame(r) \/ CopyFails(r)
      <3>1. /\ rpc[r] = "copy" /\ rpc'[r] \in {"read", "up"} /\ rcount'[r] = rcount[r]
            /\ out_length'[r] = Unsigned(out_length[r] + take_length[r])
            /\ since'[r] = IF size <= 2 THEN since[r] \cup {"bare"} ELSE since[r]
        BY <1>2, <2>10 DEF CopyFrame, CopyFails, NextFrame, size
      <3>2. size > 2 /\ since[r] = {} /\ size \in Nat
        BY <1>4, <2>3, <3>1 DEF Holding
      <3>3. Room(r) >= 0 /\ take_length[r] \in 1..Room(r)
        BY <2>2, <3>1, <3>2 DEF Roomy, size
      <3>4. out_length'[r] = out_length[r] + take_length[r]
        BY <2>1, <3>1, <3>3 DEF Unsigned, Room
      <3>5. Finds(r)'
        BY <2>1, <3>3, <3>4 DEF Finds
      <3>6. Roomy(r)'
        BY <2>1, <3>1, <3>3, <3>4 DEF Roomy, Room
      <3> QED BY <3>5, <3>6
    <2> QED BY <2>4, <2>5, <2>6, <2>7, <2>8, <2>9, <2>10 DEF ReaderStep
  <1> QED BY <1>3, <1>4 DEF EmptyInv

\* Nobody else takes away what a reader has found, except a purge, which is noted.
LEMMA EmptyStep == TypeInv /\ ReadInv /\ ReadInv' /\ EmptyInv /\ [Next]_vars => EmptyInv'
  <1> SUFFICES ASSUME TypeInv, ReadInv, ReadInv', EmptyInv, [Next]_vars PROVE EmptyInv'
    OBVIOUS
  <1>1. /\ TypeInv' /\ istream \in Seq(Byte) /\ Len(istream) \in Nat
        /\ since \in [Readers -> SUBSET {"purge", "bare"}]
    BY TypeStep, LenProperties DEF TypeInv, DataTypes, TakeTypes
  <1>2. ASSUME UNCHANGED << rpc, rcount, taken, take_length, out_length, streaming >>,
               \A r \in Readers : since'[r] = {} =>
                 /\ since[r] = {}
                 /\ rpc[r] = "read" =>
                      /\ Len(istream') >= Len(istream)
                      /\ queued_iframes' = queued_iframes
                           \/ \E entry \in SizeEntry :
                                 queued_iframes' = Append(queued_iframes, entry)
        PROVE  EmptyInv'
    <2> SUFFICES ASSUME NEW r \in Readers, since'[r] = {} PROVE Finds(r)' /\ Roomy(r)'
      BY DEF EmptyInv
    <2>1. Finds(r) /\ Roomy(r)
      BY <1>2 DEF EmptyInv
    <2> QED BY <1>1, <1>2, <2>1, EmptyKept
  <1>3. CASE CallbackStep
    <2>1. UNCHANGED << rpc, takeVars, streaming, queued_iframes >>
      BY <1>3, CallbackLeaves DEF settingVars
    <2>2. Len(istream') >= Len(istream)
      <3>1. CASE CallbackAdd
        <4>1. Head(completed) \in Seq(Byte) /\ Len(Head(completed)) \in Nat
          BY <3>1, HeadTailProperties, LenProperties DEF CallbackAdd, TypeInv, UrbTypes
        <4>2. Len(istream') = Len(istream) + Len(Head(completed))
          BY <1>1, <3>1, <4>1, ConcatProperties DEF CallbackAdd
        <4> QED BY <1>1, <4>1, <4>2
      <3>2. CASE ~CallbackAdd
        <4>1. istream' = istream
          BY <1>3, <3>2
             DEF CallbackStep, CallbackReadUsage, CallbackTakesAll, CallbackTest,
                 CallbackDiscard, CallbackAddFails, CallbackNotify, dataVars
        <4> QED BY <1>1, <4>1
      <3> QED BY <3>1, <3>2
    <2> QED BY <1>2, <2>1, <2>2 DEF takeVars
  <1>4. CASE WorkerStep
    <2>1. UNCHANGED << rpc, takeVars, streaming, istream >>
      BY <1>4, WorkerLeaves DEF settingVars
    <2>2. \/ queued_iframes' = queued_iframes
          \/ \E entry \in SizeEntry : queued_iframes' = Append(queued_iframes, entry)
      <3>1. CASE WorkerFetches
        <4>1. Head(bcfifo) \in SizeEntry
          BY <3>1, HeadTailProperties DEF WorkerFetches, TypeInv, CardTypes
        <4> QED BY <3>1, <4>1 DEF WorkerFetches
      <3>2. CASE WorkerFetchesLeftover
        <4>1. PICK n \in LeftoverSizes :
                queued_iframes' = Append(queued_iframes, [number |-> 0, size |-> n])
          BY <3>2 DEF WorkerFetchesLeftover
        <4>2. [number |-> 0, size |-> n] \in SizeEntry
          BY LeftoversAssumption DEF SizeEntry
        <4> QED BY <4>1, <4>2
      <3>3. CASE ~WorkerFetches /\ ~WorkerFetchesLeftover
        BY <1>4, <3>3
           DEF WorkerStep, WorkerBegins, WorkerCounts, WorkerMiscounts, WorkerTakesCount,
               WorkerOops, WorkerUnlocks, WorkerWakes, dataVars
      <3> QED BY <3>1, <3>2, <3>3
    <2> QED BY <1>1, <1>2, <2>1, <2>2 DEF takeVars
  <1>5. CASE \/ \E n \in FrameSizes : LineReceives(n)
             \/ FillUrb \/ UrbFails \/ SetAppendStatus \/ SetRxMultiple
             \/ (\E c \in Caps : SetMemoryCap(c)) \/ UNCHANGED vars
    <2>1. UNCHANGED << rpc, takeVars, streaming, dataVars >>
      BY <1>5 DEF LineReceives, FillUrb, UrbFails, SetAppendStatus, SetRxMultiple,
                  SetMemoryCap, vars, readVars, settingVars
    <2> QED BY <1>1, <1>2, <2>1 DEF takeVars, dataVars
  <1>6. ASSUME NEW p \in Purgers, Purge(p) \/ PurgeStep(p)
        PROVE  EmptyInv'
    <2>1. UNCHANGED << rpc, rcount, taken, take_length, out_length, streaming >>
      BY <1>6 DEF Purge, PurgeStep, ExecuteRRES, ClearQueued, ClearStream, readVars,
                  takeVars, settingVars
    <2>2. CASE Purge(p) \/ ExecuteRRES(p)
      <3>1. UNCHANGED << since, dataVars >>
        BY <2>2 DEF Purge, ExecuteRRES, readVars, takeVars
      <3> QED BY <1>1, <1>2, <2>1, <3>1 DEF dataVars
    <2>3. CASE ClearQueued(p) \/ ClearStream(p)
      <3>1. PurgedWhileReading
        BY <2>3 DEF ClearQueued, ClearStream
      <3>2. \A r \in Readers : since'[r] = {} => since[r] = {} /\ rpc[r] # "read"
        BY <1>1, <3>1 DEF PurgedWhileReading
      <3> QED BY <1>2, <2>1, <3>2
    <2> QED BY <1>6, <2>2, <2>3 DEF PurgeStep
  <1>7. ASSUME NEW q \in Pollers, Poll(q) \/ PollerStep(q) \/ PollEnds(q)
        PROVE  EmptyInv'
    <2>1. UNCHANGED << rpc, takeVars, streaming, dataVars >>
      BY <1>7 DEF Poll, PollerStep, PollDown, PollDownInterrupted, PollWait, PollTest,
                  PollAgain, PollEnds, readVars, settingVars
    <2> QED BY <1>1, <1>2, <2>1 DEF takeVars, dataVars
  <1> QED BY <1>1, <1>3, <1>4, <1>5, <1>6, <1>7, EmptyReader DEF Next

\* Nobody reads at first.
LEMMA EmptyInit == Init => EmptyInv
  <1> SUFFICES ASSUME Init, NEW r \in Readers PROVE Finds(r) /\ Roomy(r)
    BY DEF EmptyInv
  <1> QED BY DEF Init, Finds, Roomy, Room

\* A read that leaves with nothing has been purged, or took a frame of status bytes
\* alone, or the oldest size is more than its buffer takes.
LEMMA EmptyLeaves ==
  ASSUME TypeInv, ReadInv, EmptyInv, EmptyInv', [Next]_vars,
         NEW r \in Readers, ReturnsEnobufs(r), since'[r] = {}
  PROVE  queued_iframes # << >> /\ Head(queued_iframes).size > MaxFrameLength(r)
  <1>1. /\ rpc \in [Readers -> {"idle", "down", "check", "look", "asleep", "read",
                                "trim", "copy", "up"}]
        /\ rcount[r] \in Nat /\ out_length[r] \in Nat /\ take_length[r] \in Nat
        /\ taken \in [Readers -> SizeEntry \cup {NoFrame}]
        /\ since \in [Readers -> SUBSET {"purge", "bare"}]
        /\ 2 * (rcount[r] + 3) <= UintRange /\ UintRange \in Nat
        /\ StatusLength \in {0, 2}
        /\ queued_iframes \in Seq(SizeEntry) /\ Len(istream) \in Nat
    BY CountsAssumption, LenProperties DEF TypeInv, TakeTypes, DataTypes, StatusLength
  <1>6. /\ rcount[r] \in Nat /\ out_length[r] \in Nat /\ take_length[r] \in Nat
        /\ 2 * (rcount[r] + 3) <= UintRange /\ UintRange \in Nat /\ StatusLength \in {0, 2}
    BY <1>1
  <1>2. ~streaming /\ rpc[r] # "up" /\ rpc'[r] = "up" /\ out_length'[r] = 0
    BY DEF ReturnsEnobufs
  <1>3. TakeNothing(r) \/ CopyFrame(r) \/ CopyFails(r)
    <2>1. \E v \in Readers :
             (\E n \in ReadCounts : Read(v, n)) \/ ReaderStep(v) \/ Interrupt(v)
      <3>1. rpc' # rpc
        BY <1>2
      <3>2. ~CallbackStep /\ ~WorkerStep
        BY <3>1, CallbackLeaves, WorkerLeaves
      <3>3. /\ ~\E n \in FrameSizes : LineReceives(n)
            /\ ~FillUrb /\ ~UrbFails /\ ~SetAppendStatus /\ ~SetRxMultiple
            /\ ~(\E c \in Caps : SetMemoryCap(c)) /\ ~UNCHANGED vars
        BY <3>1 DEF LineReceives, FillUrb, UrbFails, SetAppendStatus, SetRxMultiple,
                    SetMemoryCap, vars, readVars
      <3>4. /\ ~\E p \in Purgers : Purge(p) \/ PurgeStep(p)
            /\ ~\E q \in Pollers : Poll(q) \/ PollerStep(q) \/ PollEnds(q)
        BY <3>1 DEF Purge, PurgeStep, ExecuteRRES, ClearQueued, ClearStream,
                    Poll, PollerStep, PollDown, PollDownInterrupted, PollWait, PollTest,
                    PollAgain, PollEnds, readVars
      <3> QED BY <3>2, <3>3, <3>4 DEF Next
    <2>2. PICK v \in Readers :
             (\E n \in ReadCounts : Read(v, n)) \/ ReaderStep(v) \/ Interrupt(v)
      BY <2>1
    <2>3. TakeNothing(v) \/ CopyFrame(v) \/ CopyFails(v)
      BY <1>1, <1>2, <2>2
         DEF Read, ReaderStep, DownReadSemaphore, CheckIncoming, CheckBlock,
             CheckAgain, LookIncoming, LookAgain, StreamRead, StreamCopyFails,
             TakeSize, TrimStatus, UpReadSemaphore, Interrupt, Return
    <2>4. v = r
      BY <1>1, <1>2, <2>3 DEF TakeNothing, CopyFrame, CopyFails, NextFrame
    <2> QED BY <2>3, <2>4
  <1>4. CASE TakeNothing(r)
    <2>1. rpc[r] = "read" /\ ~CanTake(r) /\ since[r] = {} /\ out_length[r] = 0
      BY <1>2, <1>4 DEF TakeNothing, takeVars
    <2>2. queued_iframes # << >> /\ Head(queued_iframes).size <= Len(istream)
      BY <1>2, <2>1 DEF EmptyInv, Finds
    <2>3. MaxFrameLength(r) = rcount[r] + StatusLength
      <3>1. out_length[r] <= rcount[r] + 2
        BY <1>6, <2>1
      <3>2. MaxFrameLength(r) = (rcount[r] - out_length[r]) + StatusLength
        BY <1>6, <3>1, RoomIs
      <3> QED BY <1>6, <2>1, <3>2
    <2>4. Head(queued_iframes).size \in Nat
      <3>1. Head(queued_iframes) \in SizeEntry
        BY <1>1, <2>2, HeadTailProperties
      <3> QED BY <3>1 DEF SizeEntry
    <2> QED BY <1>1, <2>1, <2>2, <2>3, <2>4 DEF CanTake
  <1>5. CASE CopyFrame(r) \/ CopyFails(r)
    <2>1. /\ rpc[r] = "copy" /\ out_length'[r] = Unsigned(out_length[r] + take_length[r])
          /\ since'[r] = IF taken[r].size <= 2 THEN since[r] \cup {"bare"} ELSE since[r]
      <3>1. out_length \in [Readers -> Nat] /\ since \in [Readers -> SUBSET {"purge", "bare"}]
        BY DEF TypeInv, TakeTypes
      <3>2. NextFrame(r)
        BY <1>5 DEF CopyFrame, CopyFails
      <3> QED BY <3>1, <3>2 DEF NextFrame
    <2>2. taken[r].size \in Nat
      <3>1. taken[r] \in SizeEntry
        BY <1>1, <2>1 DEF ReadInv, Holding
      <3> QED BY <3>1 DEF SizeEntry
    <2>3. taken[r].size > 2 /\ since[r] = {}
      <3>1. ~(taken[r].size <= 2)
        BY <2>1
      <3> QED BY <2>1, <2>2, <3>1
    <2>4. Room(r) >= 0 /\ take_length[r] \in 1..Room(r)
      BY <2>1, <2>3 DEF EmptyInv, Roomy
    <2>5. out_length'[r] = out_length[r] + take_length[r]
      BY <1>6, <2>1, <2>4 DEF Unsigned, Room
    <2> QED BY <1>2, <1>6, <2>4, <2>5
  <1> QED BY <1>3, <1>4, <1>5

\* -ENOBUFS has three causes, whatever is toggled, purged or fails meanwhile: a next
\* frame that is larger than the buffer, a purge since the reader was let in, and a
\* frame of nothing but its status bytes.
THEOREM EnobufsIsExplained == Spec => EnobufsExplained
  <1>1. ASSUME TypeInv, ReadInv, EmptyInv, EmptyInv', [Next]_vars
        PROVE  [\A r \in Readers : ReturnsEnobufs(r) =>
                  \/ since'[r] # {}
                  \/ queued_iframes # << >>
                       /\ Head(queued_iframes).size > MaxFrameLength(r)]_vars
    BY <1>1, EmptyLeaves
  <1> QED BY <1>1, EmptyInit, EmptyStep, ReadInit, ReadStep, DataInit, DataStep, TypeInit,
             TypeStep, PTL DEF Spec, EnobufsExplained
-----------------------------------------------------------------------------
(* Bytes and sizes                                                         *)

\* A sequence can be cut anywhere, and read from the front in one or two goes.
LEMMA CutAnywhere ==
  ASSUME NEW S, NEW s \in Seq(S), NEW n \in Nat
  PROVE  /\ Leading(s, n) \in Seq(S) /\ Removed(s, n) \in Seq(S)
         /\ Leading(s, n) \o Removed(s, n) = s
         /\ n <= Len(s) => /\ Len(Leading(s, n)) = n
                           /\ Len(Removed(s, n)) = Len(s) - n
                           /\ \A i \in 1..n : Leading(s, n)[i] = s[i]
                           /\ \A i \in 1..(Len(s) - n) : Removed(s, n)[i] = s[i + n]
  <1>1. Len(s) \in Nat /\ \A i \in 1..Len(s) : s[i] \in S
    BY ElementOfSeq, LenProperties
  <1> DEFINE k == Smaller(n, Len(s))
  <1>2. k \in 0..Len(s) /\ (n <= Len(s) => k = n)
    BY <1>1 DEF Smaller
  <1>3. /\ Leading(s, n) = SubSeq(s, 1, k)
        /\ Removed(s, n) = SubSeq(s, k + 1, Len(s))
    BY DEF Leading, Removed
  <1> HIDE DEF k
  <1>4. /\ SubSeq(s, 1, k) \in Seq(S)
        /\ Len(SubSeq(s, 1, k)) = k
        /\ \A i \in 1..k : SubSeq(s, 1, k)[i] = s[i]
    <2>1. \A i \in 1..k : s[i] \in S
      BY <1>1, <1>2
    <2>2. /\ SubSeq(s, 1, k) \in Seq(S)
          /\ Len(SubSeq(s, 1, k)) = IF 1 <= k THEN k - 1 + 1 ELSE 0
          /\ \A i \in 1..(k - 1 + 1) : SubSeq(s, 1, k)[i] = s[1 + i - 1]
      BY <1>2, <2>1, SubSeqProperties
    <2>3. \A i \in 1..k : 1 + i - 1 = i /\ i \in 1..(k - 1 + 1)
      BY <1>2
    <2> QED BY <1>2, <2>2, <2>3
  <1>5. /\ SubSeq(s, k + 1, Len(s)) \in Seq(S)
        /\ Len(SubSeq(s, k + 1, Len(s))) = Len(s) - k
        /\ \A i \in 1..(Len(s) - k) : SubSeq(s, k + 1, Len(s))[i] = s[i + k]
    <2>1. \A i \in (k + 1)..Len(s) : s[i] \in S
      BY <1>1, <1>2
    <2>2. /\ SubSeq(s, k + 1, Len(s)) \in Seq(S)
          /\ Len(SubSeq(s, k + 1, Len(s))) =
               IF k + 1 <= Len(s) THEN Len(s) - (k + 1) + 1 ELSE 0
          /\ \A i \in 1..(Len(s) - (k + 1) + 1) :
                SubSeq(s, k + 1, Len(s))[i] = s[(k + 1) + i - 1]
      BY <1>1, <1>2, <2>1, SubSeqProperties
    <2>3. \A i \in 1..(Len(s) - k) :
             (k + 1) + i - 1 = i + k /\ i \in 1..(Len(s) - (k + 1) + 1)
      BY <1>1, <1>2
    <2> QED BY <1>1, <1>2, <2>2, <2>3
  <1>6. SubSeq(s, 1, k) \o SubSeq(s, k + 1, Len(s)) = s
    <2>1. SubSeq(s, 1, k) \o SubSeq(s, k + 1, Len(s)) = SubSeq(s, 1, Len(s))
      <3>1. 1 \in 1..(Len(s) + 1) /\ k \in (1 - 1)..Len(s) /\ Len(s) \in k..Len(s)
        BY <1>1, <1>2
      <3> QED BY <3>1, ConcatAdjacentSubSeq
    <2> QED BY <2>1, SubSeqFull
  <1> QED BY <1>2, <1>3, <1>4, <1>5, <1>6

\* Two goes at the front are one.
LEMMA RemovedTwice ==
  ASSUME NEW S, NEW s \in Seq(S), NEW n \in Nat, NEW m \in Nat, n + m <= Len(s)
  PROVE  Removed(Removed(s, n), m) = Removed(s, n + m)
  <1>1. Len(s) \in Nat /\ n + m \in Nat /\ n <= Len(s)
    BY LenProperties
  <1> DEFINE one == Removed(s, n)
             two == Removed(one, m)
             both == Removed(s, n + m)
  <1>2. /\ one \in Seq(S) /\ Len(one) = Len(s) - n
        /\ \A i \in 1..(Len(s) - n) : one[i] = s[i + n]
    BY <1>1, CutAnywhere
  <1>3. /\ both \in Seq(S) /\ Len(both) = Len(s) - (n + m)
        /\ \A i \in 1..(Len(s) - (n + m)) : both[i] = s[i + (n + m)]
    BY <1>1, CutAnywhere
  <1> HIDE DEF one, both
  <1>4. /\ two \in Seq(S) /\ Len(two) = Len(one) - m
        /\ \A i \in 1..(Len(one) - m) : two[i] = one[i + m]
    <2>1. one \in Seq(S) /\ m <= Len(one)
      BY <1>1, <1>2
    <2> QED BY <2>1, CutAnywhere
  <1> HIDE DEF two
  <1>5. Len(two) = Len(both)
    BY <1>1, <1>2, <1>3, <1>4
  <1>6. ASSUME NEW i \in 1..Len(two)
        PROVE  two[i] = both[i]
    <2>1. i \in 1..(Len(one) - m) /\ i + m \in 1..(Len(s) - n) /\ i \in 1..(Len(s) - (n + m))
      BY <1>1, <1>2, <1>4
    <2>2. two[i] = one[i + m] /\ one[i + m] = s[(i + m) + n] /\ both[i] = s[i + (n + m)]
      BY <1>2, <1>3, <1>4, <2>1
    <2>3. (i + m) + n = i + (n + m)
      BY <2>1
    <2> QED BY <2>2, <2>3
  <1>7. two = both
    BY <1>3, <1>4, <1>5, <1>6, SeqEqual
  <1> QED BY <1>7 DEF one, two, both

\* Three sequences behind one another, grouped either way.
Grouped(a, b, c) == (a \o b) \o c = a \o (b \o c)

\* How they are grouped does not matter.
LEMMA Regroup ==
  ASSUME NEW S, NEW a \in Seq(S), NEW b \in Seq(S), NEW c \in Seq(S)
  PROVE  Grouped(a, b, c)
  BY ConcatAssociative DEF Grouped

\* Where s is cut does not matter to what follows it.
LEMMA CutConcat ==
  ASSUME NEW S, NEW s \in Seq(S), NEW t \in Seq(S), NEW n \in Nat
  PROVE  Leading(s, n) \o (Removed(s, n) \o t) = s \o t
  <1> DEFINE front == Leading(s, n)
             rest == Removed(s, n)
  <1>1. front \in Seq(S) /\ rest \in Seq(S) /\ front \o rest = s
    BY CutAnywhere
  <1> HIDE DEF front, rest
  <1>2. Grouped(front, rest, t)
    BY <1>1, Regroup
  <1>3. (front \o rest) \o t = front \o (rest \o t)
    BY <1>2 DEF Grouped
  <1> QED BY <1>1, <1>3 DEF front, rest

\* If what begins with s begins with x too, and x is no longer, it is the front of s.
LEMMA CutFront ==
  ASSUME NEW S, NEW s \in Seq(S), NEW t \in Seq(S), NEW x \in Seq(S), NEW y \in Seq(S),
         s \o t = x \o y, Len(x) <= Len(s)
  PROVE  /\ Removed(s, Len(x)) \o t = y
         /\ Leading(s, Len(x)) = x
  <1>1. Len(s) \in Nat /\ Len(t) \in Nat /\ Len(x) \in Nat /\ Len(y) \in Nat
    BY LenProperties
  <1> DEFINE front == Leading(s, Len(x))
             rest == Removed(s, Len(x))
  <1>2. /\ front \in Seq(S) /\ rest \in Seq(S) /\ front \o rest = s
        /\ Len(front) = Len(x)
        /\ \A i \in 1..Len(x) : front[i] = s[i]
    BY <1>1, CutAnywhere
  <1> HIDE DEF front, rest
  <1>3. ASSUME NEW i \in 1..Len(x)
        PROVE  front[i] = x[i]
    <2>1. i <= Len(s) /\ i \in 1..(Len(s) + Len(t)) /\ i \in 1..(Len(x) + Len(y)) /\ i <= Len(x)
      BY <1>1
    <2>2. (s \o t)[i] = s[i]
      BY <2>1, ConcatProperties
    <2>3. (x \o y)[i] = x[i]
      BY <2>1, ConcatProperties
    <2> QED BY <1>2, <2>2, <2>3
  <1>4. front = x
    BY <1>2, <1>3, SeqEqual
  <1>5. x \o (rest \o t) = x \o y
    <2>1. front \o (rest \o t) = s \o t
      BY <1>1, CutConcat DEF front, rest
    <2> QED BY <1>4, <2>1
  <1>6. rest \o t \in Seq(S)
    BY <1>2, ConcatProperties
  <1>7. rest \o t = y
    <2>1. \A a, b, c \in Seq(S) : a \o b = a \o c => b = c
      BY ConcatSimplifications
    <2> DEFINE tail == rest \o t
    <2>2. tail \in Seq(S) /\ x \o tail = x \o y
      BY <1>5, <1>6
    <2> HIDE DEF tail
    <2>3. tail = y
      BY <2>1, <2>2
    <2> QED BY <2>3 DEF tail
  <1> QED BY <1>4, <1>7 DEF front, rest

\* The bytes of some sizes.
FramesOf(sizes) == FlattenSeq([i \in 1..Len(sizes) |-> FrameBytes(sizes[i])])

\* The bytes of one size.
LEMMA FrameBytesFacts ==
  ASSUME NEW entry \in SizeEntry
  PROVE  /\ FrameBytes(entry) \in Seq(Byte)
         /\ Len(FrameBytes(entry)) = entry.size
         /\ \A i \in 1..entry.size : FrameBytes(entry)[i] = [frame |-> entry.number, at |-> i]
  <1>1. entry.size \in Nat /\ entry.number \in Nat
    BY DEF SizeEntry
  <1>2. \A i \in 1..entry.size : [frame |-> entry.number, at |-> i] \in Byte
    BY <1>1 DEF Byte
  <1>3. FrameBytes(entry) \in Seq(Byte)
    BY <1>1, <1>2, IsASeq DEF FrameBytes
  <1>4. Len(FrameBytes(entry)) = entry.size
    BY <1>1 DEF FrameBytes
  <1> QED BY <1>1, <1>3, <1>4 DEF FrameBytes

\* Each size stands for its bytes.
LEMMA BytesEach ==
  ASSUME NEW sizes \in Seq(SizeEntry)
  PROVE  /\ [i \in 1..Len(sizes) |-> FrameBytes(sizes[i])] \in Seq(Seq(Byte))
         /\ FramesOf(sizes) \in Seq(Byte)
  <1>1. Len(sizes) \in Nat /\ \A i \in 1..Len(sizes) : sizes[i] \in SizeEntry
    BY LenProperties, ElementOfSeq
  <1>2. \A i \in 1..Len(sizes) : FrameBytes(sizes[i]) \in Seq(Byte)
    BY <1>1, FrameBytesFacts
  <1>3. [i \in 1..Len(sizes) |-> FrameBytes(sizes[i])] \in Seq(Seq(Byte))
    BY <1>1, <1>2, IsASeq
  <1> QED BY <1>3, FlattenType DEF FramesOf

\* One size more, and its bytes come behind.
LEMMA FramesOfAppend ==
  ASSUME NEW sizes \in Seq(SizeEntry), NEW entry \in SizeEntry
  PROVE  FramesOf(Append(sizes, entry)) = FramesOf(sizes) \o FrameBytes(entry)
  <1> DEFINE each == [i \in 1..Len(sizes) |-> FrameBytes(sizes[i])]
             longer == Append(sizes, entry)
             eachLonger == [i \in 1..Len(longer) |-> FrameBytes(longer[i])]
  <1>1. Len(sizes) \in Nat /\ each \in Seq(Seq(Byte)) /\ Len(each) = Len(sizes)
    BY LenProperties, BytesEach
  <1>2. /\ longer \in Seq(SizeEntry) /\ Len(longer) = Len(sizes) + 1
        /\ \A i \in 1..Len(sizes) : longer[i] = sizes[i]
        /\ longer[Len(sizes) + 1] = entry
    BY AppendProperties
  <1>3. FrameBytes(entry) \in Seq(Byte)
    BY FrameBytesFacts
  <1>4. /\ \A i \in 1..Len(sizes) : each[i] = FrameBytes(sizes[i])
        /\ \A i \in 1..Len(longer) : eachLonger[i] = FrameBytes(longer[i])
    OBVIOUS
  <1>5. eachLonger \in Seq(Seq(Byte)) /\ Len(eachLonger) = Len(longer)
    <2> HIDE DEF longer
    <2>1. Len(longer) \in Nat /\ longer \in Seq(SizeEntry)
      BY <1>1, <1>2
    <2>2. eachLonger \in Seq(Seq(Byte))
      BY <2>1, BytesEach
    <2> QED BY <2>1, <2>2
  <1> HIDE DEF longer, each, eachLonger
  <1>6. eachLonger = Append(each, FrameBytes(entry))
    <2>1. /\ Append(each, FrameBytes(entry)) \in Seq(Seq(Byte))
          /\ Len(Append(each, FrameBytes(entry))) = Len(each) + 1
          /\ \A i \in 1..Len(each) : Append(each, FrameBytes(entry))[i] = each[i]
          /\ Append(each, FrameBytes(entry))[Len(each) + 1] = FrameBytes(entry)
      BY <1>1, <1>3, AppendProperties
    <2> DEFINE other == Append(each, FrameBytes(entry))
    <2>2. \A i \in 1..Len(eachLonger) : eachLonger[i] = other[i]
      <3> SUFFICES ASSUME NEW i \in 1..Len(eachLonger) PROVE eachLonger[i] = other[i]
        OBVIOUS
      <3>1. CASE i = Len(sizes) + 1
        BY <1>1, <1>2, <1>4, <1>5, <2>1, <3>1
      <3>2. CASE i # Len(sizes) + 1
        <4>1. i \in 1..Len(sizes) /\ i \in 1..Len(longer)
          BY <1>1, <1>2, <1>5, <3>2
        <4> QED BY <1>1, <1>2, <1>4, <2>1, <4>1
      <3> QED BY <3>1, <3>2
    <2>3. Len(eachLonger) = Len(other) /\ other \in Seq(Seq(Byte))
      BY <1>1, <1>2, <1>5, <2>1
    <2> HIDE DEF other
    <2>4. eachLonger = other
      BY <1>5, <2>2, <2>3, SeqEqual
    <2> QED BY <2>4 DEF other
  <1>7. FramesOf(longer) = FlattenSeq(eachLonger) /\ FramesOf(sizes) = FlattenSeq(each)
    BY DEF FramesOf, eachLonger, each
  <1>8. FlattenSeq(Append(each, FrameBytes(entry))) = FlattenSeq(each) \o FrameBytes(entry)
    BY <1>1, <1>3, FlattenAppend
  <1> QED BY <1>6, <1>7, <1>8 DEF longer

\* No size has no bytes, and one has its own.
LEMMA FramesOfFew ==
  ASSUME NEW entry \in SizeEntry
  PROVE  /\ FramesOf(<< >>) = << >>
         /\ FramesOf(<< entry >>) = FrameBytes(entry)
  <1>1. << >> \in Seq(SizeEntry) /\ Len(<< >>) = 0 /\ << >> \in Seq(Byte)
    BY EmptySeq
  <1> DEFINE none == [i \in 1..0 |-> FrameBytes(<< >>[i])]
  <1>2. FramesOf(<< >>) = FlattenSeq(none)
    BY <1>1 DEF FramesOf
  <1>3. none = << >>
    <2>1. none \in Seq(Seq(Byte))
      BY <1>1, BytesEach
    <2>2. Len(none) = 0
      OBVIOUS
    <2> QED BY <2>1, <2>2, EmptySeq
  <1>4. FramesOf(<< >>) = << >>
    BY <1>1, <1>2, <1>3, FlattenFew
  <1>5. Append(<< >>, entry) = << entry >>
    OBVIOUS
  <1>6. FrameBytes(entry) \in Seq(Byte)
    BY FrameBytesFacts
  <1>7. << >> \o FrameBytes(entry) = FrameBytes(entry)
    BY <1>6, ConcatEmptySeq
  <1> QED BY <1>1, <1>4, <1>5, <1>7, FramesOfAppend

\* The bytes of sizes behind others.
LEMMA FramesOfConcat ==
  ASSUME NEW first \in Seq(SizeEntry), NEW second \in Seq(SizeEntry)
  PROVE  FramesOf(first \o second) = FramesOf(first) \o FramesOf(second)
  <1> DEFINE T == {k \in Nat : \A s \in Seq(SizeEntry) : Len(s) = k =>
                      FramesOf(first \o s) = FramesOf(first) \o FramesOf(s)}
  <1>0. FramesOf(first) \in Seq(Byte)
    BY BytesEach
  <1>1. 0 \in T
    <2>1. ASSUME NEW s \in Seq(SizeEntry), Len(s) = 0
          PROVE  FramesOf(first \o s) = FramesOf(first) \o FramesOf(s)
      <3>1. s = << >>
        BY <2>1, EmptySeq
      <3>2. FramesOf(<< >>) = << >>
        <4>1. PICK entry : entry \in SizeEntry
          <5>1. [number |-> 0, size |-> 2] \in SizeEntry
            BY DEF SizeEntry
          <5> QED BY <5>1
        <4> QED BY <4>1, FramesOfFew
      <3>3. first \o << >> = first /\ FramesOf(first) \o << >> = FramesOf(first)
        BY <1>0, ConcatEmptySeq
      <3> QED BY <3>1, <3>2, <3>3
    <2> QED BY <2>1
  <1>2. ASSUME NEW k \in Nat, k \in T
        PROVE  k + 1 \in T
    <2>1. ASSUME NEW s \in Seq(SizeEntry), Len(s) = k + 1
          PROVE  FramesOf(first \o s) = FramesOf(first) \o FramesOf(s)
      <3>1. s # << >>
        BY <2>1, EmptySeq
      <3>2. PICK front \in Seq(SizeEntry), last \in SizeEntry : s = Append(front, last)
        BY <3>1, SequenceEmptyOrAppend
      <3>3. Len(front) = k
        BY <2>1, <3>2, AppendProperties, LenProperties
      <3>4. FramesOf(first \o front) = FramesOf(first) \o FramesOf(front)
        BY <1>2, <3>3
      <3>5. /\ FramesOf(front) \in Seq(Byte) /\ first \o front \in Seq(SizeEntry)
            /\ FrameBytes(last) \in Seq(Byte)
        BY BytesEach, ConcatProperties, FrameBytesFacts
      <3>6. first \o s = Append(first \o front, last)
        BY <3>2, AppendBehind
      <3>7. FramesOf(first \o s) = FramesOf(first \o front) \o FrameBytes(last)
        BY <3>5, <3>6, FramesOfAppend
      <3>8. FramesOf(s) = FramesOf(front) \o FrameBytes(last)
        BY <3>2, FramesOfAppend
      <3>9. (FramesOf(first) \o FramesOf(front)) \o FrameBytes(last)
              = FramesOf(first) \o (FramesOf(front) \o FrameBytes(last))
        <4> HIDE DEF T
        <4>1. Grouped(FramesOf(first), FramesOf(front), FrameBytes(last))
          BY <1>0, <3>5, Regroup
        <4> QED BY <4>1 DEF Grouped
      <3> QED BY <3>4, <3>7, <3>8, <3>9
    <2> QED BY <2>1
  <1> HIDE DEF T
  <1>3. \A k \in Nat : k \in T
    BY <1>1, <1>2, Induction
  <1>4. Len(second) \in T
    BY <1>3, LenProperties
  <1> QED BY <1>4 DEF T

-----------------------------------------------------------------------------
(* Bytes and sizes stay in step, and readers get the frames of the line    *)

\* The size that is taken, as a function of taken.
SizesIn(t) ==
  LET holders == {r \in Readers : t[r] # NoFrame}
  IN  IF holders = {} THEN << >> ELSE << t[CHOOSE r \in holders : TRUE] >>

\* At most one reader has taken a size.
LEMMA SizesInFacts ==
  ASSUME NEW t, NEW r \in Readers, \A v \in Readers \ {r} : t[v] = NoFrame
  PROVE  SizesIn(t) = IF t[r] = NoFrame THEN << >> ELSE << t[r] >>
  <1> DEFINE holders == {v \in Readers : t[v] # NoFrame}
  <1>1. CASE t[r] = NoFrame
    <2>1. holders = {}
      BY <1>1
    <2> QED BY <1>1, <2>1 DEF SizesIn
  <1>2. CASE t[r] # NoFrame
    <2>1. holders = {r}
      BY <1>2
    <2> HIDE DEF holders
    <2>2. (CHOOSE v \in holders : TRUE) = r
      BY <2>1
    <2>3. SizesIn(t) = IF holders = {} THEN << >> ELSE << t[CHOOSE v \in holders : TRUE] >>
      BY Zenon DEF SizesIn, holders
    <2> QED BY <1>2, <2>1, <2>2, <2>3
  <1> QED BY <1>1, <1>2

\* What has come in on the way of the bytes, and on that of the sizes.
LEMMA WaysTypes ==
  ASSUME TypeInv, ReadInv
  PROVE  /\ TakenSizes = SizesIn(taken)
         /\ TakenSizes \in Seq(SizeEntry) /\ queued_iframes \in Seq(SizeEntry)
         /\ bcfifo \in Seq(SizeEntry) /\ StreamSizes \in Seq(SizeEntry)
         /\ Underway \in Seq(Seq(Byte)) /\ FlattenSeq(Underway) \in Seq(Byte)
         /\ istream \in Seq(Byte) /\ dfifo \in Seq(Byte)
         /\ FlattenSeq(Underway) \o dfifo \in Seq(Byte)
         /\ StreamBytes = istream \o (FlattenSeq(Underway) \o dfifo)
         /\ StreamBytes \in Seq(Byte)
         /\ InStep <=> StreamBytes = FramesOf(StreamSizes)
  <1>1. TakenSizes = SizesIn(taken)
    BY DEF TakenSizes, SizesIn
  <1>2. queued_iframes \in Seq(SizeEntry) /\ bcfifo \in Seq(SizeEntry)
    BY DEF TypeInv, DataTypes, CardTypes
  <1>3. TakenSizes \in Seq(SizeEntry)
    <2>1. CASE \A r \in Readers : taken[r] = NoFrame
      <3>1. SizesIn(taken) = << >>
        BY <2>1 DEF SizesIn
      <3> QED BY <1>1, <3>1, EmptySeq
    <2>2. ASSUME NEW r \in Readers, taken[r] # NoFrame
          PROVE  TakenSizes \in Seq(SizeEntry)
      <3>1. taken[r] \in SizeEntry
        BY <2>2 DEF TypeInv, TakeTypes
      <3>2. \A v \in Readers \ {r} : taken[v] = NoFrame
        BY <2>2 DEF ReadInv, Holding, Inside
      <3>3. TakenSizes = << taken[r] >>
        BY <1>1, <2>2, <3>2, SizesInFacts
      <3> QED BY <3>1, <3>3
    <2> QED BY <2>1, <2>2
  <1>4. StreamSizes \in Seq(SizeEntry)
    BY <1>2, <1>3, ConcatProperties DEF StreamSizes
  <1>5. Underway \in Seq(Seq(Byte))
    <2>1. CASE cpc = "notify"
      <3>1. completed \in Seq(Seq(Byte)) /\ completed # << >>
        BY <2>1 DEF TypeInv, UrbTypes
      <3> QED BY <2>1, <3>1, HeadTailProperties DEF Underway
    <2>2. CASE cpc # "notify"
      BY <2>2 DEF Underway, TypeInv, UrbTypes
    <2> QED BY <2>1, <2>2
  <1>6. FlattenSeq(Underway) \in Seq(Byte)
    BY <1>5, FlattenType
  <1>7. istream \in Seq(Byte) /\ dfifo \in Seq(Byte)
    BY DEF TypeInv, DataTypes, CardTypes
  <1>8. FlattenSeq(Underway) \o dfifo \in Seq(Byte)
    BY <1>6, <1>7, ConcatProperties
  <1>9. StreamBytes = istream \o (FlattenSeq(Underway) \o dfifo)
    BY <1>6, <1>7, ConcatAssociative DEF StreamBytes
  <1>10. istream \o (FlattenSeq(Underway) \o dfifo) \in Seq(Byte)
    BY <1>7, <1>8, ConcatProperties
  <1>11. InStep <=> StreamBytes = FramesOf(StreamSizes)
    BY DEF InStep, FramesOf
  <1> QED BY <1>1, <1>2, <1>3, <1>4, <1>5, <1>6, <1>7, <1>8, <1>9, <1>10, <1>11

\* What the queue sees of a step.
QueueMoves ==
  \/ \E n \in FrameSizes : AbstractQueue!Arrive(n)
  \/ \E r \in Readers : AbstractQueue!Take(r) \/ AbstractQueue!Return(r)
  \/ UNCHANGED << StreamSizes, arrived, copied >>

\* A frame comes in on both ways.
LEMMA InStepLine ==
  ASSUME TypeInv, ReadInv, InStep, ~streaming, NEW n \in FrameSizes, LineReceives(n)
  PROVE  InStep' /\ QueueMoves
  <1> DEFINE entry == [number |-> arrived + 1, size |-> n]
  <1>1. entry \in SizeEntry /\ entry = [number |-> arrived', size |-> n] /\ arrived' = arrived + 1
    BY SizesAssumption DEF LineReceives, TypeInv, CardTypes, SizeEntry
  <1>2. /\ dfifo' = dfifo \o FrameBytes(entry)
        /\ bcfifo' = Append(bcfifo, entry)
        /\ UNCHANGED << cpc, completed, istream, queued_iframes, taken, copied >>
    BY DEF LineReceives, urbVars, dataVars, readVars, takeVars
  <1> HIDE DEF entry
  <1>3. FrameBytes(entry) \in Seq(Byte)
    BY <1>1, FrameBytesFacts
  <1>4. StreamSizes' = Append(StreamSizes, entry)
    <2>1. TakenSizes \o queued_iframes \in Seq(SizeEntry) /\ bcfifo \in Seq(SizeEntry)
      BY WaysTypes, ConcatProperties
    <2>2. TakenSizes' = TakenSizes
      BY <1>2 DEF TakenSizes
    <2> QED BY <1>1, <1>2, <2>1, <2>2, AppendBehind DEF StreamSizes
  <1>5. StreamBytes' = StreamBytes \o FrameBytes(entry)
    <2>1. Underway' = Underway
      BY <1>2 DEF Underway
    <2>2. istream \o FlattenSeq(Underway) \in Seq(Byte) /\ dfifo \in Seq(Byte)
      BY WaysTypes, ConcatProperties
    <2>3. Grouped(istream \o FlattenSeq(Underway), dfifo, FrameBytes(entry))
      BY <1>3, <2>2, Regroup
    <2> QED BY <1>2, <2>1, <2>3 DEF StreamBytes, Grouped
  <1>6. FramesOf(StreamSizes') = FramesOf(StreamSizes) \o FrameBytes(entry)
    BY <1>1, <1>4, WaysTypes, FramesOfAppend
  <1>7. StreamBytes' = FramesOf(StreamSizes')
    BY <1>5, <1>6, WaysTypes
  <1>8. InStep'
    BY <1>7 DEF InStep, FramesOf
  <1>9. AbstractQueue!Arrive(n)
    BY <1>1, <1>2, <1>4 DEF AbstractQueue!Arrive
  <1> QED BY <1>8, <1>9 DEF QueueMoves

\* The bytes go from the card into URBs, and from these to the driver.
LEMMA InStepBytes ==
  ASSUME TypeInv, ReadInv, InStep,
         FillUrb \/ (CallbackStep /\ ~disturbed')
  PROVE  InStep' /\ QueueMoves
  <1>1. UNCHANGED << bcfifo, arrived, queued_iframes, taken, copied >>
    <2>1. CASE FillUrb
      BY <2>1 DEF FillUrb, dataVars, readVars, takeVars
    <2>2. CASE CallbackStep
      BY <2>2, CallbackLeaves DEF cardVars, takeVars
    <2> QED BY <2>1, <2>2
  <1>2. StreamSizes' = StreamSizes
    BY <1>1 DEF StreamSizes, TakenSizes
  <1>3. StreamBytes' = StreamBytes
    <2>1. CASE FillUrb
      <3> DEFINE front == Leading(dfifo, UrbPayload)
                 rest == Removed(dfifo, UrbPayload)
      <3>1. /\ completed' = Append(completed, front) /\ dfifo' = rest
            /\ UNCHANGED << cpc, istream >>
        BY <2>1 DEF FillUrb, dataVars
      <3>2. front \in Seq(Byte) /\ rest \in Seq(Byte) /\ front \o rest = dfifo
        BY UrbsAssumption, WaysTypes, CutAnywhere
      <3> HIDE DEF front, rest
      <3>3. Underway' = Append(Underway, front)
        <4>1. CASE cpc = "notify"
          <5>1. completed \in Seq(Seq(Byte)) /\ completed # << >>
            BY <4>1 DEF TypeInv, UrbTypes
          <5>2. Tail(Append(completed, front)) = Append(Tail(completed), front)
            BY <5>1, HeadTailAppend
          <5> QED BY <3>1, <4>1, <5>2 DEF Underway
        <4>2. CASE cpc # "notify"
          BY <3>1, <4>2 DEF Underway
        <4> QED BY <4>1, <4>2
      <3>4. FlattenSeq(Underway') = FlattenSeq(Underway) \o front
        BY <3>2, <3>3, WaysTypes, FlattenAppend
      <3>5. istream \in Seq(Byte) /\ FlattenSeq(Underway) \in Seq(Byte)
        BY WaysTypes
      <3>6. (FlattenSeq(Underway) \o front) \o rest = FlattenSeq(Underway) \o (front \o rest)
        <4>1. Grouped(FlattenSeq(Underway), front, rest)
          BY <3>2, <3>5, Regroup
        <4> QED BY <4>1 DEF Grouped
      <3>7. FlattenSeq(Underway) \o front \in Seq(Byte)
        BY <3>2, <3>5, ConcatProperties
      <3>8. (istream \o (FlattenSeq(Underway) \o front)) \o rest
              = istream \o ((FlattenSeq(Underway) \o front) \o rest)
        <4> DEFINE middle == FlattenSeq(Underway) \o front
        <4>1. istream \in Seq(Byte) /\ middle \in Seq(Byte) /\ rest \in Seq(Byte)
          BY <3>2, <3>5, <3>7
        <4> HIDE DEF middle
        <4>2. Grouped(istream, middle, rest)
          BY <4>1, Regroup
        <4> QED BY <4>2 DEF middle, Grouped
      <3>9. StreamBytes' = (istream \o (FlattenSeq(Underway) \o front)) \o rest
        BY <3>1, <3>4 DEF StreamBytes
      <3> QED BY <3>2, <3>6, <3>8, <3>9, WaysTypes
    <2>2. CASE CallbackReadUsage \/ CallbackTest
      <3>1. UNCHANGED << completed, dfifo, istream >> /\ cpc # "notify" /\ cpc' # "notify"
        BY <2>2 DEF CallbackReadUsage, CallbackTest, cardVars, dataVars
      <3> QED BY <3>1 DEF StreamBytes, Underway
    <2>3. CASE (CallbackTakesAll \/ CallbackDiscard \/ CallbackAddFails) /\ ~disturbed'
      BY <2>3 DEF CallbackTakesAll, CallbackDiscard, CallbackAddFails
    <2>4. CASE CallbackAdd
      <3>1. /\ istream' = istream \o Head(completed) /\ cpc = "add" /\ cpc' = "notify"
            /\ UNCHANGED << completed, dfifo >>
        BY <2>4 DEF CallbackAdd, cardVars
      <3>2. completed \in Seq(Seq(Byte)) /\ completed # << >>
        BY <3>1 DEF TypeInv, UrbTypes
      <3>3. Underway = completed /\ Underway' = Tail(completed)
        BY <3>1 DEF Underway
      <3>4. FlattenSeq(completed) = Head(completed) \o FlattenSeq(Tail(completed))
        BY <3>2, FlattenHead
      <3>5. /\ Head(completed) \in Seq(Byte) /\ Tail(completed) \in Seq(Seq(Byte))
            /\ istream \in Seq(Byte)
        BY <3>2, HeadTailProperties, WaysTypes
      <3>6. FlattenSeq(Tail(completed)) \in Seq(Byte)
        BY <3>5, FlattenType
      <3>7. (istream \o Head(completed)) \o FlattenSeq(Tail(completed))
              = istream \o (Head(completed) \o FlattenSeq(Tail(completed)))
        <4> DEFINE head == Head(completed)
                   back == FlattenSeq(Tail(completed))
        <4>1. istream \in Seq(Byte) /\ head \in Seq(Byte) /\ back \in Seq(Byte)
          BY <3>5, <3>6
        <4> HIDE DEF head, back
        <4>2. Grouped(istream, head, back)
          BY <4>1, Regroup
        <4> QED BY <4>2 DEF head, back, Grouped
      <3> QED BY <3>1, <3>3, <3>4, <3>7 DEF StreamBytes
    <2>5. CASE CallbackNotify
      <3>1. /\ completed' = Tail(completed) /\ cpc = "notify" /\ cpc' = "idle"
            /\ UNCHANGED << istream, dfifo >>
        BY <2>5 DEF CallbackNotify, Resubmit, cardVars, dataVars
      <3> QED BY <3>1 DEF StreamBytes, Underway
    <2> QED BY <2>1, <2>2, <2>3, <2>4, <2>5 DEF CallbackStep
  <1>4. InStep'
    BY <1>2, <1>3 DEF InStep
  <1> QED BY <1>1, <1>2, <1>4 DEF QueueMoves

\* The sizes go from the card to the driver.
LEMMA InStepWorker ==
  ASSUME TypeInv, ReadInv, InStep, WorkerStep, ~disturbed'
  PROVE  InStep' /\ QueueMoves
  <1>1. UNCHANGED << dfifo, arrived, completed, cpc, istream, taken, copied >>
    BY WorkerLeaves DEF urbVars, takeVars
  <1>2. StreamBytes' = StreamBytes /\ TakenSizes' = TakenSizes
    BY <1>1 DEF StreamBytes, Underway, TakenSizes
  <1>3. StreamSizes' = StreamSizes
    <2>1. CASE WorkerFetches
      <3>1. /\ bcfifo # << >> /\ bcfifo' = Tail(bcfifo)
            /\ queued_iframes' = Append(queued_iframes, Head(bcfifo))
        BY <2>1 DEF WorkerFetches
      <3> DEFINE one == << Head(bcfifo) >>
                 first == TakenSizes \o queued_iframes
      <3>2. Head(bcfifo) \in SizeEntry /\ Tail(bcfifo) \in Seq(SizeEntry) /\ bcfifo = one \o Tail(bcfifo)
        BY <3>1, WaysTypes, HeadAndTail
      <3>3. one \in Seq(SizeEntry) /\ first \in Seq(SizeEntry) /\ queued_iframes \in Seq(SizeEntry)
            /\ TakenSizes \in Seq(SizeEntry)
        BY <3>2, WaysTypes, ConcatProperties
      <3>4. TakenSizes \o Append(queued_iframes, Head(bcfifo)) = first \o one
        <4>1. TakenSizes \o Append(queued_iframes, Head(bcfifo)) = Append(first, Head(bcfifo))
          BY <3>2, <3>3, AppendBehind
        <4>2. Append(first, Head(bcfifo)) = first \o one
          BY <3>2, <3>3, AppendIsConcat
        <4> QED BY <4>1, <4>2
      <3> HIDE DEF one
      <3>5. (first \o one) \o Tail(bcfifo) = first \o (one \o Tail(bcfifo))
        <4> HIDE DEF first
        <4>1. first \in Seq(SizeEntry) /\ one \in Seq(SizeEntry) /\ Tail(bcfifo) \in Seq(SizeEntry)
          BY <3>2, <3>3
        <4>2. Grouped(first, one, Tail(bcfifo))
          BY <4>1, Regroup
        <4> QED BY <4>2 DEF Grouped
      <3>6. StreamSizes' = (first \o one) \o Tail(bcfifo)
        BY <1>2, <3>1, <3>4 DEF StreamSizes
      <3>7. StreamSizes = first \o bcfifo
        BY DEF StreamSizes
      <3> QED BY <3>2, <3>5, <3>6, <3>7
    <2>2. CASE ~WorkerFetches
      <3>1. UNCHANGED << bcfifo, queued_iframes >>
        BY <2>2 DEF WorkerStep, WorkerBegins, WorkerCounts, WorkerTakesCount,
                    WorkerMiscounts, WorkerFetchesLeftover, WorkerOops, WorkerUnlocks,
                    WorkerWakes, cardVars, dataVars
      <3> QED BY <1>2, <3>1 DEF StreamSizes
    <2> QED BY <2>1, <2>2
  <1>4. InStep'
    BY <1>2, <1>3 DEF InStep
  <1> QED BY <1>1, <1>3, <1>4 DEF QueueMoves

\* A reader takes a size, and copies the bytes of that size.
LEMMA InStepReader ==
  ASSUME TypeInv, ReadInv, InStep, ~streaming, ~disturbed, ~disturbed', NEW r \in Readers,
         (\E n \in ReadCounts : Read(r, n)) \/ ReaderStep(r) \/ Interrupt(r)
  PROVE  InStep' /\ QueueMoves
  <1>1. UNCHANGED << dfifo, bcfifo, arrived, completed, cpc >>
    BY DEF Read, ReaderStep, DownReadSemaphore, CheckIncoming, CheckBlock,
           CheckAgain, LookIncoming, LookAgain, StreamRead, StreamCopyFails,
           TakeSize, TakeNothing, TrimStatus, CopyFrame, CopyFails, NextFrame,
           UpReadSemaphore, Interrupt, cardVars, urbVars
  <1>2. /\ rpc \in [Readers -> {"idle", "down", "check", "look", "asleep", "read",
                                "trim", "copy", "up"}]
        /\ taken \in [Readers -> SizeEntry \cup {NoFrame}]
        /\ take_length \in [Readers -> Nat]
        /\ copied \in [Readers -> Seq(Byte)]
    BY DEF TypeInv, TakeTypes
  <1>3. ReadsKept
    BY DEF ReadInv
  <1>4. Underway' = Underway
    BY <1>1 DEF Underway
  <1>5. ASSUME Inside(r)
        PROVE  \A v \in Readers \ {r} : taken[v] = NoFrame
    BY <1>5 DEF ReadInv, Inside, Holding
  <1>6. TakenSizes = SizesIn(taken) /\ TakenSizes' = SizesIn(taken')
    BY DEF TakenSizes, SizesIn
  <1>7. CASE \/ \E n \in ReadCounts : Read(r, n)
             \/ DownReadSemaphore(r) \/ CheckIncoming(r) \/ CheckBlock(r)
             \/ LookIncoming(r) \/ LookAgain(r) \/ TakeNothing(r) \/ TrimStatus(r)
    <2>1. UNCHANGED << istream, queued_iframes, taken, copied >>
      BY <1>7 DEF Read, DownReadSemaphore, CheckIncoming, CheckBlock, LookIncoming,
                  LookAgain, TakeNothing, TrimStatus, dataVars, takeVars
    <2>2. UNCHANGED << StreamSizes, StreamBytes >>
      BY <1>1, <1>4, <2>1 DEF StreamSizes, StreamBytes, TakenSizes
    <2> QED BY <1>1, <2>1, <2>2 DEF InStep, QueueMoves
  <1>8. CASE CheckAgain(r) \/ UpReadSemaphore(r) \/ Interrupt(r)
    <2>1. /\ UNCHANGED << istream, queued_iframes >>
          /\ taken' = [taken EXCEPT ![r] = NoFrame]
          /\ copied' = [copied EXCEPT ![r] = << >>]
          /\ ~Holding(r)
      BY <1>8 DEF CheckAgain, UpReadSemaphore, Interrupt, Return, dataVars, Holding
    <2>2. taken' = taken
      <3>1. taken[r] = NoFrame
        BY <2>1 DEF ReadInv
      <3> QED BY <1>2, <2>1, <3>1
    <2>3. UNCHANGED << StreamSizes, StreamBytes >>
      <3>1. UNCHANGED << istream, queued_iframes, taken >>
        BY <2>1, <2>2
      <3> QED BY <1>1, <1>4, <3>1 DEF StreamSizes, StreamBytes, TakenSizes
    <2>4. AbstractQueue!Return(r)
      BY <1>1, <2>1, <2>3 DEF AbstractQueue!Return
    <2> QED BY <2>3, <2>4 DEF InStep, QueueMoves
  <1>9. CASE StreamRead(r) \/ StreamCopyFails(r) \/ CopyFails(r)
    BY <1>9 DEF StreamRead, StreamCopyFails, CopyFails
  <1>10. CASE TakeSize(r)
    <2> DEFINE oldest == Head(queued_iframes)
    <2>1. /\ rpc[r] = "read" /\ queued_iframes # << >>
          /\ taken' = [taken EXCEPT ![r] = oldest]
          /\ queued_iframes' = Tail(queued_iframes)
          /\ UNCHANGED << istream, copied >>
      BY <1>10 DEF TakeSize, CanTake
    <2>2. /\ oldest \in SizeEntry /\ Tail(queued_iframes) \in Seq(SizeEntry)
          /\ queued_iframes = << oldest >> \o Tail(queued_iframes)
      BY <2>1, WaysTypes, HeadAndTail
    <2>3. oldest # NoFrame
      BY <2>2, ActorsAssumption DEF SizeEntry
    <2>4. taken[r] = NoFrame /\ \A v \in Readers \ {r} : taken[v] = NoFrame
      BY <1>5, <2>1 DEF ReadInv, Holding, Inside
    <2> HIDE DEF oldest
    <2>5. TakenSizes = << >>
      BY <1>6, <2>4, SizesInFacts
    <2>6. TakenSizes' = << oldest >>
      <3>1. taken'[r] = oldest /\ \A v \in Readers \ {r} : taken'[v] = NoFrame
        BY <1>2, <2>1, <2>4
      <3> QED BY <1>6, <2>3, <3>1, SizesInFacts
    <2>7. StreamSizes' = StreamSizes
      <3>1. TakenSizes \o queued_iframes = queued_iframes
        BY <2>5, WaysTypes, ConcatEmptySeq
      <3>2. TakenSizes' \o queued_iframes' = queued_iframes
        BY <2>1, <2>2, <2>6
      <3> QED BY <1>1, <3>1, <3>2 DEF StreamSizes
    <2>8. StreamBytes' = StreamBytes
      BY <1>1, <1>4, <2>1 DEF StreamBytes
    <2> QED BY <1>1, <2>1, <2>7, <2>8 DEF InStep, QueueMoves
  <1>11. CASE CopyFrame(r)
    <2> DEFINE entry == taken[r]
               rest == FlattenSeq(Underway) \o dfifo
               later == queued_iframes \o bcfifo
    <2>1. /\ rpc[r] = "copy"
          /\ taken' = [taken EXCEPT ![r] = NoFrame]
          /\ queued_iframes' = queued_iframes
          /\ istream' = Removed(Removed(istream, take_length[r]), StatusLength)
          /\ copied' = [copied EXCEPT ![r] = @ \o Leading(istream, take_length[r])]
      BY <1>11 DEF CopyFrame, NextFrame
    <2>2. /\ entry \in SizeEntry /\ entry # NoFrame /\ entry.size <= Len(istream)
          /\ take_length[r] = entry.size - StatusLength
      BY <1>2, <1>3, <2>1 DEF ReadInv, ReadsKept, Holding
    <2>3. \A v \in Readers \ {r} : taken[v] = NoFrame
      BY <1>5, <2>1 DEF Inside
    <2>4. TakenSizes = << entry >> /\ TakenSizes' = << >>
      <3>1. TakenSizes = << entry >>
        BY <1>6, <2>2, <2>3, SizesInFacts
      <3>2. \A v \in Readers : taken'[v] = NoFrame
        BY <1>2, <2>1, <2>3
      <3>3. TakenSizes' = << >>
        BY <1>6, <3>2, SizesInFacts
      <3> QED BY <3>1, <3>3
    <2>5. /\ entry.size \in Nat /\ StatusLength \in {0, 2} /\ take_length[r] \in Nat
          /\ take_length[r] + StatusLength = entry.size
      <3>1. entry.size \in Nat /\ StatusLength \in {0, 2}
        BY <2>2 DEF SizeEntry, StatusLength
      <3>2. take_length[r] \in Nat
        BY DEF TypeInv, TakeTypes
      <3> QED BY <2>2, <3>1, <3>2
    <2>6. /\ FrameBytes(entry) \in Seq(Byte) /\ Len(FrameBytes(entry)) = entry.size
          /\ \A i \in 1..entry.size :
                FrameBytes(entry)[i] = [frame |-> entry.number, at |-> i]
      BY <2>2, FrameBytesFacts
    <2>7. /\ istream \in Seq(Byte) /\ rest \in Seq(Byte) /\ StreamBytes = istream \o rest
          /\ queued_iframes \in Seq(SizeEntry) /\ bcfifo \in Seq(SizeEntry)
          /\ InStep <=> StreamBytes = FramesOf(StreamSizes)
      BY WaysTypes
    <2>8. later \in Seq(SizeEntry) /\ FramesOf(later) \in Seq(Byte)
      BY <2>7, ConcatProperties, BytesEach
    <2> HIDE DEF entry, rest
    <2>9. StreamSizes = << entry >> \o later /\ StreamSizes' = later
      <3>1. << >> \o queued_iframes = queued_iframes
        BY <2>7, ConcatEmptySeq
      <3> DEFINE one == << entry >>
      <3>2. one \in Seq(SizeEntry)
        BY <2>2
      <3>3. StreamSizes = (one \o queued_iframes) \o bcfifo
        BY <2>4 DEF StreamSizes
      <3>4. StreamSizes' = later
        BY <1>1, <2>1, <2>4, <3>1 DEF StreamSizes
      <3> HIDE DEF one
      <3>5. (one \o queued_iframes) \o bcfifo = one \o (queued_iframes \o bcfifo)
        <4>1. Grouped(one, queued_iframes, bcfifo)
          BY <2>7, <3>2, Regroup
        <4> QED BY <4>1 DEF Grouped
      <3> QED BY <3>3, <3>4, <3>5 DEF one
    <2> HIDE DEF later
    <2>10. FramesOf(StreamSizes) = FrameBytes(entry) \o FramesOf(later)
      <3>1. << entry >> \in Seq(SizeEntry)
        BY <2>2
      <3>2. FramesOf(<< entry >> \o later) = FramesOf(<< entry >>) \o FramesOf(later)
        BY <2>8, <3>1, FramesOfConcat
      <3>3. FramesOf(<< entry >>) = FrameBytes(entry)
        BY <2>2, FramesOfFew
      <3> QED BY <2>9, <3>2, <3>3
    <2>11. istream \o rest = FrameBytes(entry) \o FramesOf(later)
      BY <2>7, <2>10
    <2>12. /\ Removed(istream, entry.size) \o rest = FramesOf(later)
           /\ Leading(istream, entry.size) = FrameBytes(entry)
      <3>1. Len(FrameBytes(entry)) <= Len(istream)
        BY <2>2, <2>6
      <3>2. /\ Removed(istream, Len(FrameBytes(entry))) \o rest = FramesOf(later)
            /\ Leading(istream, Len(FrameBytes(entry))) = FrameBytes(entry)
        BY <2>6, <2>7, <2>8, <2>11, <3>1, CutFront
      <3> QED BY <2>6, <3>2
    <2>13. istream' = Removed(istream, entry.size)
      <3>1. StatusLength \in Nat
        BY <2>5
      <3>2. take_length[r] + StatusLength <= Len(istream)
        BY <2>2, <2>5
      <3>3. Removed(Removed(istream, take_length[r]), StatusLength)
              = Removed(istream, take_length[r] + StatusLength)
        BY <2>5, <2>7, <3>1, <3>2, RemovedTwice
      <3> QED BY <2>1, <2>5, <3>3
    <2>14. InStep'
      <3>1. Removed(istream, entry.size) \in Seq(Byte)
        BY <2>5, <2>7, CutAnywhere
      <3>2. StreamBytes' = (Removed(istream, entry.size) \o FlattenSeq(Underway)) \o dfifo
        BY <1>1, <1>4, <2>13 DEF StreamBytes
      <3>3. StreamBytes' = Removed(istream, entry.size) \o rest
        <4> DEFINE left == Removed(istream, entry.size)
                   middle == FlattenSeq(Underway)
        <4>1. left \in Seq(Byte) /\ middle \in Seq(Byte) /\ dfifo \in Seq(Byte)
          BY <3>1, WaysTypes
        <4>2. StreamBytes' = (left \o middle) \o dfifo
          BY <3>2
        <4> HIDE DEF left, middle
        <4>3. Grouped(left, middle, dfifo)
          BY <4>1, Regroup
        <4> QED BY <4>2, <4>3 DEF left, middle, rest, Grouped
      <3>4. StreamBytes' = FramesOf(StreamSizes')
        BY <2>9, <2>12, <3>3
      <3> QED BY <3>4 DEF InStep, FramesOf
    <2>15. Leading(istream, take_length[r]) = AbstractQueue!Data(entry)
      <3> DEFINE given == Leading(istream, take_length[r])
                 data == [i \in 1..take_length[r] |-> [frame |-> entry.number, at |-> i]]
      <3>1. AbstractQueue!Data(entry) = data
        BY <2>2 DEF AbstractQueue!Data, StatusLength
      <3>2. take_length[r] <= Len(istream) /\ take_length[r] <= entry.size /\ Len(istream) \in Nat
        <4>1. Len(istream) \in Nat
          BY <2>7, LenProperties
        <4> QED BY <2>2, <2>5, <4>1
      <3>3. /\ given \in Seq(Byte) /\ Len(given) = take_length[r]
            /\ \A i \in 1..take_length[r] : given[i] = istream[i]
        BY <2>5, <2>7, <3>2, CutAnywhere
      <3>4. \A i \in 1..entry.size : Leading(istream, entry.size)[i] = istream[i]
        BY <2>2, <2>5, <2>7, CutAnywhere
      <3>5. \A i \in 1..take_length[r] : istream[i] = [frame |-> entry.number, at |-> i]
        <4> SUFFICES ASSUME NEW i \in 1..take_length[r]
                     PROVE  istream[i] = [frame |-> entry.number, at |-> i]
          OBVIOUS
        <4>1. i \in 1..entry.size
          BY <2>5, <3>2
        <4> QED BY <2>6, <2>12, <3>4, <4>1
      <3> HIDE DEF given
      <3>6. given \in [1..take_length[r] -> Byte]
        BY <3>3, LenProperties
      <3>7. given = [i \in 1..take_length[r] |-> given[i]]
        BY <3>6
      <3>8. \A i \in 1..take_length[r] : given[i] = [frame |-> entry.number, at |-> i]
        BY <3>3, <3>5
      <3>9. given = data
        BY <3>7, <3>8
      <3> QED BY <3>1, <3>9 DEF given
    <2>16. Head(StreamSizes) = entry /\ Tail(StreamSizes) = later /\ StreamSizes # << >>
      <3> DEFINE whole == << entry >> \o later
      <3>1. << entry >> \in Seq(SizeEntry)
        BY <2>2
      <3>2. Len(<< entry >>) = 1 /\ << entry >>[1] = entry
        OBVIOUS
      <3>3. Len(later) \in Nat
        BY <2>8, LenProperties
      <3>4. /\ whole \in Seq(SizeEntry) /\ Len(whole) = 1 + Len(later)
            /\ whole[1] = entry
            /\ \A i \in 1..Len(later) : whole[i + 1] = later[i]
        <4> DEFINE one == << entry >>
        <4>1. one \in Seq(SizeEntry) /\ Len(one) = 1 /\ one[1] = entry
          BY <3>1, <3>2
        <4> HIDE DEF one
        <4>2. /\ one \o later \in Seq(SizeEntry) /\ Len(one \o later) = Len(one) + Len(later)
              /\ \A i \in 1..(Len(one) + Len(later)) :
                    (one \o later)[i] = IF i <= Len(one) THEN one[i] ELSE later[i - Len(one)]
          BY <2>8, <4>1, ConcatProperties
        <4> DEFINE both == one \o later
        <4>3. /\ both \in Seq(SizeEntry) /\ Len(both) = 1 + Len(later)
              /\ \A i \in 1..(1 + Len(later)) :
                    both[i] = IF i <= 1 THEN one[i] ELSE later[i - 1]
          BY <4>1, <4>2
        <4> HIDE DEF both
        <4>4. both[1] = entry
          <5>1. 1 \in 1..(1 + Len(later))
            BY <3>3
          <5> QED BY <4>1, <4>3, <5>1
        <4>5. \A i \in 1..Len(later) : both[i + 1] = later[i]
          <5> SUFFICES ASSUME NEW i \in 1..Len(later) PROVE both[i + 1] = later[i]
            OBVIOUS
          <5>1. i + 1 \in 1..(1 + Len(later)) /\ ~(i + 1 <= 1) /\ (i + 1) - 1 = i
            BY <3>3
          <5> QED BY <4>3, <5>1
        <4> QED BY <4>3, <4>4, <4>5 DEF both, one
      <3> HIDE DEF whole
      <3>5. whole # << >>
        BY <3>3, <3>4, EmptySeq
      <3>6. Head(whole) = entry
        BY <3>4, <3>5
      <3>7. /\ Tail(whole) \in Seq(SizeEntry) /\ Len(Tail(whole)) = Len(whole) - 1
            /\ \A i \in 1..Len(Tail(whole)) : Tail(whole)[i] = whole[i + 1]
        BY <3>4, <3>5, HeadTailProperties
      <3>8. Len(Tail(whole)) = Len(later) /\ \A i \in 1..Len(Tail(whole)) : Tail(whole)[i] = later[i]
        BY <3>3, <3>4, <3>7
      <3>9. Tail(whole) = later
        BY <2>8, <3>7, <3>8, SeqEqual
      <3>10. StreamSizes = whole
        BY <2>9 DEF whole
      <3> QED BY <3>5, <3>6, <3>9, <3>10
    <2>17. AbstractQueue!Take(r)
      BY <1>1, <2>1, <2>9, <2>15, <2>16 DEF AbstractQueue!Take
    <2> QED BY <2>14, <2>17 DEF QueueMoves
  <1> QED BY <1>7, <1>8, <1>9, <1>10, <1>11 DEF ReaderStep

\* Every step of frames that are in step.
LEMMA InStepStep ==
  ASSUME TypeInv, ReadInv, Aligned, [Next]_vars, ~streaming', ~disturbed'
  PROVE  InStep' /\ QueueMoves
  <1>1. ~streaming /\ ~disturbed /\ InStep
    <2>1. UNCHANGED << streaming, disturbed >>
      BY Undisturbed
    <2> QED BY <2>1 DEF Aligned
  <1>2. CASE \/ UrbFails \/ SetRxMultiple \/ SetAppendStatus
             \/ (\E c \in Caps : SetMemoryCap(c)) \/ UNCHANGED vars
             \/ (\E q \in Pollers : Poll(q) \/ PollerStep(q) \/ PollEnds(q))
    <2>1. UNCHANGED << dfifo, bcfifo, arrived, completed, cpc, istream, queued_iframes,
                       taken, copied >>
      BY <1>2 DEF UrbFails, SetRxMultiple, SetAppendStatus, SetMemoryCap, vars, cardVars,
                  urbVars, dataVars, readVars, takeVars, Poll, PollerStep, PollDown,
                  PollDownInterrupted, PollWait, PollTest, PollAgain, PollEnds
    <2>2. UNCHANGED << StreamSizes, StreamBytes >>
      BY <2>1 DEF StreamSizes, StreamBytes, TakenSizes, Underway
    <2> QED BY <1>1, <2>1, <2>2 DEF InStep, QueueMoves
  <1>3. ASSUME NEW p \in Purgers, Purge(p) \/ PurgeStep(p)
        PROVE  FALSE
    <2>1. ppc[p] = "idle"
      BY <1>1 DEF ReadInv, ReadsKept
    <2> QED BY <1>3, <2>1 DEF Purge, PurgeStep, ExecuteRRES, ClearQueued, ClearStream
  <1> QED BY <1>1, <1>2, <1>3, InStepLine, InStepBytes, InStepWorker, InStepReader DEF Next

\* At first there is nothing on either way.
LEMMA AlignedInit == Init => Aligned
  <1> SUFFICES ASSUME Init PROVE InStep
    BY DEF Aligned
  <1>1. TypeInv /\ ReadInv
    BY TypeInit, ReadInit
  <1>2. \A r \in Readers : taken[r] = NoFrame
    BY DEF Init
  <1>3. TakenSizes = << >>
    BY <1>2 DEF TakenSizes
  <1>4. << >> \in Seq(Byte) /\ << >> \in Seq(SizeEntry) /\ Len(<< >>) = 0
    BY EmptySeq
  <1>5. << >> \o << >> = << >>
    BY <1>4, ConcatEmptySeq
  <1>6. StreamSizes = << >>
    BY <1>3, <1>5 DEF StreamSizes, Init
  <1>7. FlattenSeq(Underway) = << >>
    BY <1>4, FlattenFew DEF Underway, Init
  <1>8. StreamBytes = << >>
    BY <1>5, <1>7 DEF StreamBytes, Init
  <1>9. FramesOf(<< >>) = << >>
    <2>1. [number |-> 0, size |-> 2] \in SizeEntry
      BY DEF SizeEntry
    <2> QED BY <2>1, FramesOfFew
  <1> QED BY <1>1, <1>6, <1>8, <1>9, WaysTypes

\* Every step keeps them in step.
LEMMA AlignedStep == TypeInv /\ ReadInv /\ Aligned /\ [Next]_vars => Aligned'
  BY InStepStep DEF Aligned

\* Bytes and sizes stay in step: what readers will take are the frames of the
\* line, whole, in order, each once, as long as nothing was disturbed.
THEOREM BytesAndSizesStayInStep == Spec => []Aligned
  <1> QED BY AlignedInit, AlignedStep, ReadInit, ReadStep, DataInit, DataStep, TypeInit,
             TypeStep, PTL DEF Spec

\* The receive path implements the queue of frames.
THEOREM ReceiveImplementsQueue == Spec => ImplementsRxQueue
  <1>1. Init => AbstractQueue!Init
    <2> SUFFICES ASSUME Init PROVE AbstractQueue!Init
      OBVIOUS
    <2>1. \A r \in Readers : taken[r] = NoFrame
      BY DEF Init
    <2>2. TakenSizes = << >>
      BY <2>1 DEF TakenSizes
    <2>3. << >> \o << >> = << >>
      BY EmptySeq, ConcatEmptySeq
    <2>4. StreamSizes = << >>
      BY <2>2, <2>3 DEF StreamSizes, Init
    <2> QED BY <2>4 DEF Init, AbstractQueue!Init
  <1>2. TypeInv /\ ReadInv /\ Aligned /\ [Next]_vars => [AbstractQueue!Next]_(AbstractQueue!vars)
    <2> SUFFICES ASSUME TypeInv, ReadInv, Aligned, [Next]_vars
                 PROVE  [AbstractQueue!Next]_(AbstractQueue!vars)
      OBVIOUS
    <2>1. CASE disturbed' \/ streaming'
      BY <2>1 DEF AbstractQueue!Next
    <2>2. CASE ~disturbed' /\ ~streaming'
      <3>1. UNCHANGED << append_status, streaming, disturbed >>
        BY <2>2, Undisturbed
      <3>2. QueueMoves
        BY <2>2, InStepStep
      <3> QED BY <3>1, <3>2 DEF QueueMoves, AbstractQueue!Next, AbstractQueue!vars
    <2> QED BY <2>1, <2>2
  <1> QED BY <1>1, <1>2, AlignedInit, AlignedStep, ReadInit, ReadStep, DataInit, DataStep,
             TypeInit, TypeStep, PTL
          DEF Spec, ImplementsRxQueue, AbstractQueue!Spec
=============================================================================
