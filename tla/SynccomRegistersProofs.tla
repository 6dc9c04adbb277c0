----------------------- MODULE SynccomRegistersProofs -----------------------
(***************************************************************************)
(* Invariants of the register calls, for any number of processes, any      *)
(* structure, settings, clock bits and faults, and any depth of the        *)
(* endpoint.                                                               *)
(***************************************************************************)
EXTENDS SynccomRegisters, SequenceTheorems, TLAPS

-----------------------------------------------------------------------------
(* Types                                                                   *)

Reply == [reg : Registers, word : Word]

\* A caller at a register has one to go to, and a value if it writes it.
AtRegister ==
  \A c \in Callers :
    /\ cpc[c] \in {"write", "store", "request", "receive"} => todo[c] # << >>
    /\ cpc[c] \in {"write", "store"} => regs[c][Head(todo[c])] \in Word

CallTypes ==
  /\ cpc \in [Callers -> Pcs]
  /\ regs \in [Callers -> [Registers -> Word \cup {Keep, Update}]]
  /\ todo \in [Callers -> Seq(Registers)]
  /\ bits \in [Callers -> Seq({0, 1})]
  /\ words \in [Callers -> Seq(Word)]
  /\ AtRegister

DeviceTypes ==
  /\ requests \in Seq(Message)
  /\ replies \in Seq(Reply)
  /\ card \in [Registers -> Word]
  /\ shifted \in Seq({0, 1})
  /\ latched \in Seq({0, 1})

FaultType == fault \in {"none"} \cup Faults

DriverTypes ==
  /\ register_access_mutex \in Callers \cup {Nobody}
  /\ register_storage \in [Registers -> Word]
  /\ calls \in Nat
  /\ lastSet \in [Registers -> Word]
  /\ lastBits \in Seq({0, 1})
  /\ overlapped \in BOOLEAN
  /\ driven \in BOOLEAN

TypeInv == CallTypes /\ DeviceTypes /\ FaultType /\ DriverTypes

\* What the card and its lines are made of are words.
LEMMA WordTypes ==
  /\ \A v \in Values : Idle(v) \in Word
  /\ Leftovers \subseteq Word
  /\ \A word \in Word, lines \in SUBSET Lines : WithLines(word, lines) \in Word
  BY RegistersAssumption DEF Idle, Word, Lines, WithLines

\* synccom_port_set_clock_bits leaves a sequence of bits.
LEMMA ForcedBitType ==
  ASSUME NEW b \in ClockBits \cup {DefaultBits}
  PROVE  WithForcedBit(b) \in Seq({0, 1})
  <1>1. b \in Seq({0, 1}) /\ ForcedBit \in 1..Len(b)
    BY RegistersAssumption
  <1>2. Len(b) \in Nat /\ b \in [1..Len(b) -> {0, 1}]
    BY <1>1, LenProperties
  <1>3. WithForcedBit(b) \in [1..Len(b) -> {0, 1}]
    BY <1>2 DEF WithForcedBit
  <1> QED BY <1>2, <1>3, SeqDef

\* The clock is programmed with words of FCR, the last one the one that was read.
LEMMA ClockWordsType ==
  ASSUME NEW orig \in Word, NEW b \in Seq({0, 1})
  PROVE  /\ ClockWords(orig, b) \in Seq(Word)
         /\ ClockWords(orig, b) # << >>
         /\ Len(ClockWords(orig, b)) = 2 * Len(b) + 3
         /\ ClockWords(orig, b)[Len(ClockWords(orig, b))] = orig
  <1> DEFINE n == Len(b)
             Data(i) == IF b[i] = 1 THEN {"dta"} ELSE {}
             W(k) == IF k = 1 THEN WithLines(orig, {})
                     ELSE IF k = 2 * n + 2 THEN WithLines(orig, {"strb"})
                     ELSE IF k = 2 * n + 3 THEN orig
                     ELSE IF k % 2 = 0 THEN WithLines(orig, Data(k \div 2) \cup {"clk"})
                     ELSE WithLines(orig, Data(k \div 2))
  <1>1. n \in Nat /\ 2 * n + 3 \in Nat \ {0, 1}
    BY LenProperties
  <1>2. \A k \in 1..(2 * n + 3) : W(k) \in Word
    <2> SUFFICES ASSUME NEW k \in 1..(2 * n + 3) PROVE W(k) \in Word
      OBVIOUS
    <2> DEFINE d == Data(k \div 2)
    <2>1. d \subseteq Lines /\ d \cup {"clk"} \subseteq Lines
      BY DEF Lines
    <2> HIDE DEF d
    <2>2. /\ WithLines(orig, {}) \in Word /\ WithLines(orig, {"strb"}) \in Word
          /\ WithLines(orig, d \cup {"clk"}) \in Word /\ WithLines(orig, d) \in Word
      BY <2>1, WordTypes DEF Lines
    <2> QED BY <2>2 DEF d
  <1>3. ClockWords(orig, b) = [k \in 1..(2 * n + 3) |-> W(k)]
    BY DEF ClockWords
  <1> HIDE DEF W
  <1>4. ClockWords(orig, b) \in [1..(2 * n + 3) -> Word]
    BY <1>2, <1>3
  <1>5. ClockWords(orig, b) \in Seq(Word) /\ Len(ClockWords(orig, b)) = 2 * n + 3
    BY <1>1, <1>4, SeqDef, LenProperties
  <1>6. ClockWords(orig, b) # << >>
    BY <1>1, <1>5, EmptySeq
  <1>7. W(2 * n + 3) = orig
    BY <1>1 DEF W
  <1> QED BY <1>1, <1>3, <1>5, <1>6, <1>7

\* A wanted register of a set has a value.
LEMMA WantedHasValue ==
  ASSUME TypeInv, NEW c \in Callers, cpc[c] = "set", NEW r \in Registers, Wanted(c, r)
  PROVE  regs[c][r] \in Word
  BY DEF TypeInv, CallTypes, Wanted, IsSet

\* The search for the next register stays within the structure.
LEMMA NextRegisterType ==
  ASSUME TypeInv, NEW c \in Callers, NextRegister(c)
  PROVE  /\ todo' \in [Callers -> Seq(Registers)]
         /\ todo'[c] # << >>
         /\ Wanted(c, Head(todo'[c]))
         /\ \A d \in Callers \ {c} : todo'[d] = todo[d]
  <1>1. todo \in [Callers -> Seq(Registers)] /\ todo[c] \in Seq(Registers)
    BY DEF TypeInv, CallTypes
  <1>2. PICK i \in 1..Len(todo[c]) :
          /\ Wanted(c, todo[c][i])
          /\ todo' = [todo EXCEPT ![c] = SubSeq(@, i, Len(@))]
    BY DEF NextRegister
  <1> DEFINE rest == SubSeq(todo[c], i, Len(todo[c]))
  <1>3. Len(todo[c]) \in Nat /\ \A j \in 1..Len(todo[c]) : todo[c][j] \in Registers
    BY <1>1, LenProperties, ElementOfSeq
  <1>4. /\ rest \in Seq(Registers)
        /\ Len(rest) = Len(todo[c]) - i + 1
        /\ \A j \in 1..(Len(todo[c]) - i + 1) : rest[j] = todo[c][i + j - 1]
    BY <1>1, <1>3, SubSeqProperties
  <1>5. rest # << >> /\ Head(rest) = todo[c][i]
    <2>1. i \in 1..Len(todo[c]) /\ Len(todo[c]) \in i..Len(todo[c])
      BY <1>3
    <2>2. Head(SubSeq(todo[c], i, Len(todo[c]))) = todo[c][i]
      BY <1>1, <2>1, HeadTailOfSubSeq
    <2>3. Len(rest) # 0
      BY <1>3, <1>4
    <2>4. rest # << >>
      BY <2>3, EmptySeq
    <2> QED BY <2>2, <2>4
  <1>6. todo'[c] = rest
    BY <1>1, <1>2
  <1> HIDE DEF rest
  <1> QED BY <1>1, <1>2, <1>4, <1>5, <1>6 DEF rest

\* A call at a register has one to do.
LEMMA HeadOfTodo ==
  ASSUME TypeInv, NEW c \in Callers,
         cpc[c] \in {"write", "store", "request", "receive"}
  PROVE  /\ todo[c] \in Seq(Registers) /\ Head(todo[c]) \in Registers
         /\ Tail(todo[c]) \in Seq(Registers)
         /\ cpc[c] \in {"write", "store"} => regs[c][Head(todo[c])] \in Word
  <1>1. todo[c] \in Seq(Registers) /\ todo[c] # << >>
    BY DEF TypeInv, CallTypes, AtRegister
  <1>2. cpc[c] \in {"write", "store"} => regs[c][Head(todo[c])] \in Word
    BY DEF TypeInv, CallTypes, AtRegister
  <1> QED BY <1>1, <1>2, HeadTailProperties

\* Sending keeps the types ...
LEMMA SendTypes ==
  ASSUME TypeInv, NEW request \in Message, Send(request)
  PROVE  requests' \in Seq(Message) /\ FaultType'
  <1>1. requests \in Seq(Message) /\ FaultType
    BY DEF TypeInv, DeviceTypes
  <1>2. Append(requests, request) \in Seq(Message)
    BY <1>1, AppendProperties
  <1> QED BY <1>1, <1>2 DEF FaultType, Send

\* ... what is sent is a message ...
LEMMA Requests ==
  /\ ProgramRequest \in Message
  /\ \A r \in Registers : ReadRequest(r) \in Message
  /\ \A r \in Registers, word \in Word : WriteRequest(r, word) \in Message
  BY DEF ProgramRequest, ReadRequest, WriteRequest, Message

\* ... and so does taking a reply or ceasing to wait for it.
LEMMA ReplyTypes ==
  ASSUME TypeInv, TakeReply \/ ReplyTimesOut
  PROVE  /\ DeviceTypes' /\ FaultType'
         /\ TakeReply => Head(replies).word \in Word
  <1>1. CASE TakeReply
    <2>1. Tail(replies) \in Seq(Reply) /\ Head(replies) \in Reply
      BY <1>1, HeadTailProperties DEF TypeInv, DeviceTypes, TakeReply
    <2>2. Head(replies).word \in Word
      BY <2>1 DEF Reply
    <2> QED BY <1>1, <2>1, <2>2 DEF TakeReply, TypeInv, DeviceTypes, FaultType
  <1>2. CASE ReplyTimesOut
    <2>1. DeviceTypes' /\ FaultType'
      BY <1>2 DEF ReplyTimesOut, TypeInv, DeviceTypes, FaultType, deviceVars
    <2>2. ~TakeReply
      BY <1>2 DEF ReplyTimesOut, TakeReply
    <2> QED BY <2>1, <2>2
  <1> QED BY <1>1, <1>2

\* The types hold at first; and each kind of step keeps them.
LEMMA TypeInit == Init => TypeInv
  <1> SUFFICES ASSUME Init PROVE TypeInv
    OBVIOUS
  <1>1. /\ DefaultValue \in Values /\ Nobody \notin Callers
        /\ Idle(DefaultValue) \in Word
        /\ WithForcedBit(DefaultBits) \in Seq({0, 1})
    BY WordTypes, ForcedBitType, RegistersAssumption
  <1>2. CallTypes
    BY DEF Init, CallTypes, AtRegister, Pcs
  <1>3. DeviceTypes
    <2>1. << >> \in Seq(Message) /\ << >> \in Seq(Reply) /\ << >> \in Seq({0, 1})
      BY EmptySeq
    <2> QED BY <1>1, <2>1 DEF Init, DeviceTypes
  <1>4. FaultType /\ DriverTypes
    BY <1>1 DEF Init, FaultType, DriverTypes
  <1> QED BY <1>2, <1>3, <1>4 DEF TypeInv

\* The card.
LEMMA TypeCard ==
  ASSUME TypeInv, Card
  PROVE  TypeInv'
  <1>1. CallTypes' /\ FaultType' /\ DriverTypes'
    BY DEF TypeInv, Card, CallTypes, AtRegister, FaultType, DriverTypes, callVars,
           historyVars
  <1>2. /\ requests # << >> /\ requests \in Seq(Message) /\ Head(requests) \in Message
        /\ Tail(requests) \in Seq(Message)
    BY HeadTailProperties DEF Card, TypeInv, DeviceTypes
  <1>3. requests' \in Seq(Message)
    BY <1>2 DEF Card
  <1> DEFINE request == Head(requests)
  <1>4. CASE request.op = "write"
    <2>1. request.reg \in Registers /\ request.word \in Word
      BY <1>2, <1>4 DEF Message
    <2>2. card' \in [Registers -> Word] /\ replies' = replies
      BY <1>4, <2>1 DEF Card, TypeInv, DeviceTypes
    <2>3. shifted' \in Seq({0, 1}) /\ latched' \in Seq({0, 1})
      <3>1. CASE UNCHANGED << shifted, latched >>
        BY <3>1 DEF TypeInv, DeviceTypes
      <3>2. CASE ClockGenerator(card[FCR].lines, request.word.lines)
        <4>1. \A bit \in {0, 1} : Append(shifted, bit) \in Seq({0, 1})
          BY AppendProperties DEF TypeInv, DeviceTypes
        <4>2. << >> \in Seq({0, 1})
          BY EmptySeq
        <4> QED BY <3>2, <4>1, <4>2 DEF ClockGenerator, TypeInv, DeviceTypes
      <3> QED BY <1>4, <3>1, <3>2 DEF Card
    <2> QED BY <1>1, <1>3, <2>2, <2>3 DEF TypeInv, DeviceTypes
  <1>5. CASE request.op = "read"
    <2>1. request.reg \in Registers
      BY <1>2, <1>5 DEF Message
    <2>2. [reg |-> request.reg, word |-> card[request.reg]] \in Reply
      BY <2>1 DEF TypeInv, DeviceTypes, Reply
    <2>3. replies' \in Seq(Reply)
      <3>1. replies' = Append(replies, [reg |-> request.reg, word |-> card[request.reg]])
        BY <1>5 DEF Card
      <3>2. replies \in Seq(Reply)
        BY DEF TypeInv, DeviceTypes
      <3> QED BY <2>2, <3>1, <3>2, AppendProperties
    <2> QED BY <1>1, <1>3, <1>5, <2>3 DEF Card, TypeInv, DeviceTypes
  <1>6. CASE request.op = "program"
    BY <1>1, <1>3, <1>6 DEF Card, TypeInv, DeviceTypes
  <1> QED BY <1>4, <1>5, <1>6 DEF Card

\* A call begins.
LEMMA TypeBegin ==
  ASSUME TypeInv, NEW c \in Callers, Begin(c)
  PROVE  TypeInv'
  <1>1. CASE SetRegisters(c) \/ GetRegisters(c) \/ SetNonvolatile(c) \/ GetNonvolatile(c)
    <2>1. DeviceTypes' /\ FaultType' /\ DriverTypes'
      BY <1>1 DEF SetRegisters, GetRegisters, SetNonvolatile, GetNonvolatile, Call,
                  TypeInv, DeviceTypes, FaultType, DriverTypes, deviceVars, historyVars
    <2>2. /\ cpc \in [Callers -> Pcs] /\ todo \in [Callers -> Seq(Registers)]
          /\ regs \in [Callers -> [Registers -> Word \cup {Keep, Update}]]
      BY DEF TypeInv, CallTypes
    <2>3. \E pc \in {"set", "get"} : cpc' = [cpc EXCEPT ![c] = pc]
      BY <1>1 DEF SetRegisters, GetRegisters, SetNonvolatile, GetNonvolatile, Call
    <2>4. \E t \in Seq(Registers) : todo' = [todo EXCEPT ![c] = t]
      <3>1. Struct \in Seq(Registers) /\ << Nonvolatile >> \in Seq(Registers)
        BY RegistersAssumption
      <3> QED BY <1>1, <3>1
              DEF SetRegisters, GetRegisters, SetNonvolatile, GetNonvolatile
    <2>5. \E given \in [Registers -> Word \cup {Keep, Update}] :
            regs' = [regs EXCEPT ![c] = given]
      <3>1. CASE SetRegisters(c)
        <4>1. \A given \in Given : given \in [Registers -> Word \cup {Keep, Update}]
          BY RegistersAssumption
        <4> QED BY <3>1, <4>1 DEF SetRegisters
      <3>2. CASE GetRegisters(c)
        BY <3>2 DEF GetRegisters
      <3>3. CASE SetNonvolatile(c)
        <4>1. PICK v \in Values : regs' = [regs EXCEPT ![c][Nonvolatile] = Idle(v)]
          BY <3>3 DEF SetNonvolatile
        <4>2. [regs[c] EXCEPT ![Nonvolatile] = Idle(v)]
                \in [Registers -> Word \cup {Keep, Update}]
          BY <2>2, WordTypes
        <4> QED BY <4>1, <4>2
      <3>4. CASE GetNonvolatile(c)
        <4>1. [regs[c] EXCEPT ![Nonvolatile] = Update]
                \in [Registers -> Word \cup {Keep, Update}]
          BY <2>2
        <4> QED BY <3>4, <4>1 DEF GetNonvolatile
      <3> QED BY <1>1, <3>1, <3>2, <3>3, <3>4
    <2>6. UNCHANGED << bits, words >>
      BY <1>1 DEF SetRegisters, GetRegisters, SetNonvolatile, GetNonvolatile
    <2>7. AtRegister'
      BY <2>2, <2>3, <2>4, <2>5 DEF TypeInv, CallTypes, AtRegister
    <2> QED BY <2>1, <2>2, <2>3, <2>4, <2>5, <2>6, <2>7 DEF TypeInv, CallTypes, Pcs
  <1>2. CASE SetClockBits(c)
    <2>1. DeviceTypes' /\ FaultType' /\ DriverTypes'
      BY <1>2 DEF SetClockBits, Call, TypeInv, DeviceTypes, FaultType, DriverTypes,
                  deviceVars, historyVars
    <2>2. bits' \in [Callers -> Seq({0, 1})]
      BY <1>2, ForcedBitType DEF SetClockBits, TypeInv, CallTypes
    <2>3. cpc' = [cpc EXCEPT ![c] = "clock"] /\ UNCHANGED << regs, todo, words >>
      BY <1>2 DEF SetClockBits, Call
    <2> QED BY <2>1, <2>2, <2>3 DEF TypeInv, CallTypes, AtRegister, Pcs
  <1>3. CASE Reprogram(c)
    <2>1. requests' \in Seq(Message) /\ FaultType'
      BY <1>3, SendTypes, Requests DEF Reprogram
    <2>2. cpc' = [cpc EXCEPT ![c] = "idle"] /\ UNCHANGED << regs, todo, bits, words >>
      BY <1>3 DEF Reprogram, Call
    <2>3. CallTypes'
      BY <2>2 DEF TypeInv, CallTypes, AtRegister, Pcs
    <2> QED BY <1>3, <2>1, <2>3
            DEF Reprogram, Call, TypeInv, DeviceTypes, DriverTypes, historyVars
  <1> QED BY <1>1, <1>2, <1>3 DEF Begin

\* A call takes the mutex.
LEMMA TypeLock ==
  ASSUME TypeInv, NEW c \in Callers, Lock(c)
  PROVE  TypeInv'
  <1>1. DeviceTypes' /\ FaultType' /\ DriverTypes'
    BY DEF Lock, LockForSet, LockForGet, LockForClock, TypeInv, DeviceTypes, FaultType,
           DriverTypes, deviceVars, historyVars
  <1>2. UNCHANGED << regs, bits, words >>
    BY DEF Lock, LockForSet, LockForGet, LockForClock
  <1>3. CASE LockForSet(c) \/ LockForGet(c)
    <2>1. /\ todo' \in [Callers -> Seq(Registers)]
          /\ todo'[c] # << >>
          /\ Wanted(c, Head(todo'[c]))
          /\ \A d \in Callers \ {c} : todo'[d] = todo[d]
      BY <1>3, NextRegisterType DEF LockForSet, LockForGet
    <2>2. \E pc \in {"write", "request"} :
            cpc' = [cpc EXCEPT ![c] = pc] /\ (pc = "write" => cpc[c] = "set")
      BY <1>3 DEF LockForSet, LockForGet
    <2>3. cpc[c] = "set" => regs[c][Head(todo'[c])] \in Word
      <3>1. Head(todo'[c]) \in Registers
        <4>1. todo'[c] \in Seq(Registers)
          BY <2>1
        <4> QED BY <2>1, <4>1, HeadTailProperties
      <3> QED BY <2>1, <3>1, WantedHasValue
    <2>4. AtRegister'
      BY <1>2, <2>1, <2>2, <2>3 DEF TypeInv, CallTypes, AtRegister
    <2> QED BY <1>1, <1>2, <2>1, <2>2, <2>4 DEF TypeInv, CallTypes, Pcs
  <1>4. CASE LockForClock(c)
    <2>1. cpc' = [cpc EXCEPT ![c] = "request_fcr"] /\ UNCHANGED todo
      BY <1>4 DEF LockForClock
    <2> QED BY <1>1, <1>2, <2>1 DEF TypeInv, CallTypes, AtRegister, Pcs
  <1> QED BY <1>3, <1>4 DEF Lock

\* Setting registers.
LEMMA TypeSetter ==
  ASSUME TypeInv, NEW c \in Callers, WriteRegister(c) \/ StoreRegister(c)
  PROVE  TypeInv'
  <1> DEFINE r == Head(todo[c])
  <1>1. /\ r \in Registers /\ regs[c][r] \in Word /\ Tail(todo[c]) \in Seq(Registers)
    BY HeadOfTodo DEF WriteRegister, StoreRegister
  <1> HIDE DEF r
  <1>2. CASE WriteRegister(c)
    <2>1. requests' \in Seq(Message) /\ FaultType'
      BY <1>1, <1>2, SendTypes, Requests DEF WriteRegister, r
    <2>2. DeviceTypes'
      BY <1>2, <2>1 DEF WriteRegister, TypeInv, DeviceTypes
    <2>3. DriverTypes'
      BY <1>1, <1>2 DEF WriteRegister, TypeInv, DriverTypes, r
    <2>4. CallTypes'
      BY <1>2 DEF WriteRegister, TypeInv, CallTypes, AtRegister, Pcs
    <2> QED BY <2>1, <2>2, <2>3, <2>4 DEF TypeInv
  <1>3. CASE StoreRegister(c)
    <2>1. DeviceTypes' /\ FaultType'
      BY <1>3 DEF StoreRegister, TypeInv, DeviceTypes, FaultType, deviceVars
    <2>2. DriverTypes'
      BY <1>1, <1>3 DEF StoreRegister, TypeInv, DriverTypes, historyVars, r
    <2>3. CallTypes'
      BY <1>1, <1>3 DEF StoreRegister, TypeInv, CallTypes, AtRegister, Pcs
    <2> QED BY <2>1, <2>2, <2>3 DEF TypeInv
  <1> QED BY <1>2, <1>3

\* Reading a register back.
LEMMA TypeGetter ==
  ASSUME TypeInv, NEW c \in Callers,
         RequestRegister(c) \/ ReceiveRegister(c) \/ ReceiveTimesOut(c)
  PROVE  TypeInv'
  <1>1. CASE RequestRegister(c)
    <2>1. Head(todo[c]) \in Registers
      BY <1>1, HeadOfTodo DEF RequestRegister
    <2>2. requests' \in Seq(Message) /\ FaultType'
      BY <1>1, <2>1, SendTypes, Requests DEF RequestRegister
    <2>3. DeviceTypes' /\ DriverTypes'
      BY <1>1, <2>2 DEF RequestRegister, TypeInv, DeviceTypes, DriverTypes, historyVars
    <2>4. CallTypes'
      BY <1>1 DEF RequestRegister, TypeInv, CallTypes, AtRegister, Pcs
    <2> QED BY <2>2, <2>3, <2>4 DEF TypeInv
  <1>2. CASE ReceiveRegister(c) \/ ReceiveTimesOut(c)
    <2>1. cpc[c] = "receive" /\ (TakeReply \/ ReplyTimesOut)
      BY <1>2 DEF ReceiveRegister, ReceiveTimesOut
    <2>2. DeviceTypes' /\ FaultType' /\ (TakeReply => Head(replies).word \in Word)
      BY <2>1, ReplyTypes
    <2>3. PICK word \in Word : Received(c, word)
      BY <1>2, <2>2, WordTypes DEF ReceiveRegister, ReceiveTimesOut
    <2>4. Head(todo[c]) \in Registers /\ Tail(todo[c]) \in Seq(Registers)
      BY <2>1, HeadOfTodo
    <2>5. DriverTypes'
      BY <2>3 DEF Received, TypeInv, DriverTypes, historyVars
    <2>6. [regs[c] EXCEPT ![Head(todo[c])] = word]
            \in [Registers -> Word \cup {Keep, Update}]
      BY <2>3, <2>4 DEF TypeInv, CallTypes
    <2>7. CallTypes'
      BY <2>3, <2>4, <2>6 DEF Received, TypeInv, CallTypes, AtRegister, Pcs
    <2> QED BY <2>2, <2>5, <2>7 DEF TypeInv
  <1> QED BY <1>1, <1>2

\* Programming the clock.
LEMMA TypeClock ==
  ASSUME TypeInv, NEW c \in Callers,
         \/ RequestFcr(c) \/ ReceiveFcr(c) \/ ReceiveFcrTimesOut(c)
         \/ WriteWord(c) \/ UnlockClock(c)
  PROVE  TypeInv'
  <1>1. CASE RequestFcr(c)
    <2>1. requests' \in Seq(Message) /\ FaultType'
      BY <1>1, RegistersAssumption, SendTypes, Requests DEF RequestFcr
    <2>2. DeviceTypes' /\ DriverTypes'
      BY <1>1, <2>1 DEF RequestFcr, TypeInv, DeviceTypes, DriverTypes, historyVars
    <2>3. CallTypes'
      BY <1>1 DEF RequestFcr, TypeInv, CallTypes, AtRegister, Pcs
    <2> QED BY <2>1, <2>2, <2>3 DEF TypeInv
  <1>2. CASE ReceiveFcr(c) \/ ReceiveFcrTimesOut(c)
    <2>1. DeviceTypes' /\ FaultType' /\ (TakeReply => Head(replies).word \in Word)
      BY <1>2, ReplyTypes DEF ReceiveFcr, ReceiveFcrTimesOut
    <2>2. PICK orig \in Word : Programs(c, orig)
      BY <1>2, <2>1, WordTypes DEF ReceiveFcr, ReceiveFcrTimesOut
    <2>3. bits[c] \in Seq({0, 1})
      BY DEF TypeInv, CallTypes
    <2>4. ClockWords(orig, bits[c]) \in Seq(Word)
      BY <2>2, <2>3, ClockWordsType
    <2>5. DriverTypes'
      BY <1>2, <2>2 DEF ReceiveFcr, ReceiveFcrTimesOut, Programs, TypeInv, DriverTypes,
                        historyVars
    <2>6. CallTypes'
      BY <2>2, <2>4 DEF Programs, TypeInv, CallTypes, AtRegister, Pcs
    <2> QED BY <2>1, <2>5, <2>6 DEF TypeInv
  <1>3. CASE WriteWord(c)
    <2>1. words[c] \in Seq(Word) /\ words[c] # << >>
      BY <1>3 DEF WriteWord, TypeInv, CallTypes
    <2>2. Head(words[c]) \in Word /\ Tail(words[c]) \in Seq(Word)
      BY <2>1, HeadTailProperties
    <2>3. requests' \in Seq(Message) /\ FaultType'
      BY <1>3, <2>2, RegistersAssumption, SendTypes, Requests DEF WriteWord
    <2>4. DeviceTypes' /\ DriverTypes'
      BY <1>3, <2>3 DEF WriteWord, TypeInv, DeviceTypes, DriverTypes, historyVars
    <2>5. CallTypes'
      BY <1>3, <2>2 DEF WriteWord, TypeInv, CallTypes, AtRegister
    <2> QED BY <2>3, <2>4, <2>5 DEF TypeInv
  <1>4. CASE UnlockClock(c)
    <2>1. DeviceTypes' /\ FaultType'
      BY <1>4 DEF UnlockClock, TypeInv, DeviceTypes, FaultType, deviceVars
    <2>2. DriverTypes'
      BY <1>4 DEF UnlockClock, TypeInv, CallTypes, DriverTypes
    <2>3. CallTypes'
      BY <1>4 DEF UnlockClock, TypeInv, CallTypes, AtRegister, Pcs
    <2> QED BY <2>1, <2>2, <2>3 DEF TypeInv
  <1> QED BY <1>1, <1>2, <1>3, <1>4

\* A call returns.
LEMMA TypeReturn ==
  ASSUME TypeInv, NEW c \in Callers, Return(c)
  PROVE  TypeInv'
  <1>1. DeviceTypes' /\ FaultType' /\ DriverTypes'
    BY DEF Return, TypeInv, DeviceTypes, FaultType, DriverTypes, deviceVars, historyVars
  <1>2. CallTypes'
    <2>1. << >> \in Seq(Registers) /\ << >> \in Seq({0, 1})
      BY EmptySeq
    <2>2. cpc' = [cpc EXCEPT ![c] = "idle"]
      BY DEF Return
    <2>3. AtRegister'
      BY <2>2 DEF Return, TypeInv, CallTypes, AtRegister
    <2> QED BY <2>1, <2>3 DEF Return, TypeInv, CallTypes, Pcs
  <1> QED BY <1>1, <1>2 DEF TypeInv

\* So every step keeps the types.
LEMMA TypeStep == TypeInv /\ [Next]_vars => TypeInv'
  <1> SUFFICES ASSUME TypeInv, [Next]_vars PROVE TypeInv'
    OBVIOUS
  <1>1. CASE UNCHANGED vars
    BY <1>1 DEF vars, callVars, deviceVars, historyVars, TypeInv, CallTypes, AtRegister,
                DeviceTypes, FaultType, DriverTypes
  <1>2. ASSUME NEW c \in Callers, GoOn(c)
        PROVE  TypeInv'
    BY <1>2, TypeSetter, TypeGetter, TypeClock, TypeReturn DEF GoOn
  <1> QED BY <1>1, <1>2, TypeCard, TypeBegin, TypeLock DEF Next

\* The type invariant: also that a caller which writes a register has a value for
\* it (synccom_port_set_registers passes over the others).
THEOREM TypeCorrect == Spec => []TypeInv
  BY TypeInit, TypeStep, PTL DEF Spec

\* Every variable of the register calls keeps its type.
THEOREM TypesHold == Spec => []TypeOK
  <1>1. TypeInv => TypeOK
    BY DEF TypeInv, CallTypes, DeviceTypes, FaultType, DriverTypes, TypeOK, Reply
  <1> QED BY <1>1, TypeCorrect, PTL
-----------------------------------------------------------------------------
(* The mutex                                                               *)

Holding == {"write", "request", "receive", "request_fcr", "receive_fcr", "words"}

MutexInv == \A c \in Callers : cpc[c] \in Holding <=> register_access_mutex = c

\* Every step leaves the mutex with the call that is inside it.
LEMMA MutexStep == TypeInv /\ MutexInv /\ [Next]_vars => MutexInv'
  <1> SUFFICES ASSUME TypeInv, MutexInv, [Next]_vars PROVE MutexInv'
    OBVIOUS
  <1>1. cpc \in [Callers -> Pcs] /\ Nobody \notin Callers
    BY RegistersAssumption DEF TypeInv, CallTypes
  <1>2. CASE Card \/ UNCHANGED vars
    BY <1>2 DEF Card, vars, callVars, MutexInv
  <1>3. ASSUME NEW c \in Callers, Begin(c)
        PROVE  MutexInv'
    <2>1. register_access_mutex' = register_access_mutex
      BY <1>3 DEF Begin, SetRegisters, SetNonvolatile, GetRegisters, GetNonvolatile,
                  SetClockBits, Reprogram
    <2>2. \E pc \in {"set", "get", "clock", "idle"} :
            cpc[c] = "idle" /\ cpc' = [cpc EXCEPT ![c] = pc]
      BY <1>3 DEF Begin, SetRegisters, SetNonvolatile, GetRegisters, GetNonvolatile,
                  SetClockBits, Reprogram, Call
    <2> QED BY <1>1, <2>1, <2>2 DEF MutexInv, Holding
  <1>4. ASSUME NEW c \in Callers, Lock(c)
        PROVE  MutexInv'
    <2>1. register_access_mutex = Nobody /\ register_access_mutex' = c
      BY <1>4 DEF Lock, LockForSet, LockForGet, LockForClock
    <2>2. \E pc \in Holding : cpc' = [cpc EXCEPT ![c] = pc]
      BY <1>4 DEF Lock, LockForSet, LockForGet, LockForClock, Holding
    <2> QED BY <1>1, <2>1, <2>2 DEF MutexInv
  <1>5. ASSUME NEW c \in Callers,
               \/ RequestRegister(c) \/ RequestFcr(c)
               \/ ReceiveFcr(c) \/ ReceiveFcrTimesOut(c) \/ WriteWord(c)
        PROVE  MutexInv'
    <2>1. register_access_mutex' = register_access_mutex
      BY <1>5 DEF RequestRegister, RequestFcr, ReceiveFcr, ReceiveFcrTimesOut, WriteWord
    <2>2. cpc[c] \in Holding /\ \E pc \in Holding : cpc' = [cpc EXCEPT ![c] = pc]
      BY <1>1, <1>5 DEF RequestRegister, RequestFcr, ReceiveFcr, ReceiveFcrTimesOut,
                        WriteWord, Programs, Holding
    <2> QED BY <1>1, <2>1, <2>2 DEF MutexInv
  <1>6. ASSUME NEW c \in Callers,
               WriteRegister(c) \/ ReceiveRegister(c) \/ ReceiveTimesOut(c) \/ UnlockClock(c)
        PROVE  MutexInv'
    <2>1. register_access_mutex' = Nobody /\ cpc[c] \in Holding
      BY <1>6 DEF WriteRegister, ReceiveRegister, ReceiveTimesOut, UnlockClock, Received,
                  Holding
    <2>2. \E pc \in {"store", "get", "clock_done"} : cpc' = [cpc EXCEPT ![c] = pc]
      BY <1>6 DEF WriteRegister, ReceiveRegister, ReceiveTimesOut, UnlockClock, Received
    <2> QED BY <1>1, <2>1, <2>2 DEF MutexInv, Holding
  <1>7. ASSUME NEW c \in Callers, StoreRegister(c) \/ Return(c)
        PROVE  MutexInv'
    <2>1. register_access_mutex' = register_access_mutex /\ cpc[c] \notin Holding
      BY <1>7 DEF StoreRegister, Return, Holding
    <2>2. \E pc \in {"set", "idle"} : cpc' = [cpc EXCEPT ![c] = pc]
      BY <1>7 DEF StoreRegister, Return
    <2> QED BY <1>1, <2>1, <2>2 DEF MutexInv, Holding
  <1> QED BY <1>2, <1>3, <1>4, <1>5, <1>6, <1>7 DEF Next, GoOn

-----------------------------------------------------------------------------
(* Replies are paired with requests                                        *)

Awaiting(c) == register_access_mutex = c /\ cpc[c] \in {"receive", "receive_fcr"}

\* A read the card has not carried out yet belongs to the caller that holds the
\* mutex and waits; only firmware lines, which take no mutex, come behind it.
ReadsInv ==
  \A i \in 1..Len(requests) : requests[i].op = "read" =>
    /\ replies = << >>
    /\ \E c \in Callers : Awaiting(c) /\ requests[i].reg = AwaitedBy(c)
    /\ \A j \in (i + 1)..Len(requests) : requests[j].op = "program"

\* And a reply is the only one, and nothing that is left changes the register.
RepliesInv ==
  replies # << >> =>
    /\ Len(replies) = 1
    /\ \E c \in Callers :
         Awaiting(c) /\ replies[1] = [reg |-> AwaitedBy(c), word |-> card[AwaitedBy(c)]]
    /\ \A i \in 1..Len(requests) : requests[i].op = "program"

PairInv == fault # "late" => ReadsInv /\ RepliesInv

\* Where nobody waits there is neither a read nor a reply.
NobodyWaits == \A c \in Callers : ~Awaiting(c)

\* Where no call waits for a reply, none is asked for and none is on its way.
LEMMA NoReads ==
  ASSUME ReadsInv, RepliesInv, NobodyWaits
  PROVE  replies = << >> /\ \A i \in 1..Len(requests) : requests[i].op # "read"
  BY DEF ReadsInv, RepliesInv, NobodyWaits

\* A message has been sent, and the rest of the device stays.
Sent(request) ==
  requests' \in {requests, Append(requests, request)} /\ UNCHANGED << replies, card >>

\* What the call inside the mutex sends keeps requests and replies paired.
LEMMA PairSend ==
  ASSUME TypeInv, NEW request \in Message, Sent(request), ReadsInv, RepliesInv,
         NobodyWaits,
         request.op = "read" =>
           \E c \in Callers : Awaiting(c)' /\ request.reg = AwaitedBy(c)'
  PROVE  ReadsInv' /\ RepliesInv'
  <1>1. replies = << >> /\ \A i \in 1..Len(requests) : requests[i].op # "read"
    BY NoReads
  <1>2. RepliesInv' /\ replies' = << >>
    BY <1>1 DEF RepliesInv, Sent
  <1>3. CASE requests' = requests
    BY <1>1, <1>2, <1>3 DEF ReadsInv
  <1>4. CASE requests' = Append(requests, request)
    <2>1. requests \in Seq(Message)
      BY DEF TypeInv, DeviceTypes
    <2>2. /\ Len(requests) \in Nat /\ Len(requests') = Len(requests) + 1
          /\ \A i \in 1..Len(requests) : requests'[i] = requests[i]
          /\ requests'[Len(requests) + 1] = request
      BY <1>4, <2>1, AppendProperties, LenProperties
    <2>3. SUFFICES ASSUME NEW i \in 1..Len(requests'), requests'[i].op = "read"
                   PROVE  /\ \E c \in Callers : Awaiting(c)' /\ requests'[i].reg = AwaitedBy(c)'
                          /\ \A j \in (i + 1)..Len(requests') : requests'[j].op = "program"
      BY <1>2 DEF ReadsInv
    <2>4. i = Len(requests) + 1
      BY <1>1, <2>2, <2>3
    <2> QED BY <2>2, <2>3, <2>4
  <1> QED BY <1>2, <1>3, <1>4 DEF Sent

\* A firmware line is nothing that anybody waits for.
LEMMA PairProgram ==
  ASSUME TypeInv, ReadsInv, RepliesInv, Sent(ProgramRequest),
         \A c \in Callers : Awaiting(c) => Awaiting(c)' /\ AwaitedBy(c)' = AwaitedBy(c)
  PROVE  ReadsInv' /\ RepliesInv'
  <1>1. requests \in Seq(Message) /\ Len(requests) \in Nat
    BY LenProperties DEF TypeInv, DeviceTypes
  <1>2. ProgramRequest.op = "program" /\ ProgramRequest \in Message
    BY Requests DEF ProgramRequest
  <1>3. /\ Len(requests') \in {Len(requests), Len(requests) + 1}
        /\ \A i \in 1..Len(requests) : requests'[i] = requests[i]
        /\ Len(requests') # Len(requests) => requests'[Len(requests) + 1].op = "program"
    BY <1>1, <1>2, AppendProperties DEF Sent
  <1>4. \A i \in 1..Len(requests') : i \in 1..Len(requests) \/ requests'[i].op = "program"
    BY <1>1, <1>3
  <1>5. UNCHANGED << replies, card >>
    BY DEF Sent
  <1>6. RepliesInv'
    BY <1>3, <1>4, <1>5 DEF RepliesInv
  <1>7. ReadsInv'
    <2> SUFFICES ASSUME NEW i \in 1..Len(requests'), requests'[i].op = "read"
                 PROVE  /\ replies' = << >>
                        /\ \E c \in Callers : Awaiting(c)' /\ requests'[i].reg = AwaitedBy(c)'
                        /\ \A j \in (i + 1)..Len(requests') : requests'[j].op = "program"
      BY DEF ReadsInv
    <2>1. i \in 1..Len(requests) /\ requests[i].op = "read" /\ requests'[i] = requests[i]
      BY <1>3, <1>4
    <2>2. /\ replies = << >>
          /\ \E c \in Callers : Awaiting(c) /\ requests[i].reg = AwaitedBy(c)
          /\ \A j \in (i + 1)..Len(requests) : requests[j].op = "program"
      BY <2>1 DEF ReadsInv
    <2>3. \A j \in (i + 1)..Len(requests') : requests'[j].op = "program"
      BY <1>1, <1>3, <1>4, <2>2
    <2> QED BY <1>5, <2>1, <2>2, <2>3
  <1> QED BY <1>6, <1>7

\* The card carries out a request.
LEMMA PairCard ==
  ASSUME TypeInv, ReadsInv, RepliesInv, Card
  PROVE  ReadsInv' /\ RepliesInv'
  <1> DEFINE request == Head(requests)
  <1>1. requests \in Seq(Message) /\ requests # << >> /\ request = requests[1]
    BY DEF Card, TypeInv, DeviceTypes
  <1>2. /\ Len(requests) \in Nat \ {0} /\ Len(requests') = Len(requests) - 1
        /\ \A i \in 1..Len(requests') : requests'[i] = requests[i + 1]
    BY <1>1, EmptySeq, HeadTailProperties DEF Card
  <1>3. \A c \in Callers : (Awaiting(c)' <=> Awaiting(c)) /\ AwaitedBy(c)' = AwaitedBy(c)
    BY DEF Card, callVars, Awaiting, AwaitedBy
  <1> HIDE DEF request
  <1>4. CASE request.op = "read"
    <2>1. /\ replies = << >>
          /\ \E c \in Callers : Awaiting(c) /\ requests[1].reg = AwaitedBy(c)
          /\ \A j \in 2..Len(requests) : requests[j].op = "program"
      BY <1>1, <1>2, <1>4 DEF ReadsInv
    <2>2. \A i \in 1..Len(requests') : requests'[i].op = "program"
      BY <1>2, <2>1
    <2>3. /\ card' = card
          /\ replies' = Append(replies, [reg |-> requests[1].reg, word |-> card[requests[1].reg]])
      BY <1>1, <1>4 DEF Card, request
    <2>4. Len(replies') = 1 /\ replies'[1] = [reg |-> requests[1].reg, word |-> card[requests[1].reg]]
      BY <2>1, <2>3
    <2>5. RepliesInv'
      BY <1>3, <2>1, <2>2, <2>3, <2>4 DEF RepliesInv
    <2> QED BY <2>2, <2>5 DEF ReadsInv
  <1>5. CASE request.op # "read"
    <2>1. replies' = replies
      BY <1>5 DEF Card, request
    <2>2. RepliesInv'
      <3> SUFFICES ASSUME replies # << >> PROVE RepliesInv'
        BY <2>1 DEF RepliesInv
      <3>1. /\ Len(replies) = 1
            /\ \E c \in Callers :
                 Awaiting(c) /\ replies[1] = [reg |-> AwaitedBy(c), word |-> card[AwaitedBy(c)]]
            /\ \A i \in 1..Len(requests) : requests[i].op = "program"
        BY DEF RepliesInv
      <3>2. request.op = "program"
        BY <1>1, <1>2, <3>1
      <3>3. card' = card
        BY <3>2 DEF Card, request
      <3>4. \A i \in 1..Len(requests') : requests'[i].op = "program"
        BY <1>2, <3>1
      <3> QED BY <1>3, <2>1, <3>1, <3>3, <3>4 DEF RepliesInv
    <2>3. ReadsInv'
      <3> SUFFICES ASSUME NEW i \in 1..Len(requests'), requests'[i].op = "read"
                   PROVE  /\ replies' = << >>
                          /\ \E c \in Callers : Awaiting(c)' /\ requests'[i].reg = AwaitedBy(c)'
                          /\ \A j \in (i + 1)..Len(requests') : requests'[j].op = "program"
        BY DEF ReadsInv
      <3>1. i + 1 \in 1..Len(requests) /\ requests'[i] = requests[i + 1]
        BY <1>2
      <3>2. /\ replies = << >>
            /\ \E c \in Callers : Awaiting(c) /\ requests[i + 1].reg = AwaitedBy(c)
            /\ \A j \in (i + 2)..Len(requests) : requests[j].op = "program"
        BY <1>2, <3>1 DEF ReadsInv
      <3>3. \A j \in (i + 1)..Len(requests') :
              j \in 1..Len(requests') /\ j + 1 \in (i + 2)..Len(requests)
        BY <1>2
      <3> QED BY <1>2, <1>3, <2>1, <3>1, <3>2, <3>3
    <2> QED BY <2>2, <2>3
  <1> QED BY <1>4, <1>5
\* A step that concerns neither the device nor who waits.
LEMMA PairElsewhere ==
  ASSUME ReadsInv, RepliesInv, UNCHANGED << requests, replies, card >>,
         \A c \in Callers : Awaiting(c) => Awaiting(c)' /\ AwaitedBy(c)' = AwaitedBy(c)
  PROVE  ReadsInv' /\ RepliesInv'
  BY DEF ReadsInv, RepliesInv

\* A step of the caller that holds the mutex, or takes it, while nobody waits.
LEMMA PairIdle ==
  ASSUME ReadsInv, RepliesInv, NobodyWaits, UNCHANGED << requests, replies >>
  PROVE  ReadsInv' /\ RepliesInv'
  <1>1. replies = << >> /\ \A i \in 1..Len(requests) : requests[i].op # "read"
    BY NoReads
  <1> QED BY <1>1 DEF ReadsInv, RepliesInv

\* The reply that was there has been taken.
LEMMA PairTake ==
  ASSUME TypeInv, ReadsInv, RepliesInv, TakeReply
  PROVE  ReadsInv' /\ RepliesInv'
  <1>1. replies # << >> /\ replies \in Seq(Reply) /\ replies' = Tail(replies)
        /\ requests' = requests
    BY DEF TakeReply, TypeInv, DeviceTypes
  <1>2. Len(replies) = 1 /\ \A i \in 1..Len(requests) : requests[i].op = "program"
    BY <1>1 DEF RepliesInv
  <1>3. replies' = << >>
    <2>1. Tail(replies) \in Seq(Reply) /\ Len(Tail(replies)) = 0
      BY <1>1, <1>2, HeadTailProperties
    <2> QED BY <1>1, <2>1, EmptySeq
  <1> QED BY <1>1, <1>2, <1>3 DEF ReadsInv, RepliesInv

\* While one holds the mutex nobody else waits.
LEMMA HolderAlone ==
  ASSUME MutexInv, NEW c \in Callers, cpc[c] \in Holding,
         cpc[c] \notin {"receive", "receive_fcr"}
  PROVE  NobodyWaits
  BY DEF MutexInv, NobodyWaits, Awaiting

\* Who is not at a register or at the clock is not waited with.
LEMMA OthersWait ==
  ASSUME TypeInv, NEW c \in Callers, cpc[c] \notin {"receive", "receive_fcr"},
         register_access_mutex' = register_access_mutex,
         \A d \in Callers \ {c} : cpc'[d] = cpc[d] /\ todo'[d] = todo[d]
  PROVE  \A d \in Callers : Awaiting(d) => Awaiting(d)' /\ AwaitedBy(d)' = AwaitedBy(d)
  BY DEF Awaiting, AwaitedBy

\* The only fault that happens stays.
LEMMA FaultStays == [Next]_vars => fault' = fault \/ fault = "none"
  <1> SUFFICES ASSUME [Next]_vars PROVE fault' = fault \/ fault = "none"
    OBVIOUS
  <1>1. ASSUME NEW c \in Callers, Begin(c) \/ Lock(c)
        PROVE  fault' = fault \/ fault = "none"
    BY <1>1 DEF Begin, SetRegisters, SetNonvolatile, GetRegisters, GetNonvolatile,
                SetClockBits, Reprogram, Lock, LockForSet, LockForGet, LockForClock, Send
  <1>2. ASSUME NEW c \in Callers, GoOn(c)
        PROVE  fault' = fault \/ fault = "none"
    BY <1>2 DEF GoOn, WriteRegister, StoreRegister, RequestRegister, ReceiveRegister,
                ReceiveTimesOut, RequestFcr, ReceiveFcr, ReceiveFcrTimesOut, WriteWord,
                UnlockClock, Return, Send, TakeReply, ReplyTimesOut
  <1> QED BY <1>1, <1>2 DEF Next, Card, vars

\* Every step keeps requests and replies paired.
LEMMA PairStep == TypeInv /\ MutexInv /\ PairInv /\ [Next]_vars => PairInv'
  <1> SUFFICES ASSUME TypeInv, MutexInv, PairInv, [Next]_vars, fault' # "late"
               PROVE  ReadsInv' /\ RepliesInv'
    BY DEF PairInv
  <1>1. ReadsInv /\ RepliesInv
    BY FaultStays DEF PairInv
  <1>2. cpc \in [Callers -> Pcs] /\ todo \in [Callers -> Seq(Registers)]
        /\ Nobody \notin Callers
    BY RegistersAssumption DEF TypeInv, CallTypes
  <1>3. CASE UNCHANGED vars
    BY <1>1, <1>3, PairElsewhere DEF vars, callVars, deviceVars, Awaiting, AwaitedBy
  <1>4. ASSUME NEW c \in Callers, Begin(c)
        PROVE  ReadsInv' /\ RepliesInv'
    <2>1. /\ cpc[c] = "idle" /\ register_access_mutex' = register_access_mutex
          /\ \A d \in Callers \ {c} : cpc'[d] = cpc[d] /\ todo'[d] = todo[d]
      BY <1>2, <1>4
         DEF Begin, SetRegisters, SetNonvolatile, GetRegisters, GetNonvolatile,
             SetClockBits, Reprogram, Call
    <2>2. \A d \in Callers : Awaiting(d) => Awaiting(d)' /\ AwaitedBy(d)' = AwaitedBy(d)
      BY <2>1, OthersWait
    <2>3. CASE Reprogram(c)
      <3>1. Sent(ProgramRequest)
        BY <2>3 DEF Reprogram, Send, Sent
      <3> QED BY <1>1, <2>2, <3>1, PairProgram
    <2>4. CASE ~Reprogram(c)
      <3>1. UNCHANGED << requests, replies, card >>
        BY <1>4, <2>4
           DEF Begin, SetRegisters, SetNonvolatile, GetRegisters, GetNonvolatile,
               SetClockBits, deviceVars
      <3> QED BY <1>1, <2>2, <3>1, PairElsewhere
    <2> QED BY <2>3, <2>4
  <1>5. ASSUME NEW c \in Callers, Lock(c)
        PROVE  ReadsInv' /\ RepliesInv'
    <2>1. NobodyWaits /\ UNCHANGED << requests, replies >>
      BY <1>2, <1>5 DEF Lock, LockForSet, LockForGet, LockForClock, deviceVars,
                        NobodyWaits, Awaiting
    <2> QED BY <1>1, <2>1, PairIdle
  <1>6. ASSUME NEW c \in Callers, WriteRegister(c) \/ WriteWord(c)
        PROVE  ReadsInv' /\ RepliesInv'
    <2>1. NobodyWaits
      BY <1>6, HolderAlone DEF WriteRegister, WriteWord, Holding
    <2>2. PICK request \in Message : request.op = "write" /\ Sent(request)
      <3>1. CASE WriteRegister(c)
        <4>1. WriteRequest(Head(todo[c]), regs[c][Head(todo[c])]) \in Message
          BY <3>1, HeadOfTodo, Requests DEF WriteRegister
        <4>2. Sent(WriteRequest(Head(todo[c]), regs[c][Head(todo[c])]))
          BY <3>1 DEF WriteRegister, Send, Sent
        <4> QED BY <4>1, <4>2 DEF WriteRequest
      <3>2. CASE WriteWord(c)
        <4>1. Head(words[c]) \in Word
          BY <3>2, HeadTailProperties DEF WriteWord, TypeInv, CallTypes
        <4>2. WriteRequest(FCR, Head(words[c])) \in Message
          BY <4>1, RegistersAssumption, Requests
        <4>3. Sent(WriteRequest(FCR, Head(words[c])))
          BY <3>2 DEF WriteWord, Send, Sent
        <4> QED BY <4>2, <4>3 DEF WriteRequest
      <3> QED BY <1>6, <3>1, <3>2
    <2> QED BY <1>1, <2>1, <2>2, PairSend
  <1>7. ASSUME NEW c \in Callers, RequestRegister(c) \/ RequestFcr(c)
        PROVE  ReadsInv' /\ RepliesInv'
    <2>1. NobodyWaits
      BY <1>7, HolderAlone DEF RequestRegister, RequestFcr, Holding
    <2>2. register_access_mutex = c /\ register_access_mutex' = c /\ todo' = todo
      BY <1>7 DEF RequestRegister, RequestFcr, MutexInv, Holding
    <2>3. Awaiting(c)'
      BY <1>2, <1>7, <2>2 DEF RequestRegister, RequestFcr, Awaiting
    <2>4. /\ AwaitedBy(c)' \in Registers
          /\ Sent(ReadRequest(AwaitedBy(c)'))
      <3>1. CASE RequestRegister(c)
        <4>1. AwaitedBy(c)' = Head(todo[c])
          BY <1>2, <2>2, <3>1 DEF RequestRegister, AwaitedBy
        <4>2. Head(todo[c]) \in Registers
          BY <3>1, HeadOfTodo DEF RequestRegister
        <4>3. Sent(ReadRequest(Head(todo[c])))
          BY <3>1 DEF RequestRegister, Send, Sent
        <4> QED BY <4>1, <4>2, <4>3
      <3>2. CASE RequestFcr(c)
        <4>1. AwaitedBy(c)' = FCR
          BY <1>2, <3>2 DEF RequestFcr, AwaitedBy
        <4>2. Sent(ReadRequest(FCR))
          BY <3>2 DEF RequestFcr, Send, Sent
        <4> QED BY <4>1, <4>2, RegistersAssumption
      <3> QED BY <1>7, <3>1, <3>2
    <2>5. ReadRequest(AwaitedBy(c)') \in Message
      BY <2>4, Requests
    <2>6. ReadRequest(AwaitedBy(c)').reg = AwaitedBy(c)'
      BY DEF ReadRequest
    <2> QED BY <1>1, <2>1, <2>3, <2>4, <2>5, <2>6, PairSend
  <1>8. ASSUME NEW c \in Callers, StoreRegister(c) \/ Return(c)
        PROVE  ReadsInv' /\ RepliesInv'
    <2>1. /\ cpc[c] \notin {"receive", "receive_fcr"}
          /\ register_access_mutex' = register_access_mutex
          /\ UNCHANGED << requests, replies, card >>
          /\ \A d \in Callers \ {c} : cpc'[d] = cpc[d] /\ todo'[d] = todo[d]
      BY <1>2, <1>8 DEF StoreRegister, Return, deviceVars
    <2> QED BY <1>1, <2>1, OthersWait, PairElsewhere
  <1>9. ASSUME NEW c \in Callers, UnlockClock(c)
        PROVE  ReadsInv' /\ RepliesInv'
    <2>1. NobodyWaits /\ UNCHANGED << requests, replies >>
      BY <1>9, HolderAlone DEF UnlockClock, deviceVars, Holding
    <2> QED BY <1>1, <2>1, PairIdle
  <1>10. ASSUME NEW c \in Callers, ReceiveRegister(c) \/ ReceiveFcr(c)
         PROVE  ReadsInv' /\ RepliesInv'
    BY <1>1, <1>10, PairTake DEF ReceiveRegister, ReceiveFcr
  <1>11. ASSUME NEW c \in Callers, ReceiveTimesOut(c) \/ ReceiveFcrTimesOut(c)
         PROVE  ReadsInv' /\ RepliesInv'
    <2>1. requests = << >> /\ replies = << >> /\ UNCHANGED << requests, replies >>
      BY <1>11 DEF ReceiveTimesOut, ReceiveFcrTimesOut, ReplyTimesOut, deviceVars
    <2> QED BY <2>1, EmptySeq DEF ReadsInv, RepliesInv
  <1> QED BY <1>1, <1>3, <1>4, <1>5, <1>6, <1>7, <1>8, <1>9, <1>10, <1>11, PairCard
          DEF Next, GoOn

\* The mutex is free, and nothing is asked for, at first.
LEMMA PairInit == Init => MutexInv /\ PairInv
  <1> SUFFICES ASSUME Init PROVE MutexInv /\ PairInv
    OBVIOUS
  <1>1. MutexInv
    BY RegistersAssumption DEF Init, MutexInv, Holding
  <1>2. ReadsInv /\ RepliesInv
    BY EmptySeq DEF Init, ReadsInv, RepliesInv
  <1> QED BY <1>1, <1>2 DEF PairInv

\* A reply answers the request of the caller that waits, and has what the register
\* still contains, unless a reply has come late.
THEOREM AnswersStayInStep == Spec => []AnswersInStep
  <1>1. PairInv => AnswersInStep
    BY DEF PairInv, RepliesInv, Awaiting, AnswersInStep
  <1> QED BY <1>1, TypeInit, TypeStep, PairInit, MutexStep, PairStep, PTL DEF Spec

-----------------------------------------------------------------------------
(* register_storage                                                        *)

\* Between its write and its copy a caller owes register_storage a value; unless
\* sets have overlapped nobody else owes it for the same register, and what it
\* owes was set last.
Owes(c, r) == cpc[c] = "store" /\ Head(todo[c]) = r

CopyInv ==
  ~overlapped =>
    /\ \A c, d \in Callers, r \in Registers : Owes(c, r) /\ Owes(d, r) => c = d
    /\ \A c \in Callers, r \in Registers : Owes(c, r) => regs[c][r] = lastSet[r]
    /\ \A r \in Registers \ {Nonvolatile} :
         register_storage[r] = lastSet[r] \/ \E c \in Callers : Owes(c, r)

\* A step of somebody who owes nothing.
LEMMA CopyElsewhere ==
  ASSUME CopyInv, UNCHANGED << register_storage, lastSet, overlapped >>,
         NEW c \in Callers, cpc[c] # "store", cpc'[c] # "store",
         \A d \in Callers \ {c} :
           cpc'[d] = cpc[d] /\ todo'[d] = todo[d] /\ regs'[d] = regs[d]
  PROVE  CopyInv'
  <1>1. \A d \in Callers, r \in Registers :
          /\ Owes(d, r)' <=> Owes(d, r)
          /\ Owes(d, r) => regs'[d][r] = regs[d][r]
    BY DEF Owes
  <1> QED BY <1>1 DEF CopyInv

\* Every step keeps what the callers owe to the driver's copies.
LEMMA CopyStep == TypeInv /\ CopyInv /\ [Next]_vars => CopyInv'
  <1> SUFFICES ASSUME TypeInv, CopyInv, [Next]_vars PROVE CopyInv'
    OBVIOUS
  <1>1. /\ cpc \in [Callers -> Pcs] /\ todo \in [Callers -> Seq(Registers)]
        /\ regs \in [Callers -> [Registers -> Word \cup {Keep, Update}]]
        /\ register_storage \in [Registers -> Word] /\ lastSet \in [Registers -> Word]
    BY DEF TypeInv, CallTypes, DriverTypes
  <1>2. CASE Card \/ UNCHANGED vars
    BY <1>2 DEF Card, vars, callVars, historyVars, CopyInv, Owes
  <1>3. ASSUME NEW c \in Callers, Begin(c) \/ Lock(c)
        PROVE  CopyInv'
    <2>1. UNCHANGED << register_storage, lastSet, overlapped >>
      BY <1>3 DEF Begin, SetRegisters, SetNonvolatile, GetRegisters, GetNonvolatile,
                  SetClockBits, Reprogram, Lock, LockForSet, LockForGet, LockForClock,
                  historyVars
    <2>2. \E pc \in Pcs \ {"store"} : cpc[c] # "store" /\ cpc' = [cpc EXCEPT ![c] = pc]
      BY <1>3 DEF Begin, SetRegisters, SetNonvolatile, GetRegisters, GetNonvolatile,
                  SetClockBits, Reprogram, Call, Lock, LockForSet, LockForGet,
                  LockForClock, Pcs
    <2>3. \A d \in Callers \ {c} : todo'[d] = todo[d]
      BY <1>1, <1>3, NextRegisterType
         DEF Begin, SetRegisters, SetNonvolatile, GetRegisters, GetNonvolatile,
             SetClockBits, Reprogram, Lock, LockForSet, LockForGet, LockForClock
    <2>4. \A d \in Callers \ {c} : regs'[d] = regs[d]
      BY <1>1, <1>3
         DEF Begin, SetRegisters, SetNonvolatile, GetRegisters, GetNonvolatile,
             SetClockBits, Reprogram, Lock, LockForSet, LockForGet, LockForClock
    <2> QED BY <1>1, <2>1, <2>2, <2>3, <2>4, CopyElsewhere
  <1>4. ASSUME NEW c \in Callers, GoOn(c), ~WriteRegister(c), ~StoreRegister(c)
        PROVE  CopyInv'
    <2>1. UNCHANGED << register_storage, lastSet, overlapped >>
      BY <1>4 DEF GoOn, RequestRegister, ReceiveRegister, ReceiveTimesOut, RequestFcr,
                  ReceiveFcr, ReceiveFcrTimesOut, WriteWord, UnlockClock, Return,
                  Received, Programs, historyVars
    <2>2. cpc[c] # "store" /\ cpc'[c] # "store"
      BY <1>1, <1>4
         DEF GoOn, RequestRegister, ReceiveRegister, ReceiveTimesOut, RequestFcr,
             ReceiveFcr, ReceiveFcrTimesOut, WriteWord, UnlockClock, Return, Received,
             Programs
    <2>3. \A d \in Callers \ {c} :
            cpc'[d] = cpc[d] /\ todo'[d] = todo[d] /\ regs'[d] = regs[d]
      BY <1>1, <1>4
         DEF GoOn, RequestRegister, ReceiveRegister, ReceiveTimesOut, RequestFcr,
             ReceiveFcr, ReceiveFcrTimesOut, WriteWord, UnlockClock, Return, Received,
             Programs
    <2> QED BY <2>1, <2>2, <2>3, CopyElsewhere
  <1>5. ASSUME NEW c \in Callers, WriteRegister(c)
        PROVE  CopyInv'
    <2> DEFINE r == Head(todo[c])
    <2>1. r \in Registers /\ cpc[c] = "write"
      BY <1>5, HeadOfTodo DEF WriteRegister
    <2>2. /\ cpc' = [cpc EXCEPT ![c] = "store"]
          /\ lastSet' = [lastSet EXCEPT ![r] = regs[c][r]]
          /\ overlapped' = (overlapped \/ \E d \in Callers : Owes(d, r))
          /\ UNCHANGED << register_storage, regs, todo >>
      BY <1>5 DEF WriteRegister, Owes
    <2> HIDE DEF r
    <2> SUFFICES ASSUME ~overlapped' PROVE CopyInv'
      BY DEF CopyInv
    <2>3. ~overlapped /\ \A d \in Callers : ~Owes(d, r)
      BY <2>2
    <2>4. \A d \in Callers, s \in Registers :
            Owes(d, s)' <=> (Owes(d, s) \/ (d = c /\ s = r))
      <3> SUFFICES ASSUME NEW d \in Callers, NEW s \in Registers
                   PROVE  Owes(d, s)' <=> (Owes(d, s) \/ (d = c /\ s = r))
        OBVIOUS
      <3>1. todo'[d] = todo[d]
        BY <2>2
      <3>2. CASE d = c
        <4>1. cpc'[c] = "store" /\ ~Owes(c, s)
          BY <1>1, <2>1, <2>2 DEF Owes
        <4> QED BY <3>1, <3>2, <4>1 DEF Owes, r
      <3>3. CASE d # c
        <4>1. cpc'[d] = cpc[d]
          BY <1>1, <2>2, <3>3
        <4> QED BY <3>1, <3>3, <4>1 DEF Owes
      <3> QED BY <3>2, <3>3
    <2>5. lastSet'[r] = regs[c][r] /\ \A s \in Registers \ {r} : lastSet'[s] = lastSet[s]
      BY <1>1, <2>1, <2>2
    <2>6. /\ \A d, e \in Callers, s \in Registers : Owes(d, s) /\ Owes(e, s) => d = e
          /\ \A d \in Callers, s \in Registers : Owes(d, s) => regs[d][s] = lastSet[s]
          /\ \A s \in Registers \ {Nonvolatile} :
               register_storage[s] = lastSet[s] \/ \E d \in Callers : Owes(d, s)
      BY <2>3 DEF CopyInv
    <2>7. \A d, e \in Callers, s \in Registers : Owes(d, s)' /\ Owes(e, s)' => d = e
      BY <2>3, <2>4, <2>6
    <2>8. \A d \in Callers, s \in Registers : Owes(d, s)' => regs'[d][s] = lastSet'[s]
      BY <2>2, <2>3, <2>4, <2>5, <2>6
    <2>9. \A s \in Registers \ {Nonvolatile} :
            register_storage'[s] = lastSet'[s] \/ \E d \in Callers : Owes(d, s)'
      <3> SUFFICES ASSUME NEW s \in Registers \ {Nonvolatile},
                          \A d \in Callers : ~Owes(d, s)'
                   PROVE  register_storage'[s] = lastSet'[s]
        OBVIOUS
      <3>1. s # r /\ \A d \in Callers : ~Owes(d, s)
        BY <2>4
      <3> QED BY <2>2, <2>5, <2>6, <3>1
    <2> QED BY <2>7, <2>8, <2>9 DEF CopyInv
  <1>6. ASSUME NEW c \in Callers, StoreRegister(c)
        PROVE  CopyInv'
    <2> DEFINE r == Head(todo[c])
    <2>1. r \in Registers /\ cpc[c] = "store" /\ Owes(c, r)
      BY <1>6, HeadOfTodo DEF StoreRegister, Owes
    <2>2. /\ cpc' = [cpc EXCEPT ![c] = "set"]
          /\ todo' = [todo EXCEPT ![c] = Tail(@)]
          /\ register_storage' = IF r = Nonvolatile THEN register_storage
                                 ELSE [register_storage EXCEPT ![r] = regs[c][r]]
          /\ UNCHANGED << lastSet, overlapped, regs >>
      BY <1>6 DEF StoreRegister, historyVars
    <2>3. \A d \in Callers, s \in Registers :
            Owes(d, s)' <=> (Owes(d, s) /\ d # c)
      BY <1>1, <2>2 DEF Owes
    <2>4. \A s \in Registers : Owes(c, s) => s = r
      BY DEF Owes
    <2> HIDE DEF r
    <2>5. \A s \in Registers \ {Nonvolatile} :
            register_storage'[s] = IF s = r THEN regs[c][r] ELSE register_storage[s]
      <3>1. CASE r = Nonvolatile
        BY <2>2, <3>1
      <3>2. CASE r # Nonvolatile
        <4>1. register_storage' = [register_storage EXCEPT ![r] = regs[c][r]]
          BY <2>2, <3>2
        <4> QED BY <1>1, <2>1, <4>1
      <3> QED BY <3>1, <3>2
    <2> SUFFICES ASSUME ~overlapped' PROVE CopyInv'
      BY DEF CopyInv
    <2>6. /\ \A d, e \in Callers, s \in Registers : Owes(d, s) /\ Owes(e, s) => d = e
          /\ \A d \in Callers, s \in Registers : Owes(d, s) => regs[d][s] = lastSet[s]
          /\ \A s \in Registers \ {Nonvolatile} :
               register_storage[s] = lastSet[s] \/ \E d \in Callers : Owes(d, s)
      BY <2>2 DEF CopyInv
    <2>7. \A s \in Registers \ {Nonvolatile} :
            register_storage'[s] = lastSet'[s] \/ \E d \in Callers : Owes(d, s)'
      <3> SUFFICES ASSUME NEW s \in Registers \ {Nonvolatile},
                          \A d \in Callers : ~Owes(d, s)'
                   PROVE  register_storage'[s] = lastSet'[s]
        OBVIOUS
      <3>1. CASE s = r
        BY <2>1, <2>2, <2>5, <2>6, <3>1
      <3>2. CASE s # r
        BY <2>2, <2>3, <2>4, <2>5, <2>6, <3>2
      <3> QED BY <3>1, <3>2
    <2> QED BY <2>2, <2>3, <2>6, <2>7 DEF CopyInv
  <1> QED BY <1>2, <1>3, <1>4, <1>5, <1>6 DEF Next

\* The driver's copy of a register is what was set last, wherever sets of one
\* register have not overlapped between their write and their copy.
THEOREM CopiesAreLastSets == Spec => []CopyIsLastSet
  <1>1. Init => CopyInv
    BY DEF Init, CopyInv, Owes
  <1>2. CopyInv => CopyIsLastSet
    BY DEF CopyInv, Owes, CopyIsLastSet
  <1> QED BY <1>1, <1>2, TypeInit, TypeStep, CopyStep, PTL DEF Spec
-----------------------------------------------------------------------------
(* What was set stays                                                      *)

\* Without a fault a read that somebody waits for is with the card, or its reply
\* is there: no caller gives up.
ReadUnderway == replies # << >> \/ \E i \in 1..Len(requests) : requests[i].op = "read"

AnswerInv == fault = "none" => \A c \in Callers : Awaiting(c) => ReadUnderway

\* No fault now, none before.
LEMMA NoFaultYet ==
  ASSUME [Next]_vars, fault' = "none"
  PROVE  fault = "none"
  BY FaultStays

\* The card answers the read that is awaited, or comes nearer to it.
LEMMA AnswerCard ==
  ASSUME TypeInv, ReadUnderway, Card
  PROVE  ReadUnderway'
  <1> DEFINE request == Head(requests)
  <1>1. requests \in Seq(Message) /\ requests # << >> /\ request = requests[1]
        /\ replies \in Seq(Reply)
    BY DEF Card, TypeInv, DeviceTypes
  <1>2. /\ Len(requests) \in Nat \ {0} /\ Len(requests') = Len(requests) - 1
        /\ \A i \in 1..Len(requests') : requests'[i] = requests[i + 1]
    BY <1>1, EmptySeq, HeadTailProperties DEF Card
  <1>3. CASE request.op = "read"
    <2>1. \E reply \in Reply : replies' = Append(replies, reply)
      <3>1. request \in Message
        BY <1>1, <1>2, ElementOfSeq
      <3>2. request.reg \in Registers
        BY <1>3, <3>1 DEF Message
      <3>3. [reg |-> request.reg, word |-> card[request.reg]] \in Reply
        BY <3>2 DEF TypeInv, DeviceTypes, Reply
      <3> QED BY <1>3, <3>3 DEF Card
    <2>2. replies' # << >>
      BY <1>1, <2>1, AppendProperties
    <2> QED BY <2>2 DEF ReadUnderway
  <1>4. CASE request.op # "read"
    <2>1. replies' = replies
      BY <1>4 DEF Card
    <2>2. CASE replies # << >>
      BY <2>1, <2>2 DEF ReadUnderway
    <2>3. CASE replies = << >>
      <3>1. PICK i \in 1..Len(requests) : requests[i].op = "read"
        BY <2>3 DEF ReadUnderway
      <3>2. i # 1
        BY <1>1, <1>4, <3>1
      <3>3. i - 1 \in 1..Len(requests') /\ requests'[i - 1] = requests[i]
        BY <1>2, <3>2
      <3> QED BY <3>1, <3>3 DEF ReadUnderway
    <2> QED BY <2>2, <2>3
  <1> QED BY <1>3, <1>4

\* What is sent does not displace what is under way.
LEMMA AnswerSend ==
  ASSUME TypeInv, NEW request \in Message, requests' = Append(requests, request),
         replies' = replies, ReadUnderway \/ request.op = "read"
  PROVE  ReadUnderway'
  <1>1. requests \in Seq(Message)
    BY DEF TypeInv, DeviceTypes
  <1>2. /\ Len(requests) \in Nat /\ Len(requests') = Len(requests) + 1
        /\ \A i \in 1..Len(requests) : requests'[i] = requests[i]
        /\ requests'[Len(requests) + 1] = request
    BY <1>1, AppendProperties, LenProperties
  <1>3. CASE request.op = "read"
    <2>1. Len(requests) + 1 \in 1..Len(requests')
      BY <1>2
    <2> QED BY <1>2, <1>3, <2>1 DEF ReadUnderway
  <1>4. CASE ReadUnderway
    <2>1. \A i \in 1..Len(requests) : i \in 1..Len(requests')
      BY <1>2
    <2> QED BY <1>2, <1>4, <2>1 DEF ReadUnderway
  <1> QED BY <1>3, <1>4

\* Every step keeps the read that is awaited on its way.
LEMMA AnswerStep == TypeInv /\ MutexInv /\ AnswerInv /\ [Next]_vars => AnswerInv'
  <1> SUFFICES ASSUME TypeInv, MutexInv, AnswerInv, [Next]_vars, fault' = "none"
               PROVE  \A c \in Callers : Awaiting(c)' => ReadUnderway'
    BY DEF AnswerInv
  <1>1. /\ fault = "none" /\ \A c \in Callers : Awaiting(c) => ReadUnderway
        /\ Nobody \notin Callers /\ cpc \in [Callers -> Pcs]
    BY NoFaultYet, RegistersAssumption DEF AnswerInv, TypeInv, CallTypes
  <1>2. CASE Card
    <2>1. \A c \in Callers : Awaiting(c)' <=> Awaiting(c)
      BY <1>2 DEF Card, callVars, Awaiting
    <2> QED BY <1>1, <1>2, <2>1, AnswerCard
  <1>3. CASE UNCHANGED vars
    BY <1>1, <1>3 DEF vars, callVars, deviceVars, Awaiting, ReadUnderway
  \* Who only begins, waits for the mutex, stores or returns waits for no reply.
  <1>4. ASSUME NEW c \in Callers, Begin(c) \/ Lock(c) \/ StoreRegister(c) \/ Return(c)
        PROVE  \A d \in Callers : Awaiting(d)' => ReadUnderway'
    <2>1. \A d \in Callers : Awaiting(d)' => Awaiting(d)
      <3>1. \E pc \in Pcs \ {"receive", "receive_fcr"} : cpc' = [cpc EXCEPT ![c] = pc]
        BY <1>4 DEF Begin, SetRegisters, SetNonvolatile, GetRegisters, GetNonvolatile,
                    SetClockBits, Reprogram, Call, Lock, LockForSet, LockForGet,
                    LockForClock, StoreRegister, Return, Pcs
      <3>2. register_access_mutex' \in {register_access_mutex, c}
        BY <1>4 DEF Begin, SetRegisters, SetNonvolatile, GetRegisters, GetNonvolatile,
                    SetClockBits, Reprogram, Lock, LockForSet, LockForGet, LockForClock,
                    StoreRegister, Return
      <3> QED BY <1>1, <3>1, <3>2 DEF Awaiting
    <2>2. CASE Reprogram(c)
      <3>1. requests' = Append(requests, ProgramRequest) /\ replies' = replies
        BY <1>1, <2>2 DEF Reprogram, Send
      <3> QED BY <1>1, <2>1, <3>1, Requests, AnswerSend
    <2>3. CASE ~Reprogram(c)
      <3>1. UNCHANGED << requests, replies >>
        BY <1>4, <2>3
           DEF Begin, SetRegisters, SetNonvolatile, GetRegisters, GetNonvolatile,
               SetClockBits, Lock, LockForSet, LockForGet, LockForClock, StoreRegister,
               Return, deviceVars
      <3> QED BY <1>1, <2>1, <3>1 DEF ReadUnderway
    <2> QED BY <2>2, <2>3
  <1>5. ASSUME NEW c \in Callers, RequestRegister(c) \/ RequestFcr(c)
        PROVE  ReadUnderway'
    <2>1. CASE RequestRegister(c)
      <3>1. Head(todo[c]) \in Registers
        BY <2>1, HeadOfTodo DEF RequestRegister
      <3>2. requests' = Append(requests, ReadRequest(Head(todo[c]))) /\ replies' = replies
        BY <1>1, <2>1 DEF RequestRegister, Send
      <3>3. ReadRequest(Head(todo[c])) \in Message /\ ReadRequest(Head(todo[c])).op = "read"
        BY <3>1, Requests DEF ReadRequest
      <3> QED BY <3>2, <3>3, AnswerSend
    <2>2. CASE RequestFcr(c)
      <3>1. requests' = Append(requests, ReadRequest(FCR)) /\ replies' = replies
        BY <1>1, <2>2 DEF RequestFcr, Send
      <3>2. ReadRequest(FCR) \in Message /\ ReadRequest(FCR).op = "read"
        BY RegistersAssumption, Requests DEF ReadRequest
      <3> QED BY <3>1, <3>2, AnswerSend
    <2> QED BY <1>5, <2>1, <2>2
  \* The caller that holds the mutex waits for nothing afterwards, nor does another.
  <1>6. ASSUME NEW c \in Callers,
               \/ WriteRegister(c) \/ ReceiveRegister(c) \/ ReceiveTimesOut(c)
               \/ ReceiveFcr(c) \/ ReceiveFcrTimesOut(c) \/ WriteWord(c) \/ UnlockClock(c)
        PROVE  \A d \in Callers : ~Awaiting(d)'
    <2>1. cpc[c] \in Holding
      BY <1>6 DEF WriteRegister, ReceiveRegister, ReceiveTimesOut, ReceiveFcr,
                  ReceiveFcrTimesOut, WriteWord, UnlockClock, Holding
    <2>2. register_access_mutex = c
      BY <2>1 DEF MutexInv
    <2>3. register_access_mutex' \in {c, Nobody}
      BY <1>6, <2>2 DEF WriteRegister, ReceiveRegister, ReceiveTimesOut, ReceiveFcr,
                        ReceiveFcrTimesOut, WriteWord, UnlockClock, Received
    <2>4. cpc'[c] \notin {"receive", "receive_fcr"}
      BY <1>1, <1>6
         DEF WriteRegister, ReceiveRegister, ReceiveTimesOut, ReceiveFcr,
             ReceiveFcrTimesOut, WriteWord, UnlockClock, Received, Programs
    <2> QED BY <1>1, <2>3, <2>4 DEF Awaiting
  <1> QED BY <1>2, <1>3, <1>4, <1>5, <1>6 DEF Next, GoOn

IsWriteTo(message, r) == message.op = "write" /\ message.reg = r

\* The register has what was set last, or will have it: it is the last thing on its
\* way there.
Settled(r) ==
  \/ /\ card[r] = lastSet[r]
     /\ \A i \in 1..Len(requests) : ~IsWriteTo(requests[i], r)
  \/ \E i \in 1..Len(requests) :
       /\ IsWriteTo(requests[i], r) /\ requests[i].word = lastSet[r]
       /\ \A j \in (i + 1)..Len(requests) : ~IsWriteTo(requests[j], r)

\* Somebody has words of FCR to write.
Programming == \E c \in Callers : cpc[c] = "words" /\ words[c] # << >>

SettledInv ==
  fault = "none" =>
    /\ \A r \in Registers : (r = FCR /\ Programming) \/ Settled(r)
    /\ \A c \in Callers : cpc[c] = "words" /\ words[c] # << >> =>
         words[c][Len(words[c])] = lastSet[FCR]

\* Another message is sent, or one that sets the register.
LEMMA SettledSend ==
  ASSUME TypeInv, NEW request \in Message, requests' = Append(requests, request),
         card' = card, NEW r \in Registers,
         \/ IsWriteTo(request, r) /\ request.word = lastSet'[r]
         \/ ~IsWriteTo(request, r) /\ Settled(r) /\ lastSet'[r] = lastSet[r]
  PROVE  Settled(r)'
  <1>1. requests \in Seq(Message)
    BY DEF TypeInv, DeviceTypes
  <1>2. /\ Len(requests) \in Nat /\ Len(requests') = Len(requests) + 1
        /\ \A i \in 1..Len(requests) : requests'[i] = requests[i]
        /\ requests'[Len(requests) + 1] = request
    BY <1>1, AppendProperties, LenProperties
  <1>3. CASE IsWriteTo(request, r) /\ request.word = lastSet'[r]
    <2> DEFINE i == Len(requests) + 1
    <2>1. i \in 1..Len(requests') /\ (i + 1)..Len(requests') = {}
      BY <1>2
    <2> QED BY <1>2, <1>3, <2>1 DEF Settled
  <1>4. CASE ~IsWriteTo(request, r) /\ Settled(r) /\ lastSet'[r] = lastSet[r]
    <2>1. \A i \in 1..Len(requests') : i \in 1..Len(requests) \/ requests'[i] = request
      BY <1>2
    <2>2. CASE /\ card[r] = lastSet[r]
               /\ \A i \in 1..Len(requests) : ~IsWriteTo(requests[i], r)
      BY <1>2, <1>4, <2>1, <2>2 DEF Settled
    <2>3. ASSUME NEW i \in 1..Len(requests),
                 IsWriteTo(requests[i], r), requests[i].word = lastSet[r],
                 \A j \in (i + 1)..Len(requests) : ~IsWriteTo(requests[j], r)
          PROVE  Settled(r)'
      <3>1. i \in 1..Len(requests') /\ requests'[i] = requests[i]
        BY <1>2
      <3>2. \A j \in (i + 1)..Len(requests') : ~IsWriteTo(requests'[j], r)
        <4> SUFFICES ASSUME NEW j \in (i + 1)..Len(requests')
                     PROVE  ~IsWriteTo(requests'[j], r)
          OBVIOUS
        <4>1. CASE j = Len(requests) + 1
          BY <1>2, <1>4, <4>1
        <4>2. CASE j # Len(requests) + 1
          <5>1. j \in (i + 1)..Len(requests) /\ j \in 1..Len(requests)
            BY <1>2, <4>2
          <5> QED BY <1>2, <2>3, <5>1
        <4> QED BY <4>1, <4>2
      <3> QED BY <1>4, <2>3, <3>1, <3>2 DEF Settled
    <2> QED BY <1>4, <2>2, <2>3 DEF Settled
  <1> QED BY <1>3, <1>4

\* A step of the card leaves a settled register settled.
LEMMA SettledCard ==
  ASSUME TypeInv, Card, NEW r \in Registers, Settled(r)
  PROVE  Settled(r)'
  <1> DEFINE request == Head(requests)
  <1>1. requests \in Seq(Message) /\ requests # << >> /\ request = requests[1]
        /\ lastSet' = lastSet /\ card \in [Registers -> Word]
    BY DEF Card, TypeInv, DeviceTypes, historyVars
  <1>2. /\ Len(requests) \in Nat \ {0} /\ Len(requests') = Len(requests) - 1
        /\ \A i \in 1..Len(requests') : requests'[i] = requests[i + 1]
    BY <1>1, EmptySeq, HeadTailProperties DEF Card
  <1>3. /\ IsWriteTo(request, r) => card'[r] = request.word
        /\ ~IsWriteTo(request, r) => card'[r] = card[r]
    BY <1>1 DEF Card, IsWriteTo
  <1> HIDE DEF request
  <1>4. \A i \in 1..Len(requests') : i + 1 \in 1..Len(requests)
    BY <1>2
  <1>5. CASE /\ card[r] = lastSet[r]
             /\ \A i \in 1..Len(requests) : ~IsWriteTo(requests[i], r)
    <2>1. ~IsWriteTo(request, r)
      BY <1>1, <1>2, <1>5
    <2>2. \A i \in 1..Len(requests') : ~IsWriteTo(requests'[i], r)
      BY <1>2, <1>4, <1>5
    <2> QED BY <1>1, <1>3, <1>5, <2>1, <2>2 DEF Settled
  <1>6. ASSUME NEW i \in 1..Len(requests),
               IsWriteTo(requests[i], r), requests[i].word = lastSet[r],
               \A j \in (i + 1)..Len(requests) : ~IsWriteTo(requests[j], r)
        PROVE  Settled(r)'
    <2>1. CASE i = 1
      <3>1. card'[r] = lastSet'[r]
        BY <1>1, <1>3, <1>6, <2>1
      <3>2. \A j \in 1..Len(requests') : ~IsWriteTo(requests'[j], r)
        <4>1. \A j \in 1..Len(requests') : j + 1 \in (i + 1)..Len(requests)
          BY <1>2, <2>1
        <4> QED BY <1>2, <1>6, <4>1
      <3> QED BY <3>1, <3>2 DEF Settled
    <2>2. CASE i # 1
      <3>1. i - 1 \in 1..Len(requests') /\ requests'[i - 1] = requests[i]
        BY <1>2, <2>2
      <3>2. \A j \in ((i - 1) + 1)..Len(requests') : ~IsWriteTo(requests'[j], r)
        <4>1. \A j \in ((i - 1) + 1)..Len(requests') :
                j \in 1..Len(requests') /\ j + 1 \in (i + 1)..Len(requests)
          BY <1>2, <2>2
        <4> QED BY <1>2, <1>6, <4>1
      <3> QED BY <1>1, <1>6, <3>1, <3>2 DEF Settled
    <2> QED BY <2>1, <2>2
  <1> QED BY <1>5, <1>6 DEF Settled

\* A step that sends nothing, or a firmware line or a read, and leaves the words.
LEMMA SettledElsewhere ==
  ASSUME TypeInv, SettledInv, fault = "none", UNCHANGED << card, lastSet >>,
         \/ requests' = requests
         \/ \E request \in Message :
              request.op # "write" /\ requests' = Append(requests, request),
         \A c \in Callers : /\ cpc'[c] = "words" <=> cpc[c] = "words"
                            /\ words'[c] = words[c]
  PROVE  SettledInv'
  <1>1. \A r \in Registers : Settled(r) => Settled(r)'
    <2> SUFFICES ASSUME NEW r \in Registers, Settled(r) PROVE Settled(r)'
      OBVIOUS
    <2>1. CASE requests' = requests
      BY <2>1 DEF Settled
    <2>2. ASSUME NEW request \in Message, request.op # "write",
                 requests' = Append(requests, request)
          PROVE  Settled(r)'
      BY <2>2, SettledSend DEF IsWriteTo
    <2> QED BY <2>1, <2>2
  <1>2. Programming' <=> Programming
    BY DEF Programming
  <1> QED BY <1>1, <1>2 DEF SettledInv
\* Nobody else programs the clock while one holds the mutex.
LEMMA HolderPrograms ==
  ASSUME MutexInv, NEW c \in Callers, cpc[c] \in Holding, NEW d \in Callers,
         cpc[d] = "words"
  PROVE  d = c
  BY DEF MutexInv, Holding

\* A write replaces what was last set and is on its way to the card.
LEMMA SettledWrite ==
  ASSUME TypeInv, MutexInv, SettledInv, fault = "none", fault' = "none",
         NEW c \in Callers, WriteRegister(c)
  PROVE  SettledInv'
  <1> DEFINE r == Head(todo[c])
             request == WriteRequest(r, regs[c][r])
  <1>1. /\ r \in Registers /\ regs[c][r] \in Word /\ cpc[c] = "write"
        /\ request \in Message
    BY HeadOfTodo, Requests DEF WriteRegister
  <1>2. /\ requests' = Append(requests, request) /\ card' = card
        /\ lastSet' = [lastSet EXCEPT ![r] = regs[c][r]]
        /\ cpc' = [cpc EXCEPT ![c] = "store"]
    BY DEF WriteRegister, Send
  <1>3. \A d \in Callers : cpc[d] # "words" /\ cpc'[d] # "words"
    <2>1. \A d \in Callers : cpc[d] # "words"
      BY <1>1, HolderPrograms DEF Holding
    <2> QED BY <1>2, <2>1 DEF TypeInv, CallTypes
  <1>4. \A s \in Registers : Settled(s)
    BY <1>3 DEF SettledInv, Programming
  <1>5. \A s \in Registers : lastSet'[s] = IF s = r THEN regs[c][r] ELSE lastSet[s]
    BY <1>1, <1>2 DEF TypeInv, DriverTypes
  <1>6. request.op = "write" /\ request.reg = r /\ request.word = regs[c][r]
    BY DEF WriteRequest
  <1> HIDE DEF r, request
  <1>7. \A s \in Registers : Settled(s)'
    <2> SUFFICES ASSUME NEW s \in Registers PROVE Settled(s)'
      OBVIOUS
    <2>1. \/ IsWriteTo(request, s) /\ request.word = lastSet'[s]
          \/ ~IsWriteTo(request, s) /\ Settled(s) /\ lastSet'[s] = lastSet[s]
      BY <1>4, <1>5, <1>6 DEF IsWriteTo
    <2> QED BY <1>1, <1>2, <2>1, SettledSend
  <1> QED BY <1>3, <1>7 DEF SettledInv

\* The value that was read is the one that was set last.
LEMMA ReadIsLastSet ==
  ASSUME TypeInv, MutexInv, PairInv, SettledInv, fault = "none",
         NEW c \in Callers, ReceiveFcr(c)
  PROVE  /\ Head(replies).word = lastSet[FCR] /\ Head(replies).word \in Word
         /\ \A s \in Registers : Settled(s)
  <1> DEFINE orig == Head(replies).word
  <1>1. /\ cpc[c] = "receive_fcr" /\ replies # << >> /\ Programs(c, orig)
        /\ UNCHANGED << requests, card, lastSet >>
    BY DEF ReceiveFcr, TakeReply, Programs, historyVars
  <1>2. register_access_mutex = c
    BY <1>1 DEF MutexInv, Holding
  <1>3. \A d \in Callers : cpc[d] # "words"
    BY <1>1, HolderPrograms DEF Holding
  <1>4. \A s \in Registers : Settled(s)
    BY <1>3 DEF SettledInv, Programming
  <1>5. /\ Len(replies) = 1
        /\ replies[1] = [reg |-> FCR, word |-> card[FCR]]
        /\ \A i \in 1..Len(requests) : requests[i].op = "program"
    <2>1. RepliesInv
      BY DEF PairInv
    <2>2. PICK d \in Callers :
            Awaiting(d) /\ replies[1] = [reg |-> AwaitedBy(d), word |-> card[AwaitedBy(d)]]
      BY <1>1, <2>1 DEF RepliesInv
    <2>3. d = c /\ AwaitedBy(d) = FCR
      BY <1>1, <1>2, <2>2 DEF Awaiting, AwaitedBy
    <2> QED BY <1>1, <2>1, <2>2, <2>3 DEF RepliesInv
  <1>6. orig = card[FCR] /\ orig \in Word
    <2>1. Head(replies) = replies[1]
      BY <1>1 DEF TypeInv, DeviceTypes
    <2> QED BY <1>5, <2>1, RegistersAssumption DEF TypeInv, DeviceTypes
  <1>7. card[FCR] = lastSet[FCR]
    BY <1>4, <1>5, RegistersAssumption DEF Settled, IsWriteTo
  <1> QED BY <1>4, <1>6, <1>7

\* So the words that are written end with it.
LEMMA SettledRead ==
  ASSUME TypeInv, MutexInv, PairInv, SettledInv, fault = "none",
         NEW c \in Callers, ReceiveFcr(c)
  PROVE  SettledInv'
  <1> DEFINE orig == Head(replies).word
  <1>1. /\ cpc[c] = "receive_fcr" /\ replies # << >> /\ Programs(c, orig)
        /\ UNCHANGED << requests, card, lastSet >>
    BY DEF ReceiveFcr, TakeReply, Programs, historyVars
  <1>3. \A d \in Callers : cpc[d] # "words"
    BY <1>1, HolderPrograms DEF Holding
  <1>4. orig = lastSet[FCR] /\ orig \in Word /\ \A s \in Registers : Settled(s)
    BY ReadIsLastSet
  <1> HIDE DEF orig
  <1>8. words'[c] = ClockWords(orig, bits[c]) /\ bits[c] \in Seq({0, 1})
    BY <1>1 DEF Programs, TypeInv, CallTypes
  <1>9. words'[c][Len(words'[c])] = lastSet[FCR]
    BY <1>4, <1>8, ClockWordsType
  <1>10. \A d \in Callers : cpc'[d] = "words" => d = c
    BY <1>1, <1>3 DEF Programs, TypeInv, CallTypes
  <1>11. \A s \in Registers : Settled(s)'
    BY <1>1, <1>4 DEF Settled
  <1> QED BY <1>1, <1>9, <1>10, <1>11 DEF SettledInv

\* The words go out one after the other, the value that was read last.
LEMMA SettledWord ==
  ASSUME TypeInv, MutexInv, SettledInv, fault = "none", fault' = "none",
         NEW c \in Callers, WriteWord(c)
  PROVE  SettledInv'
  <1> DEFINE request == WriteRequest(FCR, Head(words[c]))
  <1>1. /\ cpc[c] = "words" /\ words[c] # << >> /\ words[c] \in Seq(Word)
        /\ words'[c] = Tail(words[c])
        /\ requests' = Append(requests, request)
        /\ UNCHANGED << card, lastSet, cpc >>
    BY DEF WriteWord, Send, TypeInv, CallTypes, historyVars
  <1>2. Head(words[c]) \in Word /\ request \in Message
    BY <1>1, HeadTailProperties, RegistersAssumption, Requests
  <1>3. request.op = "write" /\ request.reg = FCR /\ request.word = Head(words[c])
    BY DEF WriteRequest
  <1> HIDE DEF request
  <1>4. \A s \in Registers \ {FCR} : Settled(s)'
    <2> SUFFICES ASSUME NEW s \in Registers \ {FCR} PROVE Settled(s)'
      OBVIOUS
    <2>1. ~IsWriteTo(request, s) /\ Settled(s) /\ lastSet'[s] = lastSet[s]
      BY <1>1, <1>3 DEF IsWriteTo, SettledInv
    <2> QED BY <1>1, <1>2, <2>1, SettledSend
  <1>5. \A d \in Callers : cpc[d] = "words" => d = c
    BY <1>1, HolderPrograms DEF Holding
  <1>6. words[c][Len(words[c])] = lastSet[FCR]
    BY <1>1 DEF SettledInv
  <1>7. /\ Len(words[c]) \in Nat \ {0} /\ Len(words'[c]) = Len(words[c]) - 1
        /\ words'[c] \in Seq(Word)
        /\ \A i \in 1..Len(words'[c]) : words'[c][i] = words[c][i + 1]
    BY <1>1, EmptySeq, HeadTailProperties
  <1>8. CASE words'[c] = << >>
    <2>1. Len(words[c]) = 1
      BY <1>7, <1>8, EmptySeq
    <2>2. request.word = lastSet'[FCR]
      BY <1>1, <1>3, <1>6, <2>1
    <2>3. Settled(FCR)'
      BY <1>1, <1>2, <1>3, <2>2, RegistersAssumption, SettledSend DEF IsWriteTo
    <2> QED BY <1>1, <1>4, <1>5, <1>8, <2>3 DEF SettledInv
  <1>9. CASE words'[c] # << >>
    <2>1. Programming'
      BY <1>1, <1>9 DEF Programming
    <2>2. Len(words'[c]) \in 1..Len(words'[c])
      BY <1>7, <1>9, EmptySeq
    <2>3. words'[c][Len(words'[c])] = lastSet'[FCR]
      BY <1>1, <1>6, <1>7, <2>2
    <2> QED BY <1>1, <1>4, <1>5, <2>1, <2>3 DEF SettledInv
  <1> QED BY <1>8, <1>9

\* Without a fault there is a read or a reply for whoever waits for FCR.
LEMMA FcrIsAnswered ==
  ASSUME MutexInv, AnswerInv, fault = "none", fault' = "none", NEW c \in Callers,
         ReceiveFcrTimesOut(c)
  PROVE  FALSE
  <1>1. requests = << >> /\ replies = << >> /\ cpc[c] = "receive_fcr"
    BY DEF ReceiveFcrTimesOut, ReplyTimesOut
  <1>2. Awaiting(c)
    BY <1>1 DEF MutexInv, Holding, Awaiting
  <1> QED BY <1>1, <1>2, EmptySeq DEF AnswerInv, ReadUnderway

\* Every step leaves each register settled on what was last set.
LEMMA SettledStep ==
  TypeInv /\ MutexInv /\ PairInv /\ AnswerInv /\ SettledInv /\ [Next]_vars => SettledInv'
  <1> SUFFICES ASSUME TypeInv, MutexInv, PairInv, AnswerInv, SettledInv, [Next]_vars,
                      fault' = "none"
               PROVE  SettledInv'
    BY DEF SettledInv
  <1>1. fault = "none" /\ cpc \in [Callers -> Pcs]
    BY NoFaultYet DEF TypeInv, CallTypes
  <1>2. CASE Card
    <2>1. \A r \in Registers : Settled(r) => Settled(r)'
      BY <1>2, SettledCard
    <2>2. UNCHANGED << cpc, words, lastSet >>
      BY <1>2 DEF Card, callVars, historyVars
    <2>3. Programming' <=> Programming
      BY <2>2 DEF Programming
    <2> QED BY <1>1, <2>1, <2>2, <2>3 DEF SettledInv
  <1>3. CASE UNCHANGED vars
    BY <1>1, <1>3, SettledElsewhere DEF vars, callVars, deviceVars, historyVars
  <1>4. ASSUME NEW c \in Callers,
               \/ Begin(c) \/ Lock(c) \/ StoreRegister(c) \/ Return(c)
               \/ ReceiveRegister(c) \/ ReceiveTimesOut(c)
        PROVE  SettledInv'
    <2>1. UNCHANGED << card, lastSet, words >>
      BY <1>4 DEF Begin, SetRegisters, SetNonvolatile, GetRegisters, GetNonvolatile,
                  SetClockBits, Reprogram, Lock, LockForSet, LockForGet, LockForClock,
                  StoreRegister, Return, ReceiveRegister, ReceiveTimesOut, Received,
                  TakeReply, ReplyTimesOut, deviceVars, historyVars
    <2>2. \E pc \in Pcs \ {"words"} : cpc[c] # "words" /\ cpc' = [cpc EXCEPT ![c] = pc]
      <3>1. CASE Begin(c) \/ Lock(c)
        BY <3>1 DEF Begin, SetRegisters, SetNonvolatile, GetRegisters, GetNonvolatile,
                    SetClockBits, Reprogram, Call, Lock, LockForSet, LockForGet,
                    LockForClock, Pcs
      <3>2. CASE StoreRegister(c) \/ Return(c) \/ ReceiveRegister(c) \/ ReceiveTimesOut(c)
        BY <3>2 DEF StoreRegister, Return, ReceiveRegister, ReceiveTimesOut, Received, Pcs
      <3> QED BY <1>4, <3>1, <3>2
    <2>3. \A d \in Callers : /\ cpc'[d] = "words" <=> cpc[d] = "words"
                             /\ words'[d] = words[d]
      BY <1>1, <2>1, <2>2
    <2>4. CASE Reprogram(c)
      <3>1. /\ requests' = Append(requests, ProgramRequest)
            /\ ProgramRequest \in Message /\ ProgramRequest.op # "write"
        BY <1>1, <2>4, Requests DEF Reprogram, Send, ProgramRequest
      <3> QED BY <1>1, <2>1, <2>3, <3>1, SettledElsewhere
    <2>5. CASE ~Reprogram(c)
      <3>1. requests' = requests
        BY <1>4, <2>5
           DEF Begin, SetRegisters, SetNonvolatile, GetRegisters, GetNonvolatile,
               SetClockBits, Lock, LockForSet, LockForGet, LockForClock, StoreRegister,
               Return, ReceiveRegister, ReceiveTimesOut, TakeReply, ReplyTimesOut,
               deviceVars
      <3> QED BY <1>1, <2>1, <2>3, <3>1, SettledElsewhere
    <2> QED BY <2>4, <2>5
  <1>5. ASSUME NEW c \in Callers, RequestRegister(c) \/ RequestFcr(c)
        PROVE  SettledInv'
    <2>1. UNCHANGED << card, lastSet, words >>
      BY <1>5 DEF RequestRegister, RequestFcr, historyVars
    <2>2. \A d \in Callers : /\ cpc'[d] = "words" <=> cpc[d] = "words"
                             /\ words'[d] = words[d]
      BY <1>1, <1>5, <2>1 DEF RequestRegister, RequestFcr
    <2>3. \E r \in Registers : requests' = Append(requests, ReadRequest(r))
      BY <1>1, <1>5, HeadOfTodo, RegistersAssumption DEF RequestRegister, RequestFcr, Send
    <2>4. \A r \in Registers : ReadRequest(r) \in Message /\ ReadRequest(r).op # "write"
      BY Requests DEF ReadRequest
    <2> QED BY <1>1, <2>1, <2>2, <2>3, <2>4, SettledElsewhere
  <1>6. ASSUME NEW c \in Callers, ReceiveFcrTimesOut(c)
        PROVE  FALSE
    BY <1>1, <1>6, FcrIsAnswered
  <1>7. ASSUME NEW c \in Callers, UnlockClock(c)
        PROVE  SettledInv'
    <2>1. /\ UNCHANGED << requests, card, lastSet, words >>
          /\ words[c] = << >> /\ cpc' = [cpc EXCEPT ![c] = "clock_done"]
      BY <1>7 DEF UnlockClock, deviceVars
    <2>2. \A d \in Callers : cpc'[d] = "words" /\ words'[d] # << >> <=>
                             cpc[d] = "words" /\ words[d] # << >>
      BY <1>1, <2>1
    <2>3. \A r \in Registers : Settled(r)' <=> Settled(r)
      BY <2>1 DEF Settled
    <2>4. Programming' <=> Programming
      BY <2>2 DEF Programming
    <2> QED BY <1>1, <2>1, <2>2, <2>3, <2>4 DEF SettledInv
  <1> QED BY <1>1, <1>2, <1>3, <1>4, <1>5, <1>6, <1>7, SettledWrite, SettledRead,
             SettledWord DEF Next, GoOn

\* Every register has its default at first.
LEMMA SettledInit == Init => AnswerInv /\ SettledInv
  <1> SUFFICES ASSUME Init PROVE AnswerInv /\ SettledInv
    OBVIOUS
  <1>1. AnswerInv
    BY DEF Init, AnswerInv, Awaiting
  <1>2. SettledInv
    BY EmptySeq DEF Init, SettledInv, Settled
  <1> QED BY <1>1, <1>2

\* When the card has carried out everything each register has what was set last:
\* programming the clock writes back what it read.
THEOREM SetsStay == Spec => []SetsAreKept
  <1>1. TypeInv /\ MutexInv /\ SettledInv => SetsAreKept
    <2> SUFFICES ASSUME TypeInv, MutexInv, SettledInv, fault = "none", Quiet
                 PROVE  card = lastSet
      BY DEF SetsAreKept
    <2>1. ~Programming
      BY RegistersAssumption DEF MutexInv, Holding, Quiet, Programming
    <2>2. \A r \in Registers : card[r] = lastSet[r]
      BY <2>1, EmptySeq DEF SettledInv, Settled, Quiet
    <2> QED BY <2>2 DEF TypeInv, DeviceTypes, DriverTypes
  <1> QED BY <1>1, TypeInit, TypeStep, PairInit, MutexStep, PairStep, SettledInit,
             AnswerStep, SettledStep, PTL DEF Spec
-----------------------------------------------------------------------------
(* The clock generator                                                     *)

\* Who programs the clock does it with bits that were asked for; and if no process
\* drives the clock lines, who programs the clock is the only one that does.
LinesInv ==
  /\ \A c \in Callers :
       cpc[c] \in {"clock", "request_fcr", "receive_fcr", "words", "clock_done"} =>
         \E b \in ClockBits : bits[c] = WithForcedBit(b)
  /\ ~driven => \A r \in Registers : lastSet[r] \in IdleWord

\* Initially nothing is set but the defaults.
LEMMA LinesInit == Init => LinesInv
  <1>1. Idle(DefaultValue) \in IdleWord
    BY WordTypes, RegistersAssumption DEF IdleWord, Idle
  <1> QED BY <1>1 DEF Init, LinesInv

\* A step of one caller that leaves what was set last.
LEMMA LinesElsewhere ==
  ASSUME LinesInv, NEW c \in Callers, UNCHANGED << lastSet, driven >>,
         \A d \in Callers \ {c} : cpc'[d] = cpc[d] /\ bits'[d] = bits[d],
         cpc'[c] \in {"clock", "request_fcr", "receive_fcr", "words", "clock_done"} =>
           \E b \in ClockBits : bits'[c] = WithForcedBit(b)
  PROVE  LinesInv'
  BY DEF LinesInv

\* The bits that a call is given are those it programs ...
LEMMA LinesBegin ==
  ASSUME TypeInv, LinesInv, NEW c \in Callers, Begin(c)
  PROVE  LinesInv'
  <1>1. cpc \in [Callers -> Pcs] /\ bits \in [Callers -> Seq({0, 1})]
    BY DEF TypeInv, CallTypes
  <1>2. UNCHANGED << lastSet, driven >>
    BY DEF Begin, SetRegisters, SetNonvolatile, GetRegisters, GetNonvolatile,
           SetClockBits, Reprogram, historyVars
  <1>3. CASE \/ SetRegisters(c) \/ SetNonvolatile(c) \/ GetRegisters(c)
             \/ GetNonvolatile(c) \/ Reprogram(c)
    <2>1. bits' = bits /\ \E pc \in {"set", "get", "idle"} : cpc' = [cpc EXCEPT ![c] = pc]
      BY <1>3 DEF SetRegisters, SetNonvolatile, GetRegisters, GetNonvolatile,
                  Reprogram, Call
    <2> QED BY <1>1, <1>2, <2>1, LinesElsewhere
  <1>4. CASE SetClockBits(c)
    <2>1. cpc' = [cpc EXCEPT ![c] = "clock"]
          /\ \E b \in ClockBits : bits' = [bits EXCEPT ![c] = WithForcedBit(b)]
      BY <1>4 DEF SetClockBits, Call
    <2> QED BY <1>1, <1>2, <2>1, LinesElsewhere
  <1> QED BY <1>3, <1>4 DEF Begin

\* ... with the mutex ...
LEMMA LinesLock ==
  ASSUME TypeInv, LinesInv, NEW c \in Callers, Lock(c)
  PROVE  LinesInv'
  <1>1. cpc \in [Callers -> Pcs]
    BY DEF TypeInv, CallTypes
  <1>2. UNCHANGED << lastSet, driven, bits >>
    BY DEF Lock, LockForSet, LockForGet, LockForClock, historyVars
  <1>3. CASE LockForSet(c) \/ LockForGet(c)
    <2>1. \E pc \in {"write", "request"} : cpc' = [cpc EXCEPT ![c] = pc]
      BY <1>3 DEF LockForSet, LockForGet
    <2> QED BY <1>1, <1>2, <2>1, LinesElsewhere
  <1>4. CASE LockForClock(c)
    <2>1. cpc[c] = "clock" /\ cpc' = [cpc EXCEPT ![c] = "request_fcr"]
      BY <1>4 DEF LockForClock
    <2>2. \E b \in ClockBits : bits'[c] = WithForcedBit(b)
      BY <1>2, <2>1 DEF LinesInv
    <2> QED BY <1>1, <1>2, <2>1, <2>2, LinesElsewhere
  <1> QED BY <1>3, <1>4 DEF Lock

\* ... to the end of the call; and what is set has no lines, or drives them ...
LEMMA LinesGoOn ==
  ASSUME TypeInv, LinesInv, NEW c \in Callers, GoOn(c)
  PROVE  LinesInv'
  <1>1. /\ cpc \in [Callers -> Pcs] /\ bits \in [Callers -> Seq({0, 1})]
        /\ lastSet \in [Registers -> Word] /\ driven \in BOOLEAN
    BY DEF TypeInv, CallTypes, DriverTypes
  <1>2. CASE WriteRegister(c)
    <2>1. PICK word \in Word :
            /\ lastSet' = [lastSet EXCEPT ![Head(todo[c])] = word]
            /\ driven' = (driven \/ word \notin IdleWord)
      BY <1>2, HeadOfTodo DEF WriteRegister
    <2>2. ~driven' => ~driven /\ word \in IdleWord
      BY <1>1, <2>1 DEF IdleWord
    <2>3. ~driven' => \A r \in Registers : lastSet'[r] \in IdleWord
      BY <1>1, <2>1, <2>2 DEF LinesInv
    <2>4. bits' = bits /\ cpc' = [cpc EXCEPT ![c] = "store"]
      BY <1>2 DEF WriteRegister
    <2> QED BY <1>1, <2>3, <2>4 DEF LinesInv
  <1>3. CASE \/ StoreRegister(c) \/ RequestRegister(c) \/ ReceiveRegister(c)
             \/ ReceiveTimesOut(c)
    <2>1. /\ UNCHANGED << lastSet, driven, bits >>
          /\ \E pc \in {"set", "receive", "get"} : cpc' = [cpc EXCEPT ![c] = pc]
      BY <1>3 DEF StoreRegister, RequestRegister, ReceiveRegister, ReceiveTimesOut,
                  Received, historyVars
    <2> QED BY <1>1, <2>1, LinesElsewhere
  <1>4. CASE \/ RequestFcr(c) \/ ReceiveFcr(c) \/ ReceiveFcrTimesOut(c)
             \/ WriteWord(c) \/ UnlockClock(c)
    <2>1. UNCHANGED << lastSet, driven, bits >>
      BY <1>4 DEF RequestFcr, ReceiveFcr, ReceiveFcrTimesOut, WriteWord, UnlockClock,
                  Programs, historyVars
    <2>2. /\ cpc[c] \in {"request_fcr", "receive_fcr", "words"}
          /\ cpc' = cpc \/ \E pc \in Pcs : cpc' = [cpc EXCEPT ![c] = pc]
      BY <1>4 DEF RequestFcr, ReceiveFcr, ReceiveFcrTimesOut, WriteWord, UnlockClock,
                  Programs, Pcs
    <2>3. \E b \in ClockBits : bits'[c] = WithForcedBit(b)
      BY <2>1, <2>2 DEF LinesInv
    <2> QED BY <1>1, <2>1, <2>2, <2>3, LinesElsewhere
  <1>5. CASE Return(c)
    <2>1. /\ cpc' = [cpc EXCEPT ![c] = "idle"] /\ bits' = [bits EXCEPT ![c] = << >>]
          /\ UNCHANGED << lastSet, driven >>
      BY <1>5 DEF Return, historyVars
    <2> QED BY <1>1, <2>1, LinesElsewhere
  <1> QED BY <1>2, <1>3, <1>4, <1>5 DEF GoOn

\* ... so every step does.
LEMMA LinesStep == TypeInv /\ LinesInv /\ [Next]_vars => LinesInv'
  <1>1. ASSUME LinesInv, Card \/ UNCHANGED vars
        PROVE  LinesInv'
    BY <1>1 DEF Card, vars, callVars, historyVars, LinesInv
  <1> QED BY <1>1, LinesBegin, LinesLock, LinesGoOn DEF Next

\* What the clock generator sees of the card, and what a message makes of it.
GeneratorStates ==
  [lines : SUBSET Lines, shifted : Seq({0, 1}), latched : Seq({0, 1})]

Generator == [lines |-> card[FCR].lines, shifted |-> shifted, latched |-> latched]

Rises(line, state, lines) == line \in lines \ state.lines

Carried(state, message) ==
  IF ~IsWriteTo(message, FCR) THEN state
  ELSE LET lines == message.word.lines
       IN  [lines |-> lines,
            shifted |-> IF Rises("strb", state, lines) THEN << >>
                        ELSE IF Rises("clk", state, lines)
                        THEN Append(state.shifted, IF "dta" \in lines THEN 1 ELSE 0)
                        ELSE state.shifted,
            latched |-> IF Rises("strb", state, lines) THEN state.shifted
                                                       ELSE state.latched]

\* The generator after k of the words that program b.
AfterWords(k, b, state) ==
  /\ "clk" \in state.lines <=> k \in 2..(2 * Len(b)) /\ k % 2 = 0
  /\ "strb" \in state.lines <=> k = 2 * Len(b) + 2
  /\ k = 2 * Len(b) + 3 => state.lines = {}
  /\ state.shifted = IF k <= 2 * Len(b) + 1 THEN SubSeq(b, 1, k \div 2) ELSE << >>
  /\ k >= 2 * Len(b) + 2 => state.latched = b

\* What is left of the words of a caller, when k of them are with the card.
LeftOf(c, orig, k) ==
  /\ Len(words[c]) = 2 * Len(bits[c]) + 3 - k
  /\ \A j \in 1..Len(words[c]) : words[c][j] = ClockWords(orig, bits[c])[k + j]

\* When the card has carried out everything it has, the generator is at rest with
\* the bits programmed last, or is as far as the one who programs it has come.
AtTheEnd(state) ==
  /\ (\A c \in Callers : cpc[c] # "words") =>
       state.lines = {} /\ state.shifted = << >> /\ state.latched = lastBits
  /\ \A c \in Callers : cpc[c] = "words" =>
       \E orig \in IdleWord, k \in 0..(2 * Len(bits[c]) + 3) :
         LeftOf(c, orig, k) /\ AfterWords(k, bits[c], state)

\* The bits of some call, or of initialize.
IsWhole(b) == \E d \in ClockBits \cup {DefaultBits} : b = WithForcedBit(d)

\* The course the generator takes through the messages the card has not carried out:
\* at each point of it, it has the bits of one call, whole.
IsCourse(course) ==
  /\ course[0] = Generator
  /\ \A i \in 1..Len(requests) : course[i] = Carried(course[i - 1], requests[i])
  /\ \A i \in 0..Len(requests) : IsWhole(course[i].latched)
  /\ AtTheEnd(course[Len(requests)])

Course == \E course \in [0..Len(requests) -> GeneratorStates] : IsCourse(course)

ClockInv == fault = "none" /\ ~driven => Course

\* A message leaves the generator in one of its states.
LEMMA CarriedType ==
  ASSUME NEW state \in GeneratorStates, NEW message \in Message
  PROVE  Carried(state, message) \in GeneratorStates
  <1>1. CASE ~IsWriteTo(message, FCR)
    BY <1>1 DEF Carried
  <1>2. CASE IsWriteTo(message, FCR)
    <2> DEFINE lines == message.word.lines
               bit == IF "dta" \in lines THEN 1 ELSE 0
    <2>1. lines \in SUBSET Lines
      BY <1>2 DEF IsWriteTo, Message, Word
    <2>2. state.lines \in SUBSET Lines /\ state.shifted \in Seq({0, 1})
          /\ state.latched \in Seq({0, 1})
      BY DEF GeneratorStates
    <2>3. Append(state.shifted, bit) \in Seq({0, 1}) /\ << >> \in Seq({0, 1})
      BY <2>2
    <2> HIDE DEF lines, bit
    <2>4. Carried(state, message) =
            [lines |-> lines,
             shifted |-> IF Rises("strb", state, lines) THEN << >>
                         ELSE IF Rises("clk", state, lines)
                         THEN Append(state.shifted, bit)
                         ELSE state.shifted,
             latched |-> IF Rises("strb", state, lines) THEN state.shifted
                                                        ELSE state.latched]
      BY <1>2 DEF Carried, lines, bit
    <2> QED BY <2>1, <2>2, <2>3, <2>4 DEF GeneratorStates
  <1> QED BY <1>1, <1>2

\* What the card has is a state of the generator.
LEMMA GeneratorType == TypeInv => Generator \in GeneratorStates
  BY RegistersAssumption DEF TypeInv, DeviceTypes, Generator, GeneratorStates, Word

\* The k-th word drives the clock line and the strobe as follows, and the data line
\* with its bit while the clock is high.
LEMMA LinesOfWords ==
  ASSUME NEW orig \in IdleWord, NEW b \in Seq({0, 1}), NEW k \in 1..(2 * Len(b) + 3)
  PROVE  LET lines == ClockWords(orig, b)[k].lines
         IN  /\ "clk" \in lines <=> k \in 2..(2 * Len(b)) /\ k % 2 = 0
             /\ "strb" \in lines <=> k = 2 * Len(b) + 2
             /\ k = 2 * Len(b) + 3 => lines = {}
             /\ "clk" \in lines => ("dta" \in lines <=> b[k \div 2] = 1)
  <1> DEFINE n == Len(b)
             Data(i) == IF b[i] = 1 THEN {"dta"} ELSE {}
             word == ClockWords(orig, b)[k]
  <1>1. n \in Nat /\ k \in 1..(2 * n + 3)
    OBVIOUS
  <1>2. orig \in Word /\ orig.lines = {}
        /\ \A lines \in SUBSET Lines : WithLines(orig, lines).lines = lines
    BY DEF IdleWord, Word, WithLines
  <1>3. word = IF k = 1 THEN WithLines(orig, {})
               ELSE IF k = 2 * n + 2 THEN WithLines(orig, {"strb"})
               ELSE IF k = 2 * n + 3 THEN orig
               ELSE IF k % 2 = 0 THEN WithLines(orig, Data(k \div 2) \cup {"clk"})
               ELSE WithLines(orig, Data(k \div 2))
    BY <1>1 DEF ClockWords
  <1>4. /\ Data(k \div 2) \in SUBSET {"dta"}
        /\ "dta" \in Data(k \div 2) <=> b[k \div 2] = 1
    OBVIOUS
  <1> DEFINE data == Data(k \div 2)
  <1> HIDE DEF Data, data, word, n
  <1>5. /\ {} \in SUBSET Lines /\ {"strb"} \in SUBSET Lines
        /\ data \in SUBSET Lines /\ data \cup {"clk"} \in SUBSET Lines
    BY <1>4 DEF Lines, data
  <1>6. word.lines = IF k = 1 THEN {} ELSE IF k = 2 * n + 2 THEN {"strb"}
                     ELSE IF k = 2 * n + 3 THEN {}
                     ELSE IF k % 2 = 0 THEN data \cup {"clk"} ELSE data
    BY <1>2, <1>3, <1>5 DEF data
  <1>7. k % 2 = 0 /\ k \notin {2 * n + 2, 2 * n + 3} => k \in 2..(2 * n)
    BY <1>1
  <1>8. (2 * n + 3) % 2 = 1 /\ 1 % 2 = 1
    BY <1>1
  <1>9. "clk" \notin data /\ "strb" \notin data /\ ("dta" \in data <=> b[k \div 2] = 1)
    BY <1>4 DEF data
  <1>10. /\ "clk" \in word.lines <=> k \in 2..(2 * n) /\ k % 2 = 0
         /\ "strb" \in word.lines <=> k = 2 * n + 2
         /\ k = 2 * n + 3 => word.lines = {}
         /\ "clk" \in word.lines => ("dta" \in word.lines <=> b[k \div 2] = 1)
    BY <1>1, <1>6, <1>7, <1>8, <1>9
  <1> QED BY <1>10 DEF word, n

\* Each word carries the generator one word further.
LEMMA NextWord ==
  ASSUME NEW orig \in IdleWord, NEW b \in Seq({0, 1}), NEW k \in 0..(2 * Len(b) + 2),
         NEW state \in GeneratorStates, AfterWords(k, b, state),
         NEW message \in Message, IsWriteTo(message, FCR),
         message.word = ClockWords(orig, b)[k + 1]
  PROVE  AfterWords(k + 1, b, Carried(state, message))
  <1> DEFINE n == Len(b)
             lines == message.word.lines
             next == Carried(state, message)
  <1>1. n \in Nat /\ k \in 0..(2 * n + 2) /\ k + 1 \in 1..(2 * n + 3)
    OBVIOUS
  <1>2. /\ "clk" \in lines <=> k + 1 \in 2..(2 * n) /\ (k + 1) % 2 = 0
        /\ "strb" \in lines <=> k + 1 = 2 * n + 2
        /\ k + 1 = 2 * n + 3 => lines = {}
        /\ "clk" \in lines => ("dta" \in lines <=> b[(k + 1) \div 2] = 1)
    BY <1>1, LinesOfWords
  <1>3. /\ "clk" \in state.lines <=> k \in 2..(2 * n) /\ k % 2 = 0
        /\ "strb" \in state.lines <=> k = 2 * n + 2
        /\ state.shifted = IF k <= 2 * n + 1 THEN SubSeq(b, 1, k \div 2) ELSE << >>
        /\ k >= 2 * n + 2 => state.latched = b
    BY DEF AfterWords
  <1>4. next = [lines |-> lines,
                shifted |-> IF Rises("strb", state, lines) THEN << >>
                            ELSE IF Rises("clk", state, lines)
                            THEN Append(state.shifted, IF "dta" \in lines THEN 1 ELSE 0)
                            ELSE state.shifted,
                latched |-> IF Rises("strb", state, lines) THEN state.shifted
                                                           ELSE state.latched]
    BY DEF Carried
  <1> HIDE DEF n, lines, next
  <1>5. /\ Rises("strb", state, lines) <=> k = 2 * n + 1
        /\ Rises("clk", state, lines) <=> k + 1 \in 2..(2 * n) /\ (k + 1) % 2 = 0
    BY <1>1, <1>2, <1>3 DEF Rises
  <1>6. next.lines = lines
    BY <1>4
  <1>7. next.shifted = IF k + 1 <= 2 * n + 1 THEN SubSeq(b, 1, (k + 1) \div 2) ELSE << >>
    <2>1. CASE k >= 2 * n + 1
      BY <1>1, <1>3, <1>4, <1>5, <2>1
    <2>2. CASE k <= 2 * n /\ (k + 1) % 2 = 0 /\ k + 1 \in 2..(2 * n)
      <3> DEFINE i == (k + 1) \div 2
      <3>1. i \in 1..n /\ k \div 2 = i - 1 /\ k # 2 * n + 1
        BY <1>1, <2>2
      <3>2. b[i] \in {0, 1}
        BY <3>1 DEF n
      <3>3. (IF "dta" \in lines THEN 1 ELSE 0) = b[i]
        BY <1>2, <2>2, <3>2
      <3> HIDE DEF i
      <3>4. SubSeq(b, 1, i) = Append(SubSeq(b, 1, i - 1), b[i])
        BY <3>1, SubSeqProperties DEF n
      <3>5. next.shifted = Append(state.shifted, b[i])
        BY <1>4, <1>5, <2>2, <3>1, <3>3
      <3>6. state.shifted = SubSeq(b, 1, i - 1)
        <4>1. k <= 2 * n + 1 /\ k \div 2 = i - 1
          BY <1>1, <2>2, <3>1
        <4>2. state.shifted = SubSeq(b, 1, k \div 2)
          BY <1>3, <4>1
        <4> QED BY <4>1, <4>2
      <3> QED BY <1>1, <2>2, <3>4, <3>5, <3>6 DEF i
    <2>3. CASE k <= 2 * n /\ ~((k + 1) % 2 = 0 /\ k + 1 \in 2..(2 * n))
      <3>1. (k + 1) \div 2 = k \div 2 /\ k + 1 <= 2 * n + 1 /\ k <= 2 * n + 1
        BY <1>1, <2>3
      <3> QED BY <1>1, <1>3, <1>4, <1>5, <2>3, <3>1
    <2> QED BY <1>1, <2>1, <2>2, <2>3
  <1>8. k + 1 >= 2 * n + 2 => next.latched = b
    <2>1. CASE k = 2 * n + 1
      <3>1. k \div 2 = n
        BY <1>1, <2>1
      <3>2. SubSeq(b, 1, n) = b
        BY SubSeqProperties DEF n
      <3> QED BY <1>3, <1>4, <1>5, <2>1, <3>1, <3>2
    <2>2. CASE k = 2 * n + 2
      BY <1>1, <1>3, <1>4, <1>5, <2>2
    <2> QED BY <1>1, <2>1, <2>2
  <1> QED BY <1>1, <1>2, <1>6, <1>7, <1>8 DEF AfterWords, n, next

\* Bits that a call asks for are whole.
LEMMA WholeBits ==
  ASSUME LinesInv, NEW c \in Callers,
         cpc[c] \in {"clock", "request_fcr", "receive_fcr", "words", "clock_done"}
  PROVE  IsWhole(bits[c])
  BY DEF LinesInv, IsWhole

\* The card carries the generator along its course.
LEMMA CourseCard ==
  ASSUME TypeInv, Course, Card
  PROVE  Course'
  <1> DEFINE message == Head(requests)
  <1>1. PICK course \in [0..Len(requests) -> GeneratorStates] : IsCourse(course)
    BY DEF Course
  <1>2. requests \in Seq(Message) /\ requests # << >> /\ message = requests[1]
        /\ requests' = Tail(requests)
    BY DEF Card, TypeInv, DeviceTypes
  <1>3. /\ Len(requests) \in Nat \ {0} /\ Len(requests') = Len(requests) - 1
        /\ \A i \in 1..Len(requests') : requests'[i] = requests[i + 1]
    BY <1>2, EmptySeq, HeadTailProperties
  <1>4. Generator' = Carried(Generator, message)
    <2>1. card \in [Registers -> Word] /\ FCR \in Registers
      BY RegistersAssumption DEF TypeInv, DeviceTypes
    <2>2. CASE IsWriteTo(message, FCR)
      <3>1. /\ card' = [card EXCEPT ![FCR] = message.word]
            /\ ClockGenerator(card[FCR].lines, message.word.lines)
        BY <2>2 DEF Card, IsWriteTo
      <3>2. card'[FCR] = message.word
        BY <2>1, <3>1
      <3> HIDE DEF message
      <3>3. /\ Generator.lines = card[FCR].lines /\ Generator.shifted = shifted
            /\ Generator.latched = latched
        BY DEF Generator
      <3>4. /\ shifted' = IF Rises("strb", Generator, message.word.lines) THEN << >>
                          ELSE IF Rises("clk", Generator, message.word.lines)
                          THEN Append(shifted, IF "dta" \in message.word.lines THEN 1 ELSE 0)
                          ELSE shifted
            /\ latched' = IF Rises("strb", Generator, message.word.lines) THEN shifted
                          ELSE latched
        BY <3>1, <3>3 DEF ClockGenerator, Rises
      <3> QED BY <2>2, <3>2, <3>3, <3>4 DEF Generator, Carried
    <2>3. CASE ~IsWriteTo(message, FCR)
      <3>1. card'[FCR] = card[FCR] /\ UNCHANGED << shifted, latched >>
        BY <2>1, <2>3 DEF Card, IsWriteTo
      <3> QED BY <2>3, <3>1 DEF Generator, Carried
    <2> QED BY <2>2, <2>3
  <1>5. PICK rest \in [0..Len(requests') -> GeneratorStates] :
          \A i \in 0..Len(requests') : rest[i] = course[i + 1]
    <2> DEFINE tail == [i \in 0..Len(requests') |-> course[i + 1]]
    <2>1. tail \in [0..Len(requests') -> GeneratorStates]
      BY <1>3
    <2> QED BY <2>1
  <1>6. course[0] = Generator /\ course[1] = Carried(course[0], requests[1])
    BY <1>1, <1>3 DEF IsCourse
  <1>7. rest[0] = Generator'
    BY <1>2, <1>3, <1>4, <1>5, <1>6
  <1>8. \A i \in 1..Len(requests') : rest[i] = Carried(rest[i - 1], requests'[i])
    <2> SUFFICES ASSUME NEW i \in 1..Len(requests')
                 PROVE  rest[i] = Carried(rest[i - 1], requests'[i])
      OBVIOUS
    <2>1. i + 1 \in 1..Len(requests) /\ (i + 1) - 1 = i /\ i - 1 \in 0..Len(requests')
          /\ (i - 1) + 1 = i /\ i \in 0..Len(requests')
      BY <1>3
    <2>2. course[i + 1] = Carried(course[(i + 1) - 1], requests[i + 1])
      BY <1>1, <2>1 DEF IsCourse
    <2> QED BY <1>3, <1>5, <2>1, <2>2
  <1>9. \A i \in 0..Len(requests') : IsWhole(rest[i].latched)
    <2>1. \A i \in 0..Len(requests') : i + 1 \in 0..Len(requests)
      BY <1>3
    <2> QED BY <1>1, <1>5, <2>1 DEF IsCourse
  <1>10. AtTheEnd(rest[Len(requests)])'
    <2>1. rest[Len(requests')] = course[Len(requests)]
      BY <1>3, <1>5
    <2>2. UNCHANGED << cpc, words, bits, lastBits >>
      BY DEF Card, callVars, historyVars
    <2>3. AtTheEnd(course[Len(requests)])
      BY <1>1 DEF IsCourse
    <2> QED BY <2>1, <2>2, <2>3 DEF AtTheEnd, LeftOf
  <1>11. IsCourse(rest)'
    BY <1>7, <1>8, <1>9, <1>10 DEF IsCourse, IsWhole
  <1> QED BY <1>5, <1>11 DEF Course

\* A message that is sent makes the course longer.
LEMMA CourseSend ==
  ASSUME TypeInv, NEW message \in Message, requests' = Append(requests, message),
         UNCHANGED << card, shifted, latched >>, Course,
         \A state \in GeneratorStates : AtTheEnd(state) /\ IsWhole(state.latched) =>
           AtTheEnd(Carried(state, message))' /\ IsWhole(Carried(state, message).latched)
  PROVE  Course'
  <1>1. PICK course \in [0..Len(requests) -> GeneratorStates] : IsCourse(course)
    BY DEF Course
  <1>2. requests \in Seq(Message)
    BY DEF TypeInv, DeviceTypes
  <1>3. /\ Len(requests) \in Nat /\ Len(requests') = Len(requests) + 1
        /\ \A i \in 1..Len(requests) : requests'[i] = requests[i]
        /\ requests'[Len(requests) + 1] = message
    BY <1>2, AppendProperties
  <1>4. PICK last \in GeneratorStates :
          last = course[Len(requests)] /\ AtTheEnd(last) /\ IsWhole(last.latched)
    BY <1>1, <1>3 DEF IsCourse
  <1>5. Carried(last, message) \in GeneratorStates
    BY <1>4, CarriedType
  <1>6. AtTheEnd(Carried(last, message))' /\ IsWhole(Carried(last, message).latched)
    BY <1>4
  <1>7. PICK longer \in [0..Len(requests') -> GeneratorStates] :
          \A i \in 0..Len(requests') :
            longer[i] = IF i <= Len(requests) THEN course[i] ELSE Carried(last, message)
    <2> DEFINE appended ==
                 [i \in 0..Len(requests') |->
                    IF i <= Len(requests) THEN course[i] ELSE Carried(last, message)]
    <2>1. appended \in [0..Len(requests') -> GeneratorStates]
      BY <1>3, <1>5
    <2> QED BY <2>1
  <1>8. /\ \A i \in 0..Len(requests) : longer[i] = course[i]
        /\ longer[Len(requests')] = Carried(last, message)
    BY <1>3, <1>7
  <1>9. longer[0] = Generator'
    BY <1>1, <1>3, <1>8 DEF IsCourse, Generator
  <1>10. \A i \in 1..Len(requests') : longer[i] = Carried(longer[i - 1], requests'[i])
    <2>1. ASSUME NEW i \in 1..Len(requests)
          PROVE  longer[i] = Carried(longer[i - 1], requests'[i])
      <3>1. i \in 0..Len(requests) /\ i - 1 \in 0..Len(requests)
        BY <1>3
      <3>2. course[i] = Carried(course[i - 1], requests[i])
        BY <1>1 DEF IsCourse
      <3> QED BY <1>3, <1>8, <3>1, <3>2
    <2>2. longer[Len(requests) + 1] = Carried(longer[Len(requests)], message)
      BY <1>3, <1>4, <1>8
    <2>3. \A i \in 1..Len(requests') : i \in 1..Len(requests) \/ i = Len(requests) + 1
      BY <1>3
    <2>4. (Len(requests) + 1) - 1 = Len(requests)
      BY <1>3
    <2> QED BY <1>3, <2>1, <2>2, <2>3, <2>4
  <1>11. \A i \in 0..Len(requests') : IsWhole(longer[i].latched)
    <2>1. \A i \in 0..Len(requests) : IsWhole(longer[i].latched)
      BY <1>1, <1>8 DEF IsCourse
    <2>2. \A i \in 0..Len(requests') : i \in 0..Len(requests) \/ i = Len(requests')
      BY <1>3
    <2> QED BY <1>6, <1>8, <2>1, <2>2
  <1>12. AtTheEnd(longer[Len(requests)])'
    BY <1>6, <1>8
  <1>13. IsCourse(longer)'
    BY <1>9, <1>10, <1>11, <1>12 DEF IsCourse, IsWhole
  <1> QED BY <1>7, <1>13 DEF Course

\* Nothing is sent, and the end of the course is still the one that is due.
LEMMA CourseElsewhere ==
  ASSUME UNCHANGED << requests, card, shifted, latched >>, Course,
         \A state \in GeneratorStates :
           AtTheEnd(state) /\ IsWhole(state.latched) => AtTheEnd(state)',
         TypeInv
  PROVE  Course'
  <1>1. PICK course \in [0..Len(requests) -> GeneratorStates] : IsCourse(course)
    BY DEF Course
  <1>2. Len(requests) \in Nat
    BY DEF TypeInv, DeviceTypes
  <1>3. course[Len(requests)] \in GeneratorStates /\ IsWhole(course[Len(requests)].latched)
    BY <1>1, <1>2 DEF IsCourse
  <1>4. AtTheEnd(course[Len(requests)])'
    BY <1>1, <1>3 DEF IsCourse
  <1>5. IsCourse(course)'
    BY <1>1, <1>4 DEF IsCourse, Generator, IsWhole
  <1> QED BY <1>1, <1>5 DEF Course

\* A step that programs nothing, and sends nothing or no write.
LEMMA ClockElsewhere ==
  ASSUME TypeInv, ClockInv, fault = "none", ~driven,
         UNCHANGED << card, shifted, latched, lastBits >>,
         \/ requests' = requests
         \/ \E message \in Message :
              message.op # "write" /\ requests' = Append(requests, message),
         \A c \in Callers : /\ cpc'[c] = "words" <=> cpc[c] = "words"
                            /\ words'[c] = words[c]
                            /\ cpc[c] = "words" => bits'[c] = bits[c]
  PROVE  Course'
  <1>1. Course
    BY DEF ClockInv
  <1>2. ASSUME NEW state \in GeneratorStates, AtTheEnd(state)
        PROVE  AtTheEnd(state)'
    <2>1. ASSUME NEW c \in Callers, cpc'[c] = "words"
          PROVE  \E orig \in IdleWord, k \in 0..(2 * Len(bits'[c]) + 3) :
                   LeftOf(c, orig, k)' /\ AfterWords(k, bits'[c], state)
      <3>1. cpc[c] = "words" /\ words'[c] = words[c] /\ bits'[c] = bits[c]
        BY <2>1
      <3>2. PICK orig \in IdleWord, k \in 0..(2 * Len(bits[c]) + 3) :
              LeftOf(c, orig, k) /\ AfterWords(k, bits[c], state)
        BY <1>2, <3>1 DEF AtTheEnd
      <3>3. LeftOf(c, orig, k)'
        BY <3>1, <3>2 DEF LeftOf
      <3> QED BY <3>1, <3>2, <3>3
    <2>2. (\A c \in Callers : cpc'[c] # "words") =>
            state.lines = {} /\ state.shifted = << >> /\ state.latched = lastBits'
      BY <1>2 DEF AtTheEnd
    <2> QED BY <2>1, <2>2 DEF AtTheEnd
  <1>3. CASE requests' = requests
    BY <1>1, <1>2, <1>3, CourseElsewhere
  <1>4. ASSUME NEW message \in Message, message.op # "write",
               requests' = Append(requests, message)
        PROVE  Course'
    <2>1. \A state \in GeneratorStates : Carried(state, message) = state
      BY <1>4 DEF Carried, IsWriteTo
    <2> QED BY <1>1, <1>2, <1>4, <2>1, CourseSend
  <1> QED BY <1>3, <1>4

\* A register is set while nobody programs the clock, and its value has no lines.
LEMMA ClockWrite ==
  ASSUME TypeInv, MutexInv, LinesInv, ClockInv, fault = "none", fault' = "none",
         ~driven, ~driven', NEW c \in Callers, WriteRegister(c)
  PROVE  Course'
  <1> DEFINE r == Head(todo[c])
             message == WriteRequest(r, regs[c][r])
  <1>1. /\ r \in Registers /\ regs[c][r] \in Word /\ cpc[c] = "write"
        /\ message \in Message /\ regs[c][r] \in IdleWord
    <2>1. cpc[c] = "write" /\ regs[c][r] \in IdleWord
      BY DEF WriteRegister
    <2> QED BY <2>1, HeadOfTodo, Requests DEF IdleWord
  <1>2. /\ requests' = Append(requests, message)
        /\ UNCHANGED << card, shifted, latched, lastBits >>
        /\ cpc' = [cpc EXCEPT ![c] = "store"]
    BY DEF WriteRegister, Send
  <1>3. \A d \in Callers : cpc[d] # "words" /\ cpc'[d] # "words"
    <2>1. \A d \in Callers : cpc[d] # "words"
      BY <1>1, HolderPrograms DEF Holding
    <2> QED BY <1>2, <2>1 DEF TypeInv, CallTypes
  <1>4. message.word.lines = {}
    BY <1>1 DEF WriteRequest, IdleWord
  <1>5. PICK sent \in Message : sent = message
    BY <1>1
  <1>6. requests' = Append(requests, sent) /\ sent.word.lines = {}
    BY <1>2, <1>4, <1>5
  <1> HIDE DEF r, message
  <1>7. ASSUME NEW state \in GeneratorStates, AtTheEnd(state), IsWhole(state.latched)
        PROVE  AtTheEnd(Carried(state, sent))' /\ IsWhole(Carried(state, sent).latched)
    <2>1. state.lines = {} /\ state.shifted = << >> /\ state.latched = lastBits
      BY <1>3, <1>7 DEF AtTheEnd
    <2> DEFINE next == Carried(state, sent)
    <2>2. next.lines = {} /\ next.shifted = << >> /\ next.latched = lastBits
      BY <1>6, <2>1 DEF Carried, Rises
    <2> QED BY <1>2, <1>3, <1>7, <2>1, <2>2 DEF AtTheEnd
  <1>8. Course
    BY DEF ClockInv
  <1> QED BY <1>2, <1>6, <1>7, <1>8, CourseSend

\* Who has read FCR has all words of it to write, and what was read has no lines.
LEMMA ClockRead ==
  ASSUME TypeInv, MutexInv, PairInv, SettledInv, LinesInv, ClockInv, fault = "none",
         ~driven, NEW c \in Callers, ReceiveFcr(c)
  PROVE  Course'
  <1> DEFINE orig == Head(replies).word
  <1>1. /\ cpc[c] = "receive_fcr" /\ replies # << >> /\ Programs(c, orig)
        /\ UNCHANGED << requests, card, shifted, latched, lastSet, bits >>
    BY DEF ReceiveFcr, TakeReply, Programs, historyVars
  <1>2. \A d \in Callers : cpc[d] # "words"
    BY <1>1, HolderPrograms DEF Holding
  <1>3. orig = lastSet[FCR] /\ orig \in IdleWord
    BY <1>1, ReadIsLastSet, RegistersAssumption DEF LinesInv
  <1> HIDE DEF orig
  <1>4. words'[c] = ClockWords(orig, bits[c]) /\ bits[c] \in Seq({0, 1}) /\ bits' = bits
    BY <1>1 DEF Programs, TypeInv, CallTypes
  <1>5. \A d \in Callers : cpc'[d] = "words" => d = c
    BY <1>1, <1>2 DEF Programs, TypeInv, CallTypes
  <1>6. cpc'[c] = "words"
    BY <1>1 DEF Programs, TypeInv, CallTypes
  <1>7. Len(words'[c]) = 2 * Len(bits[c]) + 3
    <2>1. Len(bits[c]) \in Nat
      BY <1>4
    <2> QED BY <1>3, <1>4, <2>1, ClockWordsType DEF IdleWord
  <1>8. ASSUME NEW state \in GeneratorStates, AtTheEnd(state)
        PROVE  AtTheEnd(state)'
    <2>1. state.lines = {} /\ state.shifted = << >>
      BY <1>2, <1>8 DEF AtTheEnd
    <2>2. PICK o \in IdleWord : o = orig
      BY <1>3
    <2>3. PICK b \in Seq({0, 1}) : b = bits[c]
      BY <1>4
    <2>4. Len(b) \in Nat /\ 0 \in 0..(2 * Len(b) + 3)
      OBVIOUS
    <2>5. LeftOf(c, o, 0)'
      <3>1. Len(words'[c]) = 2 * Len(bits'[c]) + 3 - 0
        BY <1>4, <1>7, <2>3, <2>4
      <3>2. \A j \in 1..Len(words'[c]) : words'[c][j] = ClockWords(o, bits'[c])[0 + j]
        BY <1>4, <1>7, <2>2, <2>3, <2>4
      <3> QED BY <3>1, <3>2 DEF LeftOf
    <2>6. AfterWords(0, b, state)
      <3>1. SubSeq(b, 1, 0) = << >>
        BY SubSeqProperties
      <3>2. 0 \div 2 = 0 /\ 0 # 2 * Len(b) + 2 /\ 0 # 2 * Len(b) + 3
            /\ 0 <= 2 * Len(b) + 1
        BY <2>4
      <3> QED BY <2>1, <2>4, <3>1, <3>2 DEF AfterWords
    <2>7. \A d \in Callers : cpc'[d] = "words" =>
            \E original \in IdleWord, k \in 0..(2 * Len(bits'[d]) + 3) :
              LeftOf(d, original, k)' /\ AfterWords(k, bits'[d], state)
      BY <1>4, <1>5, <2>3, <2>4, <2>5, <2>6
    <2> QED BY <1>6, <2>7 DEF AtTheEnd
  <1>9. Course
    BY DEF ClockInv
  <1> QED BY <1>1, <1>8, <1>9, CourseElsewhere

\* Another word is with the card.
LEMMA ClockWord ==
  ASSUME TypeInv, MutexInv, LinesInv, ClockInv, fault = "none", fault' = "none",
         ~driven, NEW c \in Callers, WriteWord(c)
  PROVE  Course'
  <1> DEFINE message == WriteRequest(FCR, Head(words[c]))
  <1>1. /\ cpc[c] = "words" /\ words[c] # << >> /\ words[c] \in Seq(Word)
        /\ words'[c] = Tail(words[c])
        /\ requests' = Append(requests, message)
        /\ UNCHANGED << card, shifted, latched, cpc, bits >>
    BY DEF WriteWord, Send, TypeInv, CallTypes
  <1>2. message \in Message
    BY <1>1, HeadTailProperties, RegistersAssumption, Requests
  <1>3. message.op = "write" /\ message.reg = FCR /\ message.word = Head(words[c])
    BY DEF WriteRequest
  <1>4. PICK sent \in Message : sent = message
    BY <1>2
  <1>5. /\ requests' = Append(requests, sent)
        /\ IsWriteTo(sent, FCR) /\ sent.word = words[c][1]
    BY <1>1, <1>3, <1>4 DEF IsWriteTo
  <1> HIDE DEF message
  <1>6. \A d \in Callers : cpc[d] = "words" => d = c
    BY <1>1, HolderPrograms DEF Holding
  <1>7. /\ Len(words[c]) \in Nat \ {0} /\ Len(words'[c]) = Len(words[c]) - 1
        /\ \A i \in 1..Len(words'[c]) : words'[c][i] = words[c][i + 1]
    BY <1>1, EmptySeq, HeadTailProperties
  <1>8. ASSUME NEW state \in GeneratorStates, AtTheEnd(state), IsWhole(state.latched)
        PROVE  AtTheEnd(Carried(state, sent))' /\ IsWhole(Carried(state, sent).latched)
    <2>1. PICK b \in Seq({0, 1}) : b = bits[c]
      BY DEF TypeInv, CallTypes
    <2>2. PICK orig \in IdleWord, k \in 0..(2 * Len(b) + 3) :
            LeftOf(c, orig, k) /\ AfterWords(k, b, state)
      BY <1>1, <1>8, <2>1 DEF AtTheEnd
    <2>3. Len(b) \in Nat /\ Len(words[c]) = 2 * Len(b) + 3 - k
      BY <2>1, <2>2 DEF LeftOf
    <2>4. k \in 0..(2 * Len(b) + 2) /\ k + 1 \in 0..(2 * Len(b) + 3)
      BY <1>7, <2>3
    <2>5. sent.word = ClockWords(orig, b)[k + 1]
      BY <1>5, <1>7, <2>1, <2>2 DEF LeftOf
    <2>6. AfterWords(k + 1, b, Carried(state, sent))
      BY <1>5, <2>2, <2>4, <2>5, NextWord
    <2>7. LeftOf(c, orig, k + 1)'
      <3>1. Len(words'[c]) = 2 * Len(bits'[c]) + 3 - (k + 1)
        <4>1. k \in Nat
          BY <2>3, <2>4
        <4>2. Len(words'[c]) = 2 * Len(b) + 3 - (k + 1)
          BY <1>7, <2>3, <4>1
        <4> QED BY <1>1, <2>1, <4>2
      <3>2. ASSUME NEW j \in 1..Len(words'[c])
            PROVE  words'[c][j] = ClockWords(orig, bits'[c])[(k + 1) + j]
        <4>1. j + 1 \in 1..Len(words[c]) /\ k + (j + 1) = (k + 1) + j
          <5>1. k \in Nat
            BY <2>3, <2>4
          <5> QED BY <1>7, <5>1
        <4>2. words[c][j + 1] = ClockWords(orig, bits[c])[k + (j + 1)]
          BY <2>2, <4>1 DEF LeftOf
        <4> QED BY <1>1, <1>7, <4>1, <4>2
      <3> QED BY <3>1, <3>2 DEF LeftOf
    <2>8. AtTheEnd(Carried(state, sent))'
      <3>1. \A d \in Callers : cpc'[d] = "words" =>
              \E original \in IdleWord, j \in 0..(2 * Len(bits'[d]) + 3) :
                LeftOf(d, original, j)' /\ AfterWords(j, bits'[d], Carried(state, sent))
        BY <1>1, <1>6, <2>1, <2>4, <2>6, <2>7
      <3> QED BY <1>1, <3>1 DEF AtTheEnd
    <2>9. IsWhole(Carried(state, sent).latched)
      <3>1. IsWhole(b)
        BY <1>1, <2>1, WholeBits
      <3>2. CASE k >= 2 * Len(b) + 1
        <4>1. Carried(state, sent).latched = b
          BY <2>3, <2>4, <2>6, <3>2 DEF AfterWords
        <4> QED BY <3>1, <4>1
      <3>3. CASE k < 2 * Len(b) + 1
        <4>1. k + 1 # 2 * Len(b) + 2
          BY <2>3, <2>4, <3>3
        <4>2. "strb" \notin Carried(state, sent).lines
          BY <2>6, <4>1 DEF AfterWords
        <4>3. Carried(state, sent).latched = state.latched
          BY <1>5, <4>2 DEF Carried, Rises
        <4> QED BY <1>8, <4>3
      <3> QED BY <2>3, <2>4, <3>2, <3>3
    <2> QED BY <2>8, <2>9
  <1>9. Course
    BY DEF ClockInv
  <1> QED BY <1>1, <1>5, <1>8, <1>9, CourseSend

\* When all words are with the card it has been told the bits.
LEMMA ClockUnlock ==
  ASSUME TypeInv, MutexInv, ClockInv, fault = "none", ~driven, NEW c \in Callers,
         UnlockClock(c)
  PROVE  Course'
  <1>1. /\ cpc[c] = "words" /\ words[c] = << >> /\ lastBits' = bits[c]
        /\ cpc' = [cpc EXCEPT ![c] = "clock_done"]
        /\ UNCHANGED << requests, card, shifted, latched >>
    BY DEF UnlockClock, deviceVars
  <1>2. \A d \in Callers : cpc'[d] # "words"
    <2>1. \A d \in Callers : cpc[d] = "words" => d = c
      BY <1>1, HolderPrograms DEF Holding
    <2> QED BY <1>1, <2>1 DEF TypeInv, CallTypes
  <1>3. ASSUME NEW state \in GeneratorStates, AtTheEnd(state)
        PROVE  AtTheEnd(state)'
    <2>1. PICK b \in Seq({0, 1}) : b = bits[c]
      BY DEF TypeInv, CallTypes
    <2>2. PICK orig \in IdleWord, k \in 0..(2 * Len(b) + 3) :
            LeftOf(c, orig, k) /\ AfterWords(k, b, state)
      BY <1>1, <1>3, <2>1 DEF AtTheEnd
    <2>3. k = 2 * Len(b) + 3 /\ Len(b) \in Nat
      BY <1>1, <2>1, <2>2, EmptySeq DEF LeftOf
    <2>4. state.lines = {} /\ state.shifted = << >> /\ state.latched = b
      BY <2>2, <2>3 DEF AfterWords
    <2> QED BY <1>1, <1>2, <2>1, <2>4 DEF AtTheEnd
  <1>4. Course
    BY DEF ClockInv
  <1> QED BY <1>1, <1>3, <1>4, CourseElsewhere

\* No process drives the clock lines now, none did before.
LEMMA NotDrivenYet ==
  ASSUME [Next]_vars, ~driven'
  PROVE  ~driven
  <1>1. CASE Card \/ UNCHANGED vars
    BY <1>1 DEF Card, vars, historyVars
  <1>2. ASSUME NEW c \in Callers, Begin(c) \/ Lock(c)
        PROVE  ~driven
    BY <1>2 DEF Begin, SetRegisters, SetNonvolatile, GetRegisters, GetNonvolatile,
                SetClockBits, Reprogram, Lock, LockForSet, LockForGet, LockForClock,
                historyVars
  <1>3. ASSUME NEW c \in Callers, GoOn(c)
        PROVE  ~driven
    BY <1>3 DEF GoOn, WriteRegister, StoreRegister, RequestRegister, ReceiveRegister,
                ReceiveTimesOut, Received, RequestFcr, ReceiveFcr, ReceiveFcrTimesOut,
                Programs, WriteWord, UnlockClock, Return, historyVars
  <1> QED BY <1>1, <1>2, <1>3 DEF Next

\* Every step keeps the course of the generator.
LEMMA ClockStep ==
  TypeInv /\ MutexInv /\ PairInv /\ AnswerInv /\ SettledInv /\ LinesInv /\ ClockInv
    /\ [Next]_vars => ClockInv'
  <1> SUFFICES ASSUME TypeInv, MutexInv, PairInv, AnswerInv, SettledInv, LinesInv, ClockInv,
                      [Next]_vars, fault' = "none", ~driven'
               PROVE  Course'
    BY DEF ClockInv
  <1>1. fault = "none" /\ ~driven /\ cpc \in [Callers -> Pcs] /\ bits \in [Callers -> Seq({0, 1})]
    BY NoFaultYet, NotDrivenYet DEF TypeInv, CallTypes
  <1>2. CASE Card
    BY <1>1, <1>2, CourseCard DEF ClockInv
  <1>3. CASE UNCHANGED vars
    BY <1>1, <1>3, ClockElsewhere DEF vars, callVars, deviceVars, historyVars
  <1>4. ASSUME NEW c \in Callers,
               \/ Begin(c) \/ Lock(c) \/ StoreRegister(c) \/ Return(c)
               \/ ReceiveRegister(c) \/ ReceiveTimesOut(c)
               \/ RequestRegister(c) \/ RequestFcr(c)
        PROVE  Course'
    <2>1. UNCHANGED << card, shifted, latched, lastBits, words >>
      <3>1. CASE Begin(c) \/ Lock(c)
        BY <3>1 DEF Begin, SetRegisters, SetNonvolatile, GetRegisters, GetNonvolatile,
                    SetClockBits, Reprogram, Lock, LockForSet, LockForGet, LockForClock,
                    deviceVars, historyVars
      <3>2. CASE ~(Begin(c) \/ Lock(c))
        BY <1>4, <3>2 DEF StoreRegister, Return, ReceiveRegister, ReceiveTimesOut,
                          Received, TakeReply, ReplyTimesOut, RequestRegister, RequestFcr,
                          deviceVars, historyVars
      <3> QED BY <3>1, <3>2
    <2>2. \E pc \in Pcs \ {"words"} : cpc[c] # "words" /\ cpc' = [cpc EXCEPT ![c] = pc]
      <3>1. CASE Begin(c) \/ Lock(c)
        BY <3>1 DEF Begin, SetRegisters, SetNonvolatile, GetRegisters, GetNonvolatile,
                    SetClockBits, Reprogram, Call, Lock, LockForSet, LockForGet,
                    LockForClock, Pcs
      <3>2. CASE ~(Begin(c) \/ Lock(c))
        BY <1>4, <3>2 DEF StoreRegister, Return, ReceiveRegister, ReceiveTimesOut,
                          Received, RequestRegister, RequestFcr, Pcs
      <3> QED BY <3>1, <3>2
    <2>3. bits' = bits \/ \E b : bits' = [bits EXCEPT ![c] = b]
      <3>1. CASE Begin(c) \/ Lock(c)
        BY <3>1 DEF Begin, SetRegisters, SetNonvolatile, GetRegisters, GetNonvolatile,
                    SetClockBits, Reprogram, Lock, LockForSet, LockForGet, LockForClock
      <3>2. CASE ~(Begin(c) \/ Lock(c))
        BY <1>4, <3>2 DEF StoreRegister, Return, ReceiveRegister, ReceiveTimesOut,
                          Received, RequestRegister, RequestFcr
      <3> QED BY <3>1, <3>2
    <2>4. \A d \in Callers : /\ cpc'[d] = "words" <=> cpc[d] = "words"
                             /\ words'[d] = words[d]
                             /\ cpc[d] = "words" => bits'[d] = bits[d]
      BY <1>1, <2>1, <2>2, <2>3
    <2>5. \/ requests' = requests
          \/ \E message \in Message :
               message.op # "write" /\ requests' = Append(requests, message)
      <3>1. CASE Reprogram(c)
        BY <1>1, <3>1, Requests DEF Reprogram, Send, ProgramRequest
      <3>2. CASE RequestRegister(c) \/ RequestFcr(c)
        <4>1. \E r \in Registers : requests' = Append(requests, ReadRequest(r))
          BY <1>1, <3>2, HeadOfTodo, RegistersAssumption DEF RequestRegister, RequestFcr, Send
        <4>2. \A r \in Registers : ReadRequest(r) \in Message /\ ReadRequest(r).op # "write"
          BY Requests DEF ReadRequest
        <4> QED BY <4>1, <4>2
      <3>3. CASE ~(Reprogram(c) \/ RequestRegister(c) \/ RequestFcr(c))
        BY <1>4, <3>3
           DEF Begin, SetRegisters, SetNonvolatile, GetRegisters, GetNonvolatile,
               SetClockBits, Lock, LockForSet, LockForGet, LockForClock, StoreRegister,
               Return, ReceiveRegister, ReceiveTimesOut, TakeReply, ReplyTimesOut,
               deviceVars
      <3> QED BY <3>1, <3>2, <3>3
    <2> QED BY <1>1, <2>1, <2>4, <2>5, ClockElsewhere
  <1>5. ASSUME NEW c \in Callers, ReceiveFcrTimesOut(c)
        PROVE  FALSE
    BY <1>1, <1>5, FcrIsAnswered
  <1> QED BY <1>1, <1>2, <1>3, <1>4, <1>5, ClockWrite, ClockRead, ClockWord, ClockUnlock
          DEF Next, GoOn

\* Initially nothing is under way, and the generator has the bits of initialize.
LEMMA ClockInit == Init => ClockInv
  <1> SUFFICES ASSUME Init PROVE Course
    BY DEF ClockInv
  <1>1. Generator \in GeneratorStates
    BY TypeInit, GeneratorType
  <1>2. PICK course \in [0..Len(requests) -> GeneratorStates] : course[0] = Generator
    <2> DEFINE still == [i \in 0..Len(requests) |-> Generator]
    <2>1. still \in [0..Len(requests) -> GeneratorStates] /\ 0 \in 0..Len(requests)
      BY <1>1 DEF Init
    <2> QED BY <2>1
  <1>3. Len(requests) = 0
    BY DEF Init
  <1>4. /\ Generator.lines = {} /\ Generator.shifted = << >>
        /\ Generator.latched = lastBits /\ IsWhole(Generator.latched)
    BY RegistersAssumption DEF Init, Generator, Idle, IsWhole
  <1>5. AtTheEnd(Generator)
    BY <1>4 DEF Init, AtTheEnd
  <1>6. IsCourse(course)
    BY <1>2, <1>3, <1>4, <1>5 DEF IsCourse
  <1> QED BY <1>2, <1>6 DEF Course

\* As long as nothing is lost or late and no process drives the clock lines by
\* setting FCR, the clock generator never has anything but the
\* bits of one call, whole, and when the card has carried out everything those of the
\* last one: no other call can come between the words (synccom_port_set_clock_bits).
THEOREM ClockStaysWhole == Spec => []ClockIsWhole
  <1>1. TypeInv /\ MutexInv /\ ClockInv => ClockIsWhole
    <2> SUFFICES ASSUME TypeInv, MutexInv, ClockInv, fault = "none", ~driven
                 PROVE  (Quiet => latched = lastBits) /\ IsWhole(latched)
      BY DEF ClockIsWhole, IsWhole
    <2>1. PICK course \in [0..Len(requests) -> GeneratorStates] : IsCourse(course)
      BY DEF ClockInv, Course
    <2>2. Len(requests) \in Nat /\ 0 \in 0..Len(requests)
      BY DEF TypeInv, DeviceTypes
    <2>3. course[0] = Generator /\ IsWhole(course[0].latched)
      BY <2>1, <2>2 DEF IsCourse
    <2>4. Generator.latched = latched
      BY DEF Generator
    <2>5. ASSUME Quiet PROVE latched = lastBits
      <3>1. Len(requests) = 0 /\ register_access_mutex = Nobody
        BY <2>5 DEF Quiet
      <3>2. \A c \in Callers : cpc[c] # "words"
        BY <3>1, RegistersAssumption DEF MutexInv, Holding
      <3>3. AtTheEnd(course[0])
        BY <2>1, <3>1 DEF IsCourse
      <3> QED BY <2>3, <2>4, <3>2, <3>3 DEF AtTheEnd
    <2> QED BY <2>3, <2>4, <2>5
  <1> QED BY <1>1, TypeInit, TypeStep, PairInit, MutexStep, PairStep, SettledInit,
             AnswerStep, SettledStep, LinesInit, LinesStep, ClockInit, ClockStep, PTL
          DEF Spec
=============================================================================
