-------------------------- MODULE SynccomRegisters --------------------------
(***************************************************************************)
(* Registers: the calls that read and write them and program the clock     *)
(* generator, over one pair of endpoints of the card (port.c).             *)
(*                                                                         *)
(* A request goes out on one endpoint and the card carries out what it     *)
(* receives in order; a read puts a reply on the other one.  Nothing in a  *)
(* reply says what it answers.  register_access_mutex is held from a       *)
(* request to its reply, and over all writes that program the clock.       *)
(* usb_bulk_msg gives up after ten seconds, and no caller looks at its     *)
(* result.                                                                 *)
(***************************************************************************)
EXTENDS Integers, Sequences

CONSTANTS
  Callers,        \* processes in an ioctl
  Nobody,         \* register_access_mutex is free
  Registers,      \* what a read or write can name, FCR and Nonvolatile among them
  Struct,         \* the registers of struct synccom_registers, in order
  ReadOnly,       \* STAR and VSTR
  FCR,
  Nonvolatile,    \* the word kept in the card, which is not in the structure
  Values,         \* of a register, of FCR without its clock lines
  DefaultValue,   \* what initialize sets
  Leftovers,      \* the words that uninitialised memory may contain
  ClockBits,      \* the bit strings that calls program
  DefaultBits,    \* what initialize programs
  ForcedBit,      \* the bit that every call sets: clock_data[15] |= 0x04
  FirmwareBytes,  \* the two bytes of the firmware's revision
  CharIsSigned,   \* plain chars are signed on this processor
  EndpointDepth,  \* how many requests the card buffers
  Keep, Update,   \* -1 and SYNCCOM_UPDATE_VALUE, in a structure
  Given,          \* the structures that processes set: a value or Keep each
  Asked,          \* the sets of registers that processes get
  MaxCalls,       \* bound: how many calls begin
  Faults          \* of {"lost", "late"}; one of them happens at most once

FIRST_NONVOLATILE_VERSION == 272   \* 0x110

Lines == {"strb", "dta", "clk"}

\* The value of a register.  Only FCR has clock lines, the bits of 0x0f0f.
Word == [rest : Values, lines : SUBSET Lines]

\* One that leaves the clock lines low.
IdleWord == {word \in Word : word.lines = {}}

ASSUME RegistersAssumption ==
  /\ Nobody \notin Callers
  /\ Struct \in Seq(Registers)
  /\ {FCR, Nonvolatile} \subseteq Registers
  /\ ReadOnly \subseteq Registers \ {Nonvolatile}
  /\ DefaultValue \in Values
  /\ {Keep, Update} \cap Word = {}
  /\ Given \subseteq [Registers -> Word \cup {Keep}]
  /\ \A given \in Given :
       /\ given[Nonvolatile] = Keep
       /\ \A r \in Registers \ {FCR} : given[r] \in IdleWord \cup {Keep}
  /\ Asked \subseteq SUBSET (Registers \ {Nonvolatile})
  /\ MaxCalls \in Nat
  /\ ClockBits \cup {DefaultBits} \subseteq Seq({0, 1})
  /\ \A bits \in ClockBits \cup {DefaultBits} : ForcedBit \in 1..Len(bits)
  /\ Leftovers \subseteq Word
  /\ FirmwareBytes \in [1..2 -> 0..255]
  /\ CharIsSigned \in BOOLEAN
  /\ EndpointDepth \in Nat \ {0}
  /\ Faults \subseteq {"lost", "late"}

VARIABLES
  register_access_mutex,
  register_storage,   \* the driver's copy of what was written
  cpc,                \* where each caller is
  regs,               \* the structure of each caller
  todo,               \* the rest of the registers it goes through
  bits,               \* the clock bits it programs
  words,              \* the values of FCR it still has to write
  requests,           \* accepted by the card, not carried out yet
  replies,            \* sent by the card, not read yet
  card,               \* the registers of the card
  shifted, latched,   \* the clock generator's input register, and its setting
  calls,              \* how many calls have begun
  fault,              \* the fault that has happened, or "none"
  lastSet, lastBits,  \* history: what was sent to the card last
  overlapped,         \* history: a register was set while another set of it was
                      \*   between its write and its copy
  driven              \* history: a process set FCR with clock lines high

callVars == << cpc, regs, todo, bits, words >>
deviceVars == << requests, replies, card, shifted, latched >>
historyVars == << lastSet, lastBits, overlapped, driven >>
vars == << register_access_mutex, register_storage, callVars, deviceVars, calls,
           fault, historyVars >>

-----------------------------------------------------------------------------
(* Values                                                                  *)

Idle(value) == [rest |-> value, lines |-> {}]

WithLines(word, lines) == [word EXCEPT !.lines = lines]

\* The writes of synccom_port_set_clock_bits: lines low; for each bit its data
\* with the clock high, then low; the strobe; what was there before.
MutClockWordsForgetsBit(orig, b) ==
  LET n == Len(b) - 1
      Data(i) == IF b[i] = 1 THEN {"dta"} ELSE {}
  IN  [k \in 1..2 * n + 3 |->
         IF k = 1 THEN WithLines(orig, {})
         ELSE IF k = 2 * n + 2 THEN WithLines(orig, {"strb"})
         ELSE IF k = 2 * n + 3 THEN orig
         ELSE IF k % 2 = 0 THEN WithLines(orig, Data(k \div 2) \cup {"clk"})
         ELSE WithLines(orig, Data(k \div 2))]

ClockWords(orig, b) ==
  LET n == Len(b)
      Data(i) == IF b[i] = 1 THEN {"dta"} ELSE {}
  IN  [k \in 1..2 * n + 3 |->
         IF k = 1 THEN WithLines(orig, {})
         ELSE IF k = 2 * n + 2 THEN WithLines(orig, {"strb"})
         ELSE IF k = 2 * n + 3 THEN orig
         ELSE IF k % 2 = 0 THEN WithLines(orig, Data(k \div 2) \cup {"clk"})
         ELSE WithLines(orig, Data(k \div 2))]

WithForcedBit(b) == [b EXCEPT ![ForcedBit] = 1]

\* fx2_rev is value[0] << 8 | value[1] in 32 bits.  A char brings its sign along:
\* from 0x80 on the second byte sets all bits before it, and the word is larger
\* than any revision.
FirmwareIsFrom(version) ==
  \/ CharIsSigned /\ FirmwareBytes[2] >= 128
  \/ 256 * FirmwareBytes[1] + FirmwareBytes[2] >= version

can_support_nonvolatile == FirmwareIsFrom(FIRST_NONVOLATILE_VERSION)

\* After initialize.
Init ==
  /\ register_access_mutex = Nobody
  /\ register_storage = [r \in Registers |-> Idle(DefaultValue)]
  /\ cpc = [c \in Callers |-> "idle"]
  /\ regs = [c \in Callers |-> [r \in Registers |-> Keep]]
  /\ todo = [c \in Callers |-> << >>]
  /\ bits = [c \in Callers |-> << >>]
  /\ words = [c \in Callers |-> << >>]
  /\ requests = << >>
  /\ replies = << >>
  /\ card = [r \in Registers |-> Idle(DefaultValue)]
  /\ shifted = << >>
  /\ latched = WithForcedBit(DefaultBits)
  /\ calls = 0
  /\ fault = "none"
  /\ lastSet = [r \in Registers |-> Idle(DefaultValue)]
  /\ lastBits = WithForcedBit(DefaultBits)
  /\ overlapped = FALSE
  /\ driven = FALSE

-----------------------------------------------------------------------------
(* The endpoints                                                           *)

ReadRequest(r) == [op |-> "read", reg |-> r]
WriteRequest(r, word) == [op |-> "write", reg |-> r, word |-> word]
ProgramRequest == [op |-> "program"]

\* usb_bulk_msg to the card: the card takes the message, or never gets it.
Send(request) ==
  \/ /\ Len(requests) < EndpointDepth
     /\ requests' = Append(requests, request)
     /\ UNCHANGED fault
  \/ /\ "lost" \in Faults
     /\ fault = "none"
     /\ fault' = "lost"
     /\ UNCHANGED requests

\* usb_bulk_msg from the card: the reply.
TakeReply ==
  /\ replies # << >>
  /\ replies' = Tail(replies)
  /\ UNCHANGED << requests, card, shifted, latched, fault >>

\* usb_bulk_msg from the card, after ten seconds: no reply is due, or it will
\* come later.
ReplyTimesOut ==
  /\ replies = << >>
  /\ \/ /\ requests = << >>
        /\ UNCHANGED fault
     \/ /\ "late" \in Faults
        /\ fault = "none"
        /\ fault' = "late"
  /\ UNCHANGED deviceVars

\* The clock generator shifts its data in when the clock rises, and takes what it
\* has when the strobe rises.
ClockGenerator(old, new) ==
  /\ shifted' = IF "strb" \in new \ old THEN << >>
                ELSE IF "clk" \in new \ old
                THEN Append(shifted, IF "dta" \in new THEN 1 ELSE 0)
                ELSE shifted
  /\ latched' = IF "strb" \in new \ old THEN shifted ELSE latched

\* The card carries out the oldest request.
Card ==
  /\ requests # << >>
  /\ requests' = Tail(requests)
  /\ LET request == Head(requests) IN
       \/ /\ request.op = "write"
          /\ card' = [card EXCEPT ![request.reg] = request.word]
          /\ IF request.reg = FCR
             THEN ClockGenerator(card[FCR].lines, request.word.lines)
             ELSE UNCHANGED << shifted, latched >>
          /\ UNCHANGED replies
       \/ /\ request.op = "read"
          /\ replies' = Append(replies, [reg |-> request.reg,
                                         word |-> card[request.reg]])
          /\ UNCHANGED << card, shifted, latched >>
       \/ /\ request.op = "program"
          /\ UNCHANGED << card, shifted, latched, replies >>
  /\ UNCHANGED << register_access_mutex, register_storage, callVars, fault,
                  historyVars, calls >>

-----------------------------------------------------------------------------
(* SYNCCOM_SET_REGISTERS and SYNCCOM_SET_NONVOLATILE                       *)

MutIsSet(r, value) == r \notin ReadOnly

\* Read-only registers and negative values are passed over.
IsSet(r, value) == r \notin ReadOnly /\ value \notin {Keep, Update}

Wanted(c, r) == IF cpc[c] = "set" THEN IsSet(r, regs[c][r]) ELSE regs[c][r] = Update

\* The loops over the structure go on to the next register that is wanted ...
NextRegister(c) ==
  \E i \in 1..Len(todo[c]) :
    /\ Wanted(c, todo[c][i])
    /\ \A j \in 1..(i - 1) : ~Wanted(c, todo[c][j])
    /\ todo' = [todo EXCEPT ![c] = SubSeq(@, i, Len(@))]

\* ... until there is none.
NoneWanted(c) == \A i \in 1..Len(todo[c]) : ~Wanted(c, todo[c][i])

\* A call begins.
Call(c, pc) ==
  /\ cpc[c] = "idle"
  /\ calls < MaxCalls
  /\ calls' = calls + 1
  /\ cpc' = [cpc EXCEPT ![c] = pc]

\* The structure is gone through in order.  Nothing looks at its values: one of FCR
\* may drive the lines of the clock generator.
SetRegisters(c) ==
  /\ Call(c, "set")
  /\ \E given \in Given :
       regs' = [regs EXCEPT ![c] = given]
  /\ todo' = [todo EXCEPT ![c] = Struct]
  /\ UNCHANGED << register_access_mutex, register_storage, bits, words, deviceVars,
                  fault, historyVars >>

SetNonvolatile(c) ==
  /\ can_support_nonvolatile
  /\ Call(c, "set")
  /\ \E v \in Values :
       regs' = [regs EXCEPT ![c][Nonvolatile] = Idle(v)]
  /\ todo' = [todo EXCEPT ![c] = << Nonvolatile >>]
  /\ UNCHANGED << register_access_mutex, register_storage, bits, words, deviceVars,
                  fault, historyVars >>

LockForSet(c) ==
  /\ cpc[c] = "set"
  /\ NextRegister(c)
  /\ register_access_mutex = Nobody
  /\ register_access_mutex' = c
  /\ cpc' = [cpc EXCEPT ![c] = "write"]
  /\ UNCHANGED << register_storage, regs, bits, words, deviceVars, fault,
                  historyVars, calls >>

WriteRegister(c) ==
  /\ cpc[c] = "write"
  /\ LET r == Head(todo[c]) IN
       /\ Send(WriteRequest(r, regs[c][r]))
       /\ lastSet' = [lastSet EXCEPT ![r] = regs[c][r]]
       /\ overlapped' = (overlapped \/ \E d \in Callers :
                                         cpc[d] = "store" /\ Head(todo[d]) = r)
       /\ driven' = (driven \/ regs[c][r] \notin IdleWord)
  /\ register_access_mutex' = Nobody
  /\ cpc' = [cpc EXCEPT ![c] = "store"]
  /\ UNCHANGED << register_storage, regs, todo, bits, words, replies, card, shifted,
                  latched, lastBits, calls >>

MutStoreRegisterForgetsFcr(c) ==
  /\ cpc[c] = "store"
  /\ LET r == Head(todo[c]) IN
       register_storage' = IF r \in {Nonvolatile, FCR} THEN register_storage
                           ELSE [register_storage EXCEPT ![r] = regs[c][r]]
  /\ todo' = [todo EXCEPT ![c] = Tail(@)]
  /\ cpc' = [cpc EXCEPT ![c] = "set"]
  /\ UNCHANGED << register_access_mutex, regs, bits, words, deviceVars, fault,
                  historyVars, calls >>

\* register_storage is written after the mutex was released.
StoreRegister(c) ==
  /\ cpc[c] = "store"
  /\ LET r == Head(todo[c]) IN
       register_storage' = IF r = Nonvolatile THEN register_storage
                           ELSE [register_storage EXCEPT ![r] = regs[c][r]]
  /\ todo' = [todo EXCEPT ![c] = Tail(@)]
  /\ cpc' = [cpc EXCEPT ![c] = "set"]
  /\ UNCHANGED << register_access_mutex, regs, bits, words, deviceVars, fault,
                  historyVars, calls >>

-----------------------------------------------------------------------------
(* SYNCCOM_GET_REGISTERS and SYNCCOM_GET_NONVOLATILE                       *)

GetRegisters(c) ==
  /\ Call(c, "get")
  /\ \E asked \in Asked :
       regs' = [regs EXCEPT ![c] =
                  [r \in Registers |-> IF r \in asked THEN Update ELSE Keep]]
  /\ todo' = [todo EXCEPT ![c] = Struct]
  /\ UNCHANGED << register_access_mutex, register_storage, bits, words, deviceVars,
                  fault, historyVars >>

GetNonvolatile(c) ==
  /\ can_support_nonvolatile
  /\ Call(c, "get")
  /\ regs' = [regs EXCEPT ![c][Nonvolatile] = Update]
  /\ todo' = [todo EXCEPT ![c] = << Nonvolatile >>]
  /\ UNCHANGED << register_access_mutex, register_storage, bits, words, deviceVars,
                  fault, historyVars >>

MutLockForGetUnlocked(c) ==
  /\ cpc[c] = "get"
  /\ NextRegister(c)
  /\ cpc' = [cpc EXCEPT ![c] = "request"]
  /\ UNCHANGED << register_access_mutex, register_storage, regs, bits, words,
                  deviceVars, fault, historyVars, calls >>

LockForGet(c) ==
  /\ cpc[c] = "get"
  /\ NextRegister(c)
  /\ register_access_mutex = Nobody
  /\ register_access_mutex' = c
  /\ cpc' = [cpc EXCEPT ![c] = "request"]
  /\ UNCHANGED << register_storage, regs, bits, words, deviceVars, fault,
                  historyVars, calls >>

RequestRegister(c) ==
  /\ cpc[c] = "request"
  /\ Send(ReadRequest(Head(todo[c])))
  /\ cpc' = [cpc EXCEPT ![c] = "receive"]
  /\ UNCHANGED << register_access_mutex, register_storage, regs, todo, bits, words,
                  replies, card, shifted, latched, historyVars, calls >>

\* What was received goes into the structure, and the mutex is released.
Received(c, word) ==
  /\ regs' = [regs EXCEPT ![c][Head(todo[c])] = word]
  /\ todo' = [todo EXCEPT ![c] = Tail(@)]
  /\ register_access_mutex' = Nobody
  /\ cpc' = [cpc EXCEPT ![c] = "get"]
  /\ UNCHANGED << register_storage, bits, words, calls, historyVars >>

ReceiveRegister(c) ==
  /\ cpc[c] = "receive"
  /\ TakeReply
  /\ Received(c, Head(replies).word)

MutTimeOutKeepsMutex(c) ==
  /\ cpc[c] = "receive"
  /\ ReplyTimesOut
  /\ todo' = [todo EXCEPT ![c] = Tail(@)]
  /\ cpc' = [cpc EXCEPT ![c] = "get"]
  /\ UNCHANGED << register_access_mutex, register_storage, regs, bits, words,
                  historyVars, calls >>

\* Without a reply the value is what the allocation contained.
ReceiveTimesOut(c) ==
  /\ cpc[c] = "receive"
  /\ ReplyTimesOut
  /\ \E word \in Leftovers : Received(c, word)

-----------------------------------------------------------------------------
(* SYNCCOM_SET_CLOCK_BITS and SYNCCOM_REPROGRAM                            *)

\* When the words cannot be allocated the call returns and does nothing.
SetClockBits(c) ==
  /\ Call(c, "clock")
  /\ \E b \in ClockBits :
       bits' = [bits EXCEPT ![c] = WithForcedBit(b)]
  /\ UNCHANGED << register_access_mutex, register_storage, regs, todo, words,
                  deviceVars, fault, historyVars >>

LockForClock(c) ==
  /\ cpc[c] = "clock"
  /\ register_access_mutex = Nobody
  /\ register_access_mutex' = c
  /\ cpc' = [cpc EXCEPT ![c] = "request_fcr"]
  /\ UNCHANGED << register_storage, regs, todo, bits, words, deviceVars, fault,
                  historyVars, calls >>

RequestFcr(c) ==
  /\ cpc[c] = "request_fcr"
  /\ Send(ReadRequest(FCR))
  /\ cpc' = [cpc EXCEPT ![c] = "receive_fcr"]
  /\ UNCHANGED << register_access_mutex, register_storage, regs, todo, bits, words,
                  replies, card, shifted, latched, historyVars, calls >>

\* orig_fcr_value is what was received; all words are made from it.
Programs(c, orig) ==
  /\ words' = [words EXCEPT ![c] = ClockWords(orig, bits[c])]
  /\ cpc' = [cpc EXCEPT ![c] = "words"]
  /\ UNCHANGED << register_storage, regs, todo, bits, calls, historyVars >>

MutReceiveFcrUnlocks(c) ==
  /\ cpc[c] = "receive_fcr"
  /\ TakeReply
  /\ register_access_mutex' = Nobody
  /\ Programs(c, Head(replies).word)

ReceiveFcr(c) ==
  /\ cpc[c] = "receive_fcr"
  /\ TakeReply
  /\ Programs(c, Head(replies).word)
  /\ UNCHANGED register_access_mutex

ReceiveFcrTimesOut(c) ==
  /\ cpc[c] = "receive_fcr"
  /\ ReplyTimesOut
  /\ \E word \in Leftovers : Programs(c, word)
  /\ UNCHANGED register_access_mutex

WriteWord(c) ==
  /\ cpc[c] = "words"
  /\ words[c] # << >>
  /\ Send(WriteRequest(FCR, Head(words[c])))
  /\ words' = [words EXCEPT ![c] = Tail(@)]
  /\ UNCHANGED << register_access_mutex, register_storage, cpc, regs, todo, bits,
                  replies, card, shifted, latched, historyVars, calls >>

UnlockClock(c) ==
  /\ cpc[c] = "words"
  /\ words[c] = << >>
  /\ register_access_mutex' = Nobody
  /\ lastBits' = bits[c]
  /\ cpc' = [cpc EXCEPT ![c] = "clock_done"]
  /\ UNCHANGED << register_storage, regs, todo, bits, words, deviceVars, fault,
                  lastSet, overlapped, driven, calls >>

\* program_synccom takes no mutex.
Reprogram(c) ==
  /\ Call(c, "idle")
  /\ Send(ProgramRequest)
  /\ UNCHANGED << register_access_mutex, register_storage, regs, todo, bits, words,
                  replies, card, shifted, latched, historyVars >>

\* The structure goes back to the process, and the call is over.
Return(c) ==
  /\ \/ cpc[c] \in {"set", "get"} /\ NoneWanted(c)
     \/ cpc[c] = "clock_done"
  /\ cpc' = [cpc EXCEPT ![c] = "idle"]
  /\ regs' = [regs EXCEPT ![c] = [r \in Registers |-> Keep]]
  /\ todo' = [todo EXCEPT ![c] = << >>]
  /\ bits' = [bits EXCEPT ![c] = << >>]
  /\ UNCHANGED << register_access_mutex, register_storage, words, deviceVars,
                  fault, historyVars, calls >>

-----------------------------------------------------------------------------
Begin(c) ==
  \/ SetRegisters(c) \/ SetNonvolatile(c)
  \/ GetRegisters(c) \/ GetNonvolatile(c)
  \/ SetClockBits(c) \/ Reprogram(c)

Lock(c) == LockForSet(c) \/ LockForGet(c) \/ LockForClock(c)

GoOn(c) ==
  \/ WriteRegister(c) \/ StoreRegister(c)
  \/ RequestRegister(c) \/ ReceiveRegister(c) \/ ReceiveTimesOut(c)
  \/ RequestFcr(c) \/ ReceiveFcr(c) \/ ReceiveFcrTimesOut(c)
  \/ WriteWord(c) \/ UnlockClock(c)
  \/ Return(c)

Next == Card \/ \E c \in Callers : Begin(c) \/ Lock(c) \/ GoOn(c)

Spec == Init /\ [][Next]_vars

\* The card carries out what it received, and a process in a call goes on.  As the
\* number of calls is bounded, no more has to be asked of the mutex.
Fairness ==
  /\ WF_vars(Card)
  /\ \A c \in Callers : WF_vars(Lock(c) \/ GoOn(c))

FairSpec == Spec /\ Fairness

-----------------------------------------------------------------------------
(* Properties                                                              *)

Pcs == {"idle", "set", "write", "store", "get", "request", "receive", "clock",
        "request_fcr", "receive_fcr", "words", "clock_done"}

Message ==
  [op : {"read"}, reg : Registers]
    \cup [op : {"write"}, reg : Registers, word : Word]
    \cup [op : {"program"}]

\* Every variable has its type.
TypeOK ==
  /\ register_access_mutex \in Callers \cup {Nobody}
  /\ register_storage \in [Registers -> Word]
  /\ cpc \in [Callers -> Pcs]
  /\ regs \in [Callers -> [Registers -> Word \cup {Keep, Update}]]
  /\ todo \in [Callers -> Seq(Registers)]
  /\ bits \in [Callers -> Seq({0, 1})]
  /\ words \in [Callers -> Seq(Word)]
  /\ requests \in Seq(Message)
  /\ replies \in Seq([reg : Registers, word : Word])
  /\ card \in [Registers -> Word]
  /\ shifted \in Seq({0, 1})
  /\ latched \in Seq({0, 1})
  /\ calls \in Nat
  /\ fault \in {"none"} \cup Faults
  /\ lastSet \in [Registers -> Word]
  /\ lastBits \in Seq({0, 1})
  /\ overlapped \in BOOLEAN
  /\ driven \in BOOLEAN

\* The register whose reply a caller waits for.
AwaitedBy(c) == IF cpc[c] = "receive" THEN Head(todo[c]) ELSE FCR

\* A reply there is answers the request of whoever waits for it, and is what the
\* register still contains, although replies name nothing: the mutex pairs them,
\* also when requests get lost (synccom_port_get_register).  Late replies are
\* another matter.
AnswersInStep ==
  fault # "late" /\ replies # << >> =>
    /\ Len(replies) = 1
    /\ \E c \in Callers :
         /\ register_access_mutex = c
         /\ cpc[c] \in {"receive", "receive_fcr"}
         /\ replies[1] = [reg |-> AwaitedBy(c), word |-> card[AwaitedBy(c)]]

Quiet == register_access_mutex = Nobody /\ requests = << >>

\* When the card has carried out everything, every register has the value set
\* last: programming the clock, which reads FCR first and writes it back in the
\* end, undoes no SYNCCOM_SET_REGISTERS (synccom_port_set_clock_bits).
SetsAreKept == fault = "none" /\ Quiet => card = lastSet

\* And the clock generator has the bits of one call, the last one, whole
\* (synccom_port_set_clock_bits), as long as no process drives its lines by setting
\* FCR, which synccom_port_set_registers lets it do.
ClockIsWhole ==
  fault = "none" /\ ~driven =>
    /\ Quiet => latched = lastBits
    /\ \E b \in ClockBits \cup {DefaultBits} : latched = WithForcedBit(b)

\* The driver's copy, by which it decides whether reads are streaming, has what was
\* set last, although it is written after the mutex was released and programming
\* the clock passes it by - unless two sets of one register have overlapped there
\* (synccom_port_set_register).
CopyIsLastSet ==
  ~overlapped /\ (\A c \in Callers : cpc[c] # "store") =>
    \A r \in Registers \ {Nonvolatile} : register_storage[r] = lastSet[r]

\* Every call returns, whatever is lost or late.
CallsReturn == \A c \in Callers : (cpc[c] # "idle") ~> (cpc[c] = "idle")

-----------------------------------------------------------------------------
(* What the documentation says and the code does not do                    *)

\* "At this point `regs.CCR0` and `regs.BGR` would be set to their respective
\* values." (docs/registers.md): a reply that goes into a register of the
\* structure is that register's.
RegistersGetTheirValues ==
  \A c \in Callers :
    cpc[c] = "receive" /\ replies # << >> => Head(replies).reg = Head(todo[c])
=============================================================================
