----------------------------- MODULE ClockWord -----------------------------
(***************************************************************************)
(* The 20 bytes with which the clock generator of the card (an ICS307-03)  *)
(* is programmed, as lib/raw/calculate-clock-bits.c composes them from the *)
(* tables of its data sheet.  A word is the set of its bits that are one:  *)
(* bit b of progdata[i] is 8 * i + b.                                      *)
(***************************************************************************)
EXTENDS Integers

\* The width low bits of value, from bit at on.
Bits(value, at, width) ==
  {at + i : i \in {j \in 0..(width - 1) : (value \div 2^j) % 2 = 1}}

\* progdata before the tables: CLK3's divider, reference from the crystal,
\* power up, CLK1 enabled.
FixedBits == (136..159) \cup {122, 112, 110}

-----------------------------------------------------------------------------
(* Table 1: input divider, Table 2: VCO divider                            *)

InputDividers == 1..2055
VCODividers == 12..2055

\* Up to 17 the complement of rd - 2, from 18 on rd - 8.
InputDividerBits(rd) ==
  CASE rd = 1 -> {}
    [] rd = 2 -> {0}
    [] rd \in 3..17 -> {1} \cup Bits(15 - (rd - 2), 2, 4)
    [] rd \in 18..2055 -> {0, 1} \cup Bits(rd - 8, 2, 11)

VCODividerBits(vd) == Bits(vd - 8, 13, 11)

-----------------------------------------------------------------------------
(* Table 4: loop filter resistor, Table 3: charge pump current             *)

MutLoopFilterResistors == << 64, 52, 20, 4 >>

\* In kOhm, in the order they are tried.
LoopFilterResistors == << 64, 52, 16, 4 >>

LoopFilterBits(Rs) ==
  CASE Rs = 64 -> {}
    [] Rs = 52 -> {90}
    [] Rs = 16 -> {89}
    [] Rs = 4 -> {89, 90}

\* In units of 10 nA (icpnum), in the order they are tried.
ChargePumpCurrents ==
  << 125, 250, 375, 500, 625, 750, 875, 1000, 1125, 1250,
     1500, 1750, 1875, 2000, 2250, 2500, 2625, 3000, 3500, 4000 >>

\* Bits 91 to 93 hold n and bits 127 and 128 hold m; the current is
\* 125 * (8 - n) * (m + 1).  Some currents have two such pairs: this is the
\* one the switch writes.
ChargePumpCode ==
  [icpnum \in {125, 250, 375, 500, 625, 750, 875, 1000, 1125, 1250,
               1500, 1750, 1875, 2000, 2250, 2500, 2625, 3000, 3500, 4000} |->
     CASE icpnum \in {125, 250, 375, 500} -> << 7, (icpnum \div 125) - 1 >>
       [] icpnum \in {1250, 1875, 2500} -> << 3, (icpnum \div 625) - 1 >>
       [] icpnum \in {1125, 1500} -> << 5, (icpnum \div 375) - 1 >>
       [] icpnum \in {625, 750, 875, 1000} -> << 8 - icpnum \div 125, 0 >>
       [] icpnum \in {1750, 2625, 3500} -> << 1, (icpnum \div 875) - 1 >>
       [] icpnum \in {2000, 3000, 4000} -> << 0, (icpnum \div 1000) - 1 >>
       [] icpnum = 2250 -> << 2, 2 >>]

ChargePumpBits(icpnum) ==
  LET code == ChargePumpCode[icpnum]
  IN  Bits(code[1], 91, 3) \cup Bits(code[2], 127, 2)

-----------------------------------------------------------------------------
(* Table 5: output divider                                                 *)

OutputDividers == 2..8232

SmallOutputDivider ==
  [od \in (2..7) \cup {9, 11, 13} |->
     CASE od = 2 -> {}       [] od = 3 -> {95}      [] od = 4 -> {98}
       [] od = 5 -> {96}     [] od = 6 -> {95, 98}  [] od = 7 -> {95, 96}
       [] od = 9 -> {95, 96, 98}
       [] od = 11 -> {95, 96, 99}
       [] od = 13 -> {95, 96, 98, 99}]

\* The fits of an output divider: od = (2 * (i + 3) + y) * 2^z.
Fits(od) ==
  {f \in (0..511) \X {0, 1} \X (0..3) :
     od = (2 * (f[1] + 3) + f[2]) * 2^f[3]}

MutLargeOutputBits(od) ==
  IF Fits(od) = {}
  THEN {95, 97}
  ELSE LET f == CHOOSE g \in Fits(od) : \A h \in Fits(od) : g[1] <= h[1]
       IN  {95, 97} \cup Bits(f[1], 101, 9) \cup Bits(f[2], 98, 1)
             \cup Bits(f[3], 99, 2)

\* The loop stops at the smallest i that fits; where none does the bits stay as
\* they are, without an error.  Bit 98 is set for the even ones (y = 0).
LargeOutputBits(od) ==
  IF Fits(od) = {}
  THEN {95, 97}
  ELSE LET f == CHOOSE g \in Fits(od) : \A h \in Fits(od) : g[1] <= h[1]
       IN  {95, 97} \cup Bits(f[1], 101, 9) \cup Bits(1 - f[2], 98, 1)
             \cup Bits(f[3], 99, 2)

OutputDividerBits(od) ==
  CASE od \in DOMAIN SmallOutputDivider -> SmallOutputDivider[od]
    [] od \in (8..37) \ {9, 11, 13} -> {97} \cup Bits(31 - (od - 6), 98, 5)
    [] OTHER -> LargeOutputBits(od)

-----------------------------------------------------------------------------
\* What GetICS30703Data returns for a solution: the number of the first table
\* it does not fit, or 0.
EncodeError(s) ==
  CASE s.rd \notin InputDividers -> 3
    [] s.vd \notin VCODividers -> 4
    [] s.Rs \notin {64, 52, 16, 4} -> 5
    [] s.icpnum \notin DOMAIN ChargePumpCode -> 6
    [] s.od \notin OutputDividers -> 7
    [] OTHER -> 0

EncodedWord(s) ==
  FixedBits \cup InputDividerBits(s.rd) \cup VCODividerBits(s.vd)
    \cup LoopFilterBits(s.Rs) \cup ChargePumpBits(s.icpnum)
    \cup OutputDividerBits(s.od)

\* synccom_port_set_clock_bits: clock_data[15] |= 0x04 before the word goes
\* out: the reference is the crystal.
LoadedWord(word) == word \cup {122}

-----------------------------------------------------------------------------
(* How the generator reads a word: the tables the other way round.         *)

Field(word, at, width) ==
  LET weight(i) == IF (at + i) \in word THEN 2^i ELSE 0
      upTo[i \in 0..width] == IF i = 0 THEN 0 ELSE upTo[i - 1] + weight(i - 1)
  IN  upTo[width]

ReadInputDivider(word) ==
  CASE Field(word, 0, 2) = 0 -> 1
    [] Field(word, 0, 2) = 1 -> 2
    [] Field(word, 0, 2) = 2 -> 17 - Field(word, 2, 4)
    [] Field(word, 0, 2) = 3 -> 8 + Field(word, 2, 11)

ReadVCODivider(word) == 8 + Field(word, 13, 11)

ReadLoopFilter(word) ==
  CHOOSE Rs \in {64, 52, 16, 4} : LoopFilterBits(Rs) = word \cap {89, 90}

ReadChargePump(word) ==
  125 * (8 - Field(word, 91, 3)) * (Field(word, 127, 2) + 1)

ReadOutputDivider(word) ==
  CASE 97 \notin word ->
         CHOOSE od \in DOMAIN SmallOutputDivider :
            SmallOutputDivider[od] = word \cap ({95} \cup (96..109))
    [] 97 \in word /\ 95 \notin word -> 37 - Field(word, 98, 5)
    [] OTHER ->
         (2 * (Field(word, 101, 9) + 3) + (1 - Field(word, 98, 1)))
           * 2^Field(word, 99, 2)

ReadWord(word) ==
  [rd |-> ReadInputDivider(word), vd |-> ReadVCODivider(word),
   od |-> ReadOutputDivider(word), Rs |-> ReadLoopFilter(word),
   icpnum |-> ReadChargePump(word)]
=============================================================================
