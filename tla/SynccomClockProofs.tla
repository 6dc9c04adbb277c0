------------------------- MODULE SynccomClockProofs -------------------------
(***************************************************************************)
(* The clock bits, for every request and every largest reference divider:  *)
(* the generator reads from a word the solution it was composed from, what *)
(* the search returns meets the request, and what it steps over does not.  *)
(***************************************************************************)
EXTENDS SynccomClock, SequenceLemmas

-----------------------------------------------------------------------------
(* Fields of a word                                                        *)

\* Every width of a field is at most this.
MaxWidth == 11

\* The widths of the fields.
LEMMA Widths == {1, 2, 3, 4, 5, 9, 11} \subseteq 1..MaxWidth
  BY DEF MaxWidth

\* The powers of two that fields need are numbers, and each is twice the one before.
LEMMA Powers ==
  ASSUME NEW i \in 0..MaxWidth
  PROVE  /\ 2^i \in Nat \ {0}
         /\ i < MaxWidth => 2^(i + 1) = 2 * 2^i
  <1>1. CASE i = 0
    BY <1>1 DEF MaxWidth
  <1>2. CASE i = 1
    BY <1>2 DEF MaxWidth
  <1>3. CASE i = 2
    BY <1>3 DEF MaxWidth
  <1>4. CASE i = 3
    BY <1>4 DEF MaxWidth
  <1>5. CASE i = 4
    BY <1>5 DEF MaxWidth
  <1>6. CASE i = 5
    BY <1>6 DEF MaxWidth
  <1>7. CASE i = 6
    BY <1>7 DEF MaxWidth
  <1>8. CASE i = 7
    BY <1>8 DEF MaxWidth
  <1>9. CASE i = 8
    BY <1>9 DEF MaxWidth
  <1>10. CASE i = 9
    BY <1>10 DEF MaxWidth
  <1>11. CASE i = 10
    BY <1>11 DEF MaxWidth
  <1>12. CASE i = 11
    BY <1>12 DEF MaxWidth
  <1> QED BY <1>1, <1>2, <1>3, <1>4, <1>5, <1>6, <1>7, <1>8, <1>9, <1>10, <1>11, <1>12
          DEF MaxWidth

\* One bit more of a number.
LEMMA LowBits ==
  ASSUME NEW v \in Nat, NEW i \in 0..(MaxWidth - 1)
  PROVE  v % 2^(i + 1) = (v % 2^i) + (IF (v \div 2^i) % 2 = 1 THEN 2^i ELSE 0)
  <1>1. CASE i = 0
    <2>1. 2^i = 1 /\ 2^(i + 1) = 2
      BY <1>1
    <2> QED BY <2>1
  <1>2. CASE i = 1
    <2>1. 2^i = 2 /\ 2^(i + 1) = 4
      BY <1>2
    <2> QED BY <2>1
  <1>3. CASE i = 2
    <2>1. 2^i = 4 /\ 2^(i + 1) = 8
      BY <1>3
    <2> QED BY <2>1
  <1>4. CASE i = 3
    <2>1. 2^i = 8 /\ 2^(i + 1) = 16
      BY <1>4
    <2> QED BY <2>1
  <1>5. CASE i = 4
    <2>1. 2^i = 16 /\ 2^(i + 1) = 32
      BY <1>5
    <2> QED BY <2>1
  <1>6. CASE i = 5
    <2>1. 2^i = 32 /\ 2^(i + 1) = 64
      BY <1>6
    <2> QED BY <2>1
  <1>7. CASE i = 6
    <2>1. 2^i = 64 /\ 2^(i + 1) = 128
      BY <1>7
    <2> QED BY <2>1
  <1>8. CASE i = 7
    <2>1. 2^i = 128 /\ 2^(i + 1) = 256
      BY <1>8
    <2> QED BY <2>1
  <1>9. CASE i = 8
    <2>1. 2^i = 256 /\ 2^(i + 1) = 512
      BY <1>9
    <2> QED BY <2>1
  <1>10. CASE i = 9
    <2>1. 2^i = 512 /\ 2^(i + 1) = 1024
      BY <1>10
    <2> QED BY <2>1
  <1>11. CASE i = 10
    <2>1. 2^i = 1024 /\ 2^(i + 1) = 2048
      BY <1>11
    <2> QED BY <2>1
  <1> QED BY <1>1, <1>2, <1>3, <1>4, <1>5, <1>6, <1>7, <1>8, <1>9, <1>10, <1>11
          DEF MaxWidth

\* A field is the number whose bits it has.
LEMMA FieldIs ==
  ASSUME NEW bits, NEW at \in Nat, NEW width \in 1..MaxWidth, NEW v \in Nat,
         v < 2^width,
         \A i \in 0..(width - 1) : at + i \in bits <=> (v \div 2^i) % 2 = 1
  PROVE  Field(bits, at, width) = v
  <1> DEFINE weight(i) == IF (at + i) \in bits THEN 2^i ELSE 0
             Sums(f) == f = [i \in 0..width |->
                               IF i = 0 THEN 0 ELSE f[i - 1] + weight(i - 1)]
             f0 == [i \in 0..width |-> v % 2^i]
             upTo == CHOOSE f : Sums(f)
  <1>1. width \in Nat /\ width <= MaxWidth /\ MaxWidth \in Nat
    BY DEF MaxWidth
  <1>2. ASSUME NEW i \in 1..width
        PROVE  v % 2^i = (v % 2^(i - 1)) + weight(i - 1)
    <2>1. i - 1 \in 0..(MaxWidth - 1) /\ i - 1 \in 0..(width - 1) /\ (i - 1) + 1 = i
      BY <1>1
    <2>2. v % 2^((i - 1) + 1) =
            (v % 2^(i - 1)) + (IF (v \div 2^(i - 1)) % 2 = 1 THEN 2^(i - 1) ELSE 0)
      BY <2>1, LowBits
    <2>3. at + (i - 1) \in bits <=> (v \div 2^(i - 1)) % 2 = 1
      BY <2>1
    <2> QED BY <2>1, <2>2, <2>3
  <1>3. v % 2^0 = 0
    <2>1. 2^0 = 1
      OBVIOUS
    <2> QED BY <2>1
  <1> HIDE DEF weight
  <1>4. Sums(f0)
    <2>1. ASSUME NEW i \in 0..width
          PROVE  v % 2^i = IF i = 0 THEN 0 ELSE f0[i - 1] + weight(i - 1)
      <3>1. CASE i = 0
        BY <1>3, <3>1
      <3>2. CASE i # 0
        <4>1. i \in 1..width /\ i - 1 \in 0..width
          BY <1>1, <3>2
        <4>2. f0[i - 1] = v % 2^(i - 1)
          BY <4>1
        <4> QED BY <1>2, <3>2, <4>1, <4>2
      <3> QED BY <3>1, <3>2
    <2> HIDE DEF weight
    <2>2. f0 = [i \in 0..width |-> IF i = 0 THEN 0 ELSE f0[i - 1] + weight(i - 1)]
      BY <2>1
    <2> QED BY <2>2
  <1>5. Sums(upTo)
    BY <1>4
  <1>6. Field(bits, at, width) = upTo[width]
    BY DEF Field, weight
  <1> HIDE DEF upTo
  <1> DEFINE S == {n \in Nat : n <= width => upTo[n] = v % 2^n}
  <1>7. 0 \in S
    BY <1>1, <1>3, <1>5
  <1>8. ASSUME NEW n \in Nat, n \in S
        PROVE  n + 1 \in S
    <2>1. CASE n + 1 <= width
      <3>1. n + 1 \in 1..width /\ (n + 1) - 1 = n /\ n <= width /\ n + 1 # 0
            /\ n + 1 \in 0..width
        BY <1>1, <2>1
      <3>2. v % 2^(n + 1) = (v % 2^((n + 1) - 1)) + weight((n + 1) - 1)
        BY <1>2, <3>1
      <3>3. upTo[n + 1] = upTo[(n + 1) - 1] + weight((n + 1) - 1)
        BY <1>5, <3>1
      <3>4. upTo[n] = v % 2^n
        BY <1>8, <3>1
      <3> QED BY <3>1, <3>2, <3>3, <3>4
    <2> QED BY <2>1
  <1> HIDE DEF S
  <1>9. width \in S
    BY <1>1, <1>7, <1>8, Induction
  <1>10. upTo[width] = v % 2^width
    BY <1>1, <1>9 DEF S
  <1>11. 2^width \in Nat \ {0}
    BY <1>1, Powers
  <1>12. v % 2^width = v
    BY <1>11
  <1> QED BY <1>6, <1>10, <1>12

\* And Bits has them.
LEMMA BitsAre ==
  ASSUME NEW value \in Nat, NEW at \in Nat, NEW width \in Nat
  PROVE  /\ Bits(value, at, width) \subseteq at..(at + width - 1)
         /\ \A i \in 0..(width - 1) :
              at + i \in Bits(value, at, width) <=> (value \div 2^i) % 2 = 1
  <1> DEFINE ones == {j \in 0..(width - 1) : (value \div 2^j) % 2 = 1}
  <1>1. Bits(value, at, width) = {at + i : i \in ones}
    BY DEF Bits
  <1>2. \A i \in 0..(width - 1) : i \in ones <=> (value \div 2^i) % 2 = 1
    OBVIOUS
  <1>3. ones \subseteq 0..(width - 1)
    OBVIOUS
  <1> HIDE DEF ones
  <1>4. \A i \in 0..(width - 1) : at + i \in {at + j : j \in ones} <=> i \in ones
    BY <1>3
  <1>5. {at + i : i \in ones} \subseteq at..(at + width - 1)
    BY <1>3
  <1> QED BY <1>1, <1>2, <1>4, <1>5

\* So a field that has the bits of a number reads as this number.
LEMMA FieldOfBits ==
  ASSUME NEW bits, NEW at \in Nat, NEW width \in 1..MaxWidth, NEW v \in Nat,
         v < 2^width,
         \A b \in at..(at + width - 1) : b \in bits <=> b \in Bits(v, at, width)
  PROVE  Field(bits, at, width) = v
  <1>1. width \in Nat
    BY DEF MaxWidth
  <1>2. ASSUME NEW i \in 0..(width - 1)
        PROVE  at + i \in bits <=> (v \div 2^i) % 2 = 1
    <2>1. at + i \in at..(at + width - 1)
      BY <1>1
    <2> QED BY <1>1, <2>1, BitsAre
  <1> QED BY <1>2, FieldIs

-----------------------------------------------------------------------------
(* The tables                                                              *)

\* What the tables can express of what the search tries.
Solutions ==
  [rd : InputDividers, vd : VCODividers, od : TriedOutputDividers,
   Rs : {64, 52, 16, 4}, icpnum : DOMAIN ChargePumpCode]

\* Table 1, without its ranges.
LEMMA InputDividerTable ==
  ASSUME NEW rd \in Int
  PROVE  /\ rd = 1 => InputDividerBits(rd) = {}
         /\ rd = 2 => InputDividerBits(rd) = {0}
         /\ 3 <= rd /\ rd <= 17 => InputDividerBits(rd) = {1} \cup Bits(15 - (rd - 2), 2, 4)
         /\ 18 <= rd /\ rd <= 2055 => InputDividerBits(rd) = {0, 1} \cup Bits(rd - 8, 2, 11)
  <1> DEFINE near == {1} \cup Bits(15 - (rd - 2), 2, 4)
             far == {0, 1} \cup Bits(rd - 8, 2, 11)
             p == rd \in 3..17
             q == rd \in 18..2055
  <1>1. InputDividerBits(rd) = CASE rd = 1 -> {} [] rd = 2 -> {0} [] p -> near [] q -> far
    BY DEF InputDividerBits
  <1>2. /\ p <=> 3 <= rd /\ rd <= 17
        /\ q <=> 18 <= rd /\ rd <= 2055
    OBVIOUS
  <1> HIDE DEF near, far, p, q
  <1>3. p => rd # 1 /\ rd # 2 /\ ~q
    BY <1>2
  <1>4. q => rd # 1 /\ rd # 2 /\ ~p
    BY <1>2
  <1>5. p => InputDividerBits(rd) = near
    BY <1>1, <1>3
  <1>6. q => InputDividerBits(rd) = far
    BY <1>1, <1>4
  <1>7. /\ rd = 1 => InputDividerBits(rd) = {}
        /\ rd = 2 => InputDividerBits(rd) = {0}
    BY <1>1, <1>3, <1>4
  <1> QED BY <1>2, <1>5, <1>6, <1>7 DEF near, far

\* An input divider is read back from its bits.
LEMMA InputDividerIsRead ==
  ASSUME NEW rd \in InputDividers, NEW bits,
         \A b \in 0..12 : b \in bits <=> b \in InputDividerBits(rd)
  PROVE  /\ InputDividerBits(rd) \subseteq 0..12
         /\ ReadInputDivider(bits) = rd
  <1>1. 2^0 = 1 /\ 2^1 = 2 /\ 2^2 = 4 /\ 2^4 = 16 /\ 2^11 = 2048
    OBVIOUS
  <1>2. ASSUME NEW v \in 0..3, 0 \in bits <=> v % 2 = 1, 1 \in bits <=> v \div 2 = 1
        PROVE  Field(bits, 0, 2) = v
    <2>1. ASSUME NEW i \in 0..(2 - 1)
          PROVE  0 + i \in bits <=> (v \div 2^i) % 2 = 1
      <3>1. CASE i = 0
        BY <1>1, <1>2, <3>1
      <3>2. CASE i = 1
        BY <1>1, <1>2, <3>2
      <3> QED BY <3>1, <3>2
    <2> QED BY <1>1, <2>1, FieldIs DEF MaxWidth
  <1>3. CASE rd = 1
    <2>1. InputDividerBits(rd) = {}
      BY <1>3, InputDividerTable
    <2>2. Field(bits, 0, 2) = 0
      BY <1>2, <2>1
    <2> QED BY <1>3, <2>1, <2>2 DEF ReadInputDivider
  <1>4. CASE rd = 2
    <2>1. InputDividerBits(rd) = {0}
      BY <1>4, InputDividerTable
    <2>2. Field(bits, 0, 2) = 1
      BY <1>2, <2>1
    <2> QED BY <1>4, <2>1, <2>2 DEF ReadInputDivider
  <1>5. CASE rd \in 3..17
    <2> DEFINE v == 15 - (rd - 2)
    <2>1. InputDividerBits(rd) = {1} \cup Bits(v, 2, 4)
      BY <1>5, InputDividerTable
    <2>2. v \in Nat /\ v < 2^4 /\ 17 - v = rd
      BY <1>1, <1>5
    <2> HIDE DEF v
    <2>3. Bits(v, 2, 4) \subseteq 2..(2 + 4 - 1)
      BY <2>2, BitsAre
    <2>4. Field(bits, 0, 2) = 2
      BY <1>2, <2>1, <2>3
    <2>5. \A b \in 2..(2 + 4 - 1) : b \in bits <=> b \in Bits(v, 2, 4)
      BY <2>1
    <2>6. Field(bits, 2, 4) = v
      BY <2>2, <2>5, FieldOfBits, Widths
    <2> QED BY <2>1, <2>2, <2>3, <2>4, <2>6 DEF ReadInputDivider
  <1>6. CASE rd \in 18..2055
    <2> DEFINE v == rd - 8
    <2>1. InputDividerBits(rd) = {0, 1} \cup Bits(v, 2, 11)
      BY <1>6, InputDividerTable
    <2>2. v \in Nat /\ v < 2^11 /\ 8 + v = rd
      BY <1>1, <1>6
    <2> HIDE DEF v
    <2>3. Bits(v, 2, 11) \subseteq 2..(2 + 11 - 1)
      BY <2>2, BitsAre
    <2>4. Field(bits, 0, 2) = 3
      BY <1>2, <2>1, <2>3
    <2>5. \A b \in 2..(2 + 11 - 1) : b \in bits <=> b \in Bits(v, 2, 11)
      BY <2>1
    <2>6. Field(bits, 2, 11) = v
      BY <2>2, <2>5, FieldOfBits, Widths
    <2> QED BY <2>1, <2>2, <2>3, <2>4, <2>6 DEF ReadInputDivider
  <1> QED BY <1>3, <1>4, <1>5, <1>6 DEF InputDividers

\* A VCO divider is read back from its bits.
LEMMA VCODividerIsRead ==
  ASSUME NEW vd \in VCODividers, NEW bits,
         \A b \in 13..23 : b \in bits <=> b \in VCODividerBits(vd)
  PROVE  /\ VCODividerBits(vd) \subseteq 13..23
         /\ ReadVCODivider(bits) = vd
  <1> DEFINE v == vd - 8
  <1>1. 2^11 = 2048
    OBVIOUS
  <1>2. v \in Nat /\ v < 2^11 /\ 8 + v = vd
    BY <1>1 DEF VCODividers
  <1>3. VCODividerBits(vd) = Bits(v, 13, 11)
    BY DEF VCODividerBits
  <1> HIDE DEF v
  <1>4. Bits(v, 13, 11) \subseteq 13..(13 + 11 - 1)
    BY <1>2, BitsAre
  <1>5. \A b \in 13..(13 + 11 - 1) : b \in bits <=> b \in Bits(v, 13, 11)
    BY <1>3
  <1>6. Field(bits, 13, 11) = v
    BY <1>2, <1>5, FieldOfBits, Widths
  <1> QED BY <1>2, <1>3, <1>4, <1>6 DEF ReadVCODivider

\* A resistor is read back: no two have the same bits.
LEMMA LoopFilterIsRead ==
  ASSUME NEW Rs \in {64, 52, 16, 4}, NEW bits,
         \A b \in {89, 90} : b \in bits <=> b \in LoopFilterBits(Rs)
  PROVE  /\ LoopFilterBits(Rs) \subseteq {89, 90}
         /\ ReadLoopFilter(bits) = Rs
  <1>1. /\ LoopFilterBits(64) = {} /\ LoopFilterBits(52) = {90}
        /\ LoopFilterBits(16) = {89} /\ LoopFilterBits(4) = {89, 90}
    BY DEF LoopFilterBits
  <1>2. LoopFilterBits(Rs) \subseteq {89, 90}
    BY <1>1
  <1>3. LoopFilterBits(Rs) = bits \cap {89, 90}
    BY <1>2
  <1>4. \A other \in {64, 52, 16, 4} : LoopFilterBits(other) = LoopFilterBits(Rs) => other = Rs
    <2>1. /\ 90 \notin LoopFilterBits(64) /\ 89 \notin LoopFilterBits(64)
          /\ 90 \in LoopFilterBits(52) /\ 89 \notin LoopFilterBits(52)
          /\ 90 \notin LoopFilterBits(16) /\ 89 \in LoopFilterBits(16)
          /\ 90 \in LoopFilterBits(4) /\ 89 \in LoopFilterBits(4)
      BY <1>1
    <2> QED BY <2>1
  <1> QED BY <1>2, <1>3, <1>4 DEF ReadLoopFilter

\* A current is read back: 125 * (8 - n) * (m + 1) of its code.
LEMMA ChargePumpIsRead ==
  ASSUME NEW icpnum \in DOMAIN ChargePumpCode, NEW bits,
         \A b \in (91..93) \cup {127, 128} : b \in bits <=> b \in ChargePumpBits(icpnum)
  PROVE  /\ ChargePumpBits(icpnum) \subseteq (91..93) \cup {127, 128}
         /\ ReadChargePump(bits) = icpnum
  <1> DEFINE code == ChargePumpCode[icpnum]
  <1>1. icpnum \in {125, 250, 375, 500, 625, 750, 875, 1000, 1125, 1250,
                    1500, 1750, 1875, 2000, 2250, 2500, 2625, 3000, 3500, 4000}
    BY DEF ChargePumpCode
  <1>2. PICK n \in 0..7, m \in 0..3 :
          code[1] = n /\ code[2] = m /\ 125 * (8 - n) * (m + 1) = icpnum
    <2>1. CASE icpnum \in {125, 250, 375, 500}
      <3>1. code = << 7, (icpnum \div 125) - 1 >>
        BY <1>1, <2>1 DEF ChargePumpCode
      <3>2. (icpnum \div 125) - 1 \in 0..3 /\ 125 * (8 - 7) * (icpnum \div 125) = icpnum
        BY <2>1
      <3> QED BY <3>1, <3>2
    <2>2. CASE icpnum \in {1250, 1875, 2500}
      <3>1. code = << 3, (icpnum \div 625) - 1 >>
        BY <1>1, <2>2 DEF ChargePumpCode
      <3>2. (icpnum \div 625) - 1 \in 0..3 /\ 125 * (8 - 3) * (icpnum \div 625) = icpnum
        BY <2>2
      <3> QED BY <3>1, <3>2
    <2>3. CASE icpnum \in {1125, 1500}
      <3>1. code = << 5, (icpnum \div 375) - 1 >>
        BY <1>1, <2>3 DEF ChargePumpCode
      <3>2. (icpnum \div 375) - 1 \in 0..3 /\ 125 * (8 - 5) * (icpnum \div 375) = icpnum
        BY <2>3
      <3> QED BY <3>1, <3>2
    <2>4. CASE icpnum \in {625, 750, 875, 1000}
      <3>1. code = << 8 - icpnum \div 125, 0 >>
        BY <1>1, <2>4 DEF ChargePumpCode
      <3>2. 8 - icpnum \div 125 \in 0..7 /\ 125 * (8 - (8 - icpnum \div 125)) * 1 = icpnum
        BY <2>4
      <3> QED BY <3>1, <3>2
    <2>5. CASE icpnum \in {1750, 2625, 3500}
      <3>1. code = << 1, (icpnum \div 875) - 1 >>
        BY <1>1, <2>5 DEF ChargePumpCode
      <3>2. (icpnum \div 875) - 1 \in 0..3 /\ 125 * (8 - 1) * (icpnum \div 875) = icpnum
        BY <2>5
      <3> QED BY <3>1, <3>2
    <2>6. CASE icpnum \in {2000, 3000, 4000}
      <3>1. code = << 0, (icpnum \div 1000) - 1 >>
        BY <1>1, <2>6 DEF ChargePumpCode
      <3>2. (icpnum \div 1000) - 1 \in 0..3 /\ 125 * (8 - 0) * (icpnum \div 1000) = icpnum
        BY <2>6
      <3> QED BY <3>1, <3>2
    <2>7. CASE icpnum = 2250
      <3>1. code = << 2, 2 >>
        BY <1>1, <2>7 DEF ChargePumpCode
      <3> QED BY <2>7, <3>1
    <2> QED BY <1>1, <2>1, <2>2, <2>3, <2>4, <2>5, <2>6, <2>7
  <1>3. ChargePumpBits(icpnum) = Bits(n, 91, 3) \cup Bits(m, 127, 2)
    BY <1>2 DEF ChargePumpBits
  <1>4. 2^2 = 4 /\ 2^3 = 8
    OBVIOUS
  <1>5. n \in Nat /\ n < 2^3 /\ m \in Nat /\ m < 2^2
    BY <1>4
  <1>6. /\ Bits(n, 91, 3) \subseteq 91..(91 + 3 - 1)
        /\ Bits(m, 127, 2) \subseteq 127..(127 + 2 - 1)
    <2>1. Bits(n, 91, 3) \subseteq 91..(91 + 3 - 1)
      BY <1>5, BitsAre
    <2>2. Bits(m, 127, 2) \subseteq 127..(127 + 2 - 1)
      BY <1>5, BitsAre
    <2> QED BY <2>1, <2>2
  <1>7. Field(bits, 91, 3) = n
    <2>1. \A b \in 91..(91 + 3 - 1) : b \in bits <=> b \in Bits(n, 91, 3)
      BY <1>3, <1>6
    <2> QED BY <1>5, <2>1, FieldOfBits, Widths
  <1>8. Field(bits, 127, 2) = m
    <2>1. \A b \in 127..(127 + 2 - 1) : b \in bits <=> b \in Bits(m, 127, 2)
      BY <1>3, <1>6
    <2> QED BY <1>5, <2>1, FieldOfBits, Widths
  <1>9. ChargePumpBits(icpnum) \subseteq (91..93) \cup {127, 128}
    BY <1>3, <1>6
  <1> QED BY <1>2, <1>7, <1>8, <1>9 DEF ReadChargePump

\* The output dividers that Table 5 lists one by one.
LEMMA SmallOutputDividers == DOMAIN SmallOutputDivider = {2, 3, 4, 5, 6, 7, 9, 11, 13}
  <1>1. DOMAIN SmallOutputDivider = (2..7) \cup {9, 11, 13}
    BY DEF SmallOutputDivider
  <1>2. (2..7) = {2, 3, 4, 5, 6, 7}
    OBVIOUS
  <1> QED BY <1>1, <1>2

\* Table 5, without its ranges.
LEMMA OutputDividerTable ==
  ASSUME NEW od \in Int
  PROVE  /\ od \in {2, 3, 4, 5, 6, 7, 9, 11, 13} =>
              OutputDividerBits(od) = SmallOutputDivider[od]
         /\ od \notin {9, 11, 13} /\ 8 <= od /\ od <= 37 =>
              OutputDividerBits(od) = {97} \cup Bits(31 - (od - 6), 98, 5)
         /\ 38 <= od => OutputDividerBits(od) = LargeOutputBits(od)
  <1>1. DOMAIN SmallOutputDivider = {2, 3, 4, 5, 6, 7, 9, 11, 13}
    BY SmallOutputDividers
  <1> DEFINE D == DOMAIN SmallOutputDivider
             E == (8..37) \ {9, 11, 13}
             p == od \in D
             q == od \in E
             small == SmallOutputDivider[od]
             middle == {97} \cup Bits(31 - (od - 6), 98, 5)
  <1>2. OutputDividerBits(od) = CASE p -> small [] q -> middle
                                  [] OTHER -> LargeOutputBits(od)
    BY DEF OutputDividerBits
  <1>3. od \in E <=> od \notin {9, 11, 13} /\ 8 <= od /\ od <= 37
    OBVIOUS
  <1> HIDE DEF D, E, small, middle
  <1>4. od \in E => od \notin D
    BY <1>1, <1>3 DEF D
  <1>5. 38 <= od => od \notin E /\ od \notin D
    BY <1>1, <1>3 DEF D
  <1>6. p => OutputDividerBits(od) = small
    BY <1>2, <1>4
  <1>7. q => OutputDividerBits(od) = middle
    BY <1>2, <1>4
  <1>8. ~p /\ ~q => OutputDividerBits(od) = LargeOutputBits(od)
    BY <1>2
  <1> QED BY <1>1, <1>3, <1>5, <1>6, <1>7, <1>8 DEF D, small, middle

\* A small output divider is read back: no two have the same bits.
LEMMA SmallOutputDividerIsRead ==
  ASSUME NEW od \in DOMAIN SmallOutputDivider, NEW bits,
         \A b \in {95} \cup (96..109) : b \in bits <=> b \in SmallOutputDivider[od]
  PROVE  /\ SmallOutputDivider[od] \subseteq {95} \cup (96..109)
         /\ ReadOutputDivider(bits) = od
  <1> DEFINE T == SmallOutputDivider
             region == {95} \cup (96..109)
  <1>1. DOMAIN T = {2, 3, 4, 5, 6, 7, 9, 11, 13}
    BY SmallOutputDividers
  <1>0. od \in {2, 3, 4, 5, 6, 7, 9, 11, 13}
    BY <1>1
  <1>2. /\ T[2] = {} /\ T[3] = {95} /\ T[4] = {98} /\ T[5] = {96} /\ T[6] = {95, 98}
        /\ T[7] = {95, 96} /\ T[9] = {95, 96, 98} /\ T[11] = {95, 96, 99}
        /\ T[13] = {95, 96, 98, 99}
    <2>1. T[2] = {} /\ T[3] = {95} /\ T[4] = {98}
      BY DEF SmallOutputDivider
    <2>2. T[5] = {96} /\ T[6] = {95, 98} /\ T[7] = {95, 96}
      BY DEF SmallOutputDivider
    <2>3. T[9] = {95, 96, 98} /\ T[11] = {95, 96, 99}
      BY DEF SmallOutputDivider
    <2>4. T[13] = {95, 96, 98, 99}
      BY DEF SmallOutputDivider
    <2> HIDE DEF T
    <2> QED BY <2>1, <2>2, <2>3, <2>4
  <1> HIDE DEF T
  <1>3. T[od] \subseteq {95, 96, 98, 99} /\ 97 \notin T[od]
    BY <1>0, <1>2
  <1>4. /\ \A b \in {95, 96, 98, 99} : b \in region
        /\ 97 \in region
    OBVIOUS
  <1>5. T[od] = bits \cap region /\ 97 \notin bits
    BY <1>3, <1>4 DEF T
  <1>6. \A other \in DOMAIN T : T[other] = T[od] => other = od
    <2>1. \A n \in {2, 3, 4, 5, 6, 7, 9, 11, 13} :
            /\ 95 \in T[n] <=> n \in {3, 6, 7, 9, 11, 13}
            /\ 96 \in T[n] <=> n \in {5, 7, 9, 11, 13}
            /\ 98 \in T[n] <=> n \in {4, 6, 9, 13}
            /\ 99 \in T[n] <=> n \in {11, 13}
      BY <1>2
    <2>2. ASSUME NEW other \in DOMAIN T, T[other] = T[od] PROVE other = od
      <3>1. other \in {2, 3, 4, 5, 6, 7, 9, 11, 13}
        BY <1>1
      <3>2. /\ other \in {3, 6, 7, 9, 11, 13} <=> od \in {3, 6, 7, 9, 11, 13}
            /\ other \in {5, 7, 9, 11, 13} <=> od \in {5, 7, 9, 11, 13}
            /\ other \in {4, 6, 9, 13} <=> od \in {4, 6, 9, 13}
            /\ other \in {11, 13} <=> od \in {11, 13}
        BY <1>0, <2>1, <2>2, <3>1
      <3> QED BY <1>0, <3>1, <3>2
    <2> QED BY <2>2
  <1>7. od \in DOMAIN T
    BY <1>0, <1>1
  <1>8. (CHOOSE n \in DOMAIN T : T[n] = bits \cap region) = od
    BY <1>5, <1>6, <1>7
  <1>9. ReadOutputDivider(bits) = CHOOSE n \in DOMAIN T : T[n] = bits \cap region
    BY <1>5 DEF ReadOutputDivider, T
  <1>10. T[od] \subseteq region
    BY <1>5
  <1> QED BY <1>8, <1>9, <1>10 DEF T

\* One of the middle is read back as 37 less its field.
LEMMA MiddleOutputDividerIsRead ==
  ASSUME NEW od \in Int, 8 <= od, od <= 37, NEW bits,
         \A b \in {95} \cup (96..109) :
           b \in bits <=> b \in {97} \cup Bits(31 - (od - 6), 98, 5)
  PROVE  /\ {97} \cup Bits(31 - (od - 6), 98, 5) \subseteq {95} \cup (96..109)
         /\ ReadOutputDivider(bits) = od
  <1> DEFINE v == 31 - (od - 6)
  <1>1. 2^5 = 32
    OBVIOUS
  <1>2. v \in Nat /\ v < 2^5 /\ 37 - v = od
    BY <1>1
  <1>3. \A b \in {95} \cup (96..109) : b \in bits <=> b \in {97} \cup Bits(v, 98, 5)
    OBVIOUS
  <1> HIDE DEF v
  <1>4. Bits(v, 98, 5) \subseteq 98..(98 + 5 - 1)
    <2>1. v \in Nat
      BY <1>2
    <2> QED BY <2>1, BitsAre
  <1>5. 97 \in bits /\ 95 \notin bits
    BY <1>3, <1>4
  <1>6. \A b \in 98..(98 + 5 - 1) : b \in bits <=> b \in Bits(v, 98, 5)
    BY <1>3
  <1>7. Field(bits, 98, 5) = v
    BY <1>2, <1>6, FieldOfBits, Widths
  <1>8. ReadOutputDivider(bits) = 37 - Field(bits, 98, 5)
    BY <1>5 DEF ReadOutputDivider
  <1>9. {97} \cup Bits(v, 98, 5) \subseteq {95} \cup (96..109)
    BY <1>4
  <1> QED BY <1>2, <1>7, <1>8, <1>9 DEF v

\* The output dividers of Table 5 from 38 on: a divide and a power of two.
Divides == 6..1029
Doublings == 0..3
Scaled(q, z) == q * 2^z

\* A number from 6 to 1029, times 1, 2, 4 or 8, has a fit ...
LEMMA HasFit ==
  ASSUME NEW q \in Divides, NEW z \in Doublings
  PROVE  Fits(Scaled(q, z)) # {}
  <1>0. q \in 6..1029 /\ z \in 0..3
    BY DEF Divides, Doublings
  <1> DEFINE f == << q \div 2 - 3, q % 2, z >>
  <1>1. f \in (0..511) \X {0, 1} \X (0..3)
    <2>1. q \div 2 - 3 \in 0..511
      BY <1>0
    <2>2. q % 2 \in 0..1
      BY <1>0
    <2> QED BY <1>0, <2>1, <2>2
  <1>2. 2 * ((q \div 2 - 3) + 3) + (q % 2) = q
    BY <1>0
  <1>3. q * 2^z = (2 * (f[1] + 3) + f[2]) * 2^f[3]
    BY <1>0, <1>2
  <1> HIDE DEF f
  <1> QED BY <1>1, <1>3 DEF Fits, Scaled

\* The output dividers that are tried are numbers.
LEMMA TriedAreNumbers ==
  ASSUME NEW od \in TriedOutputDividers
  PROVE  od \in Int
  <1> DEFINE A == 2..1030
             B == 1031..2060
             C == 2061..4120
             D == 4121..8232
  <1>1. A \subseteq Int /\ B \subseteq Int /\ C \subseteq Int /\ D \subseteq Int
    OBVIOUS
  <1>2. TriedOutputDividers = A \cup {n \in B : n % 2 = 0} \cup {n \in C : n % 4 = 0}
                                \cup {n \in D : n % 8 = 0}
    BY DEF TriedOutputDividers
  <1> HIDE DEF A, B, C, D
  <1> QED BY <1>1, <1>2

\* The output dividers that are tried, in four ranges.
LEMMA Tried ==
  ASSUME NEW od \in Int
  PROVE  od \in TriedOutputDividers <=>
           \/ 2 <= od /\ od <= 1030
           \/ 1031 <= od /\ od <= 2060 /\ od % 2 = 0
           \/ 2061 <= od /\ od <= 4120 /\ od % 4 = 0
           \/ 4121 <= od /\ od <= 8232 /\ od % 8 = 0
  <1> DEFINE A == 2..1030
             B == 1031..2060
             C == 2061..4120
             D == 4121..8232
  <1>1. TriedOutputDividers = A \cup {n \in B : n % 2 = 0} \cup {n \in C : n % 4 = 0}
                                \cup {n \in D : n % 8 = 0}
    BY DEF TriedOutputDividers
  <1> HIDE DEF A, B, C, D
  <1>2. od \in TriedOutputDividers <=>
          \/ od \in A
          \/ od \in B /\ od % 2 = 0
          \/ od \in C /\ od % 4 = 0
          \/ od \in D /\ od % 8 = 0
    BY <1>1
  <1>3. /\ od \in A <=> 2 <= od /\ od <= 1030
        /\ od \in B <=> 1031 <= od /\ od <= 2060
        /\ od \in C <=> 2061 <= od /\ od <= 4120
        /\ od \in D <=> 4121 <= od /\ od <= 8232
    <2>1. od \in A <=> 2 <= od /\ od <= 1030
      BY DEF A
    <2>2. od \in B <=> 1031 <= od /\ od <= 2060
      BY DEF B
    <2>3. od \in C <=> 2061 <= od /\ od <= 4120
      BY DEF C
    <2>4. od \in D <=> 4121 <= od /\ od <= 8232
      BY DEF D
    <2> QED BY <2>1, <2>2, <2>3, <2>4
  <1> QED BY <1>2, <1>3

\* ... and all that the search tries from 38 on are such numbers.
LEMMA LargeOutputDividersFit ==
  ASSUME NEW od \in TriedOutputDividers, 38 <= od
  PROVE  Fits(od) # {}
  <1>1. od \in Int /\ od <= 8232
    <2>1. od \in Int
      BY TriedAreNumbers
    <2> QED BY <2>1, Tried
  <1>2. /\ od > 1030 => od % 2 = 0
        /\ od > 2060 => od % 4 = 0
        /\ od > 4120 => od % 8 = 0
    BY <1>1, Tried
  <1>3. 2^0 = 1 /\ 2^1 = 2 /\ 2^2 = 4 /\ 2^3 = 8
    OBVIOUS
  <1>4. CASE od <= 1029
    <2> DEFINE q == od
               z == 0
    <2>1. q \in Divides /\ z \in Doublings
      BY <1>1, <1>4 DEF Divides, Doublings
    <2>2. Scaled(q, z) = od
      BY <1>1, <1>3, <1>4 DEF Scaled
    <2> HIDE DEF q, z
    <2>3. Fits(Scaled(q, z)) # {}
      BY <2>1, HasFit
    <2> QED BY <2>2, <2>3
  <1>5. CASE od > 1029 /\ od <= 2058
    <2> DEFINE q == od \div 2
               z == 1
    <2>1. q \in Divides /\ z \in Doublings
      BY <1>1, <1>2, <1>5 DEF Divides, Doublings
    <2>2. Scaled(q, z) = od
      BY <1>1, <1>2, <1>3, <1>5 DEF Scaled
    <2> HIDE DEF q, z
    <2>3. Fits(Scaled(q, z)) # {}
      BY <2>1, HasFit
    <2> QED BY <2>2, <2>3
  <1>6. CASE od > 2058 /\ od <= 4116
    <2> DEFINE q == od \div 4
               z == 2
    <2>1. q \in Divides /\ z \in Doublings
      BY <1>1, <1>2, <1>6 DEF Divides, Doublings
    <2>2. Scaled(q, z) = od
      BY <1>1, <1>2, <1>3, <1>6 DEF Scaled
    <2> HIDE DEF q, z
    <2>3. Fits(Scaled(q, z)) # {}
      BY <2>1, HasFit
    <2> QED BY <2>2, <2>3
  <1>7. CASE od > 4116
    <2> DEFINE q == od \div 8
               z == 3
    <2>1. q \in Divides /\ z \in Doublings
      BY <1>1, <1>2, <1>7 DEF Divides, Doublings
    <2>2. Scaled(q, z) = od
      BY <1>1, <1>2, <1>3, <1>7 DEF Scaled
    <2> HIDE DEF q, z
    <2>3. Fits(Scaled(q, z)) # {}
      BY <2>1, HasFit
    <2> QED BY <2>2, <2>3
  <1> QED BY <1>1, <1>4, <1>5, <1>6, <1>7

\* Of several fits there is one with the smallest i.
LEMMA SmallestFit ==
  ASSUME NEW od, Fits(od) # {}
  PROVE  \E f \in Fits(od) : \A g \in Fits(od) : f[1] <= g[1]
  <1> DEFINE S == {f[1] : f \in Fits(od)}
  <1>1. S \subseteq Nat /\ S # {}
    BY DEF Fits
  <1>2. PICK least \in S : \A n \in S : least <= n
    <2> HIDE DEF S
    <2> QED BY <1>1, LeastNumber
  <1> QED BY <1>2

\* A large output divider is read back from its fit.
LEMMA LargeOutputDividerIsRead ==
  ASSUME NEW od \in TriedOutputDividers, 38 <= od, NEW bits,
         \A b \in {95} \cup (96..109) : b \in bits <=> b \in LargeOutputBits(od)
  PROVE  /\ LargeOutputBits(od) \subseteq {95} \cup (96..109)
         /\ ReadOutputDivider(bits) = od
  <1> DEFINE f == CHOOSE g \in Fits(od) : \A h \in Fits(od) : g[1] <= h[1]
  <1>1. Fits(od) # {}
    BY LargeOutputDividersFit
  <1>2. f \in Fits(od)
    BY <1>1, SmallestFit
  <1>3. LargeOutputBits(od) = {95, 97} \cup Bits(f[1], 101, 9) \cup Bits(1 - f[2], 98, 1)
                                \cup Bits(f[3], 99, 2)
    BY <1>1 DEF LargeOutputBits
  <1> HIDE DEF f
  <1>4. PICK i \in 0..511, y \in {0, 1}, z \in 0..3 :
          /\ f[1] = i /\ f[2] = y /\ f[3] = z
          /\ od = (2 * (i + 3) + y) * 2^z
    BY <1>2 DEF Fits
  <1>5. 2^9 = 512 /\ 2^1 = 2 /\ 2^2 = 4
    OBVIOUS
  <1>6. /\ i \in Nat /\ i < 2^9 /\ 1 - y \in Nat /\ 1 - y < 2^1
        /\ z \in Nat /\ z < 2^2
    BY <1>5
  <1> DEFINE x == 1 - y
  <1>7. x \in Nat /\ x < 2^1
    BY <1>6
  <1>8. LargeOutputBits(od) = {95, 97} \cup Bits(i, 101, 9) \cup Bits(x, 98, 1)
                                \cup Bits(z, 99, 2)
    BY <1>3, <1>4
  <1> HIDE DEF x
  <1>9. /\ Bits(i, 101, 9) \subseteq 101..(101 + 9 - 1)
        /\ Bits(x, 98, 1) \subseteq 98..(98 + 1 - 1)
        /\ Bits(z, 99, 2) \subseteq 99..(99 + 2 - 1)
    <2>1. Bits(i, 101, 9) \subseteq 101..(101 + 9 - 1)
      BY <1>6, BitsAre
    <2>2. Bits(x, 98, 1) \subseteq 98..(98 + 1 - 1)
      BY <1>7, BitsAre
    <2>3. Bits(z, 99, 2) \subseteq 99..(99 + 2 - 1)
      BY <1>6, BitsAre
    <2> QED BY <2>1, <2>2, <2>3
  <1>10. LargeOutputBits(od) \subseteq {95} \cup (96..109)
    BY <1>8, <1>9
  <1>11. 95 \in bits /\ 97 \in bits
    <2>1. 95 \in LargeOutputBits(od) /\ 97 \in LargeOutputBits(od) /\ 97 \in 96..109
      BY <1>8
    <2> QED BY <2>1
  <1>12. Field(bits, 101, 9) = i
    <2>1. \A b \in 101..(101 + 9 - 1) : b \in bits <=> b \in Bits(i, 101, 9)
      BY <1>8, <1>9
    <2> QED BY <1>6, <2>1, FieldOfBits, Widths
  <1>13. Field(bits, 98, 1) = x
    <2>1. \A b \in 98..(98 + 1 - 1) : b \in bits <=> b \in Bits(x, 98, 1)
      BY <1>8, <1>9
    <2> QED BY <1>7, <2>1, FieldOfBits, Widths
  <1>14. Field(bits, 99, 2) = z
    <2>1. \A b \in 99..(99 + 2 - 1) : b \in bits <=> b \in Bits(z, 99, 2)
      BY <1>8, <1>9
    <2> QED BY <1>6, <2>1, FieldOfBits, Widths
  <1>15. ReadOutputDivider(bits) =
           (2 * (Field(bits, 101, 9) + 3) + (1 - Field(bits, 98, 1))) * 2^Field(bits, 99, 2)
    BY <1>11 DEF ReadOutputDivider
  <1>16. 1 - x = y
    BY DEF x
  <1>17. ReadOutputDivider(bits) = od
    BY <1>4, <1>12, <1>13, <1>14, <1>15, <1>16
  <1> QED BY <1>10, <1>17

\* Every output divider that the search tries is read back.
LEMMA OutputDividerIsRead ==
  ASSUME NEW od \in TriedOutputDividers, NEW bits,
         \A b \in {95} \cup (96..109) : b \in bits <=> b \in OutputDividerBits(od)
  PROVE  /\ OutputDividerBits(od) \subseteq {95} \cup (96..109)
         /\ ReadOutputDivider(bits) = od
  <1>1. od \in Int /\ 2 <= od
    <2>1. od \in Int
      BY TriedAreNumbers
    <2> QED BY <2>1, Tried
  <1>2. CASE od \in {2, 3, 4, 5, 6, 7, 9, 11, 13}
    <2>1. OutputDividerBits(od) = SmallOutputDivider[od]
      BY <1>1, <1>2, OutputDividerTable
    <2>2. PICK n \in DOMAIN SmallOutputDivider : n = od
      BY <1>2, SmallOutputDividers
    <2>3. \A b \in {95} \cup (96..109) : b \in bits <=> b \in SmallOutputDivider[n]
      BY <2>1, <2>2
    <2>4. /\ SmallOutputDivider[n] \subseteq {95} \cup (96..109)
          /\ ReadOutputDivider(bits) = n
      BY <2>3, SmallOutputDividerIsRead
    <2> QED BY <2>1, <2>2, <2>4
  <1>3. CASE od \notin {9, 11, 13} /\ 8 <= od /\ od <= 37
    <2>1. OutputDividerBits(od) = {97} \cup Bits(31 - (od - 6), 98, 5)
      BY <1>1, <1>3, OutputDividerTable
    <2> QED BY <1>1, <1>3, <2>1, MiddleOutputDividerIsRead
  <1>4. CASE 38 <= od
    <2>1. OutputDividerBits(od) = LargeOutputBits(od)
      BY <1>1, <1>4, OutputDividerTable
    <2> QED BY <1>4, <2>1, LargeOutputDividerIsRead
  <1>5. \/ od \in {2, 3, 4, 5, 6, 7, 9, 11, 13}
        \/ od \notin {9, 11, 13} /\ 8 <= od /\ od <= 37
        \/ 38 <= od
    BY <1>1
  <1> QED BY <1>2, <1>3, <1>4, <1>5

-----------------------------------------------------------------------------
(* The word                                                                *)

\* The parts of a word share no bit, and leave none but the 160 there are.
LEMMA WordLayout ==
  ASSUME NEW s \in Solutions
  PROVE  LET bits == EncodedWord(s)
         IN  /\ bits \subseteq 0..159 /\ 122 \in bits
             /\ \A b \in 0..12 : b \in bits <=> b \in InputDividerBits(s.rd)
             /\ \A b \in 13..23 : b \in bits <=> b \in VCODividerBits(s.vd)
             /\ \A b \in {89, 90} : b \in bits <=> b \in LoopFilterBits(s.Rs)
             /\ \A b \in (91..93) \cup {127, 128} :
                  b \in bits <=> b \in ChargePumpBits(s.icpnum)
             /\ \A b \in {95} \cup (96..109) :
                  b \in bits <=> b \in OutputDividerBits(s.od)
  <1> DEFINE A == InputDividerBits(s.rd)
             B == VCODividerBits(s.vd)
             C == LoopFilterBits(s.Rs)
             D == ChargePumpBits(s.icpnum)
             E == OutputDividerBits(s.od)
  <1>1. /\ s.rd \in InputDividers /\ s.vd \in VCODividers /\ s.od \in TriedOutputDividers
        /\ s.Rs \in {64, 52, 16, 4} /\ s.icpnum \in DOMAIN ChargePumpCode
    BY DEF Solutions
  <1>2. A \subseteq 0..12
    BY <1>1, InputDividerIsRead
  <1>3. B \subseteq 13..23
    BY <1>1, VCODividerIsRead
  <1>4. C \subseteq {89, 90}
    BY <1>1, LoopFilterIsRead
  <1>5. D \subseteq (91..93) \cup {127, 128}
    BY <1>1, ChargePumpIsRead
  <1>6. E \subseteq {95} \cup (96..109)
    BY <1>1, OutputDividerIsRead
  <1>7. EncodedWord(s) = FixedBits \cup A \cup B \cup C \cup D \cup E
    BY DEF EncodedWord
  <1>8. \A b : b \in FixedBits <=> b \in Int /\ ((136 <= b /\ b <= 159) \/ b \in {122, 112, 110})
    BY DEF FixedBits
  <1> HIDE DEF A, B, C, D, E
  <1>9. EncodedWord(s) \subseteq 0..159
    <2>1. FixedBits \subseteq 0..159
      BY <1>8
    <2>2. /\ A \subseteq 0..159 /\ B \subseteq 0..159 /\ C \subseteq 0..159
          /\ D \subseteq 0..159 /\ E \subseteq 0..159
      BY <1>2, <1>3, <1>4, <1>5, <1>6
    <2> QED BY <1>7, <2>1, <2>2
  <1>10. 122 \in EncodedWord(s)
    BY <1>7, <1>8
  <1>11. \A b \in 0..12 : b \in EncodedWord(s) <=> b \in A
    BY <1>3, <1>4, <1>5, <1>6, <1>7, <1>8
  <1>12. \A b \in 13..23 : b \in EncodedWord(s) <=> b \in B
    BY <1>2, <1>4, <1>5, <1>6, <1>7, <1>8
  <1>13. \A b \in {89, 90} : b \in EncodedWord(s) <=> b \in C
    BY <1>2, <1>3, <1>5, <1>6, <1>7, <1>8
  <1>14. \A b \in (91..93) \cup {127, 128} : b \in EncodedWord(s) <=> b \in D
    BY <1>2, <1>3, <1>4, <1>6, <1>7, <1>8
  <1>15. \A b \in {95} \cup (96..109) : b \in EncodedWord(s) <=> b \in E
    BY <1>2, <1>3, <1>4, <1>5, <1>7, <1>8
  <1> QED BY <1>9, <1>10, <1>11, <1>12, <1>13, <1>14, <1>15 DEF A, B, C, D, E

\* What the generator reads from the word of a solution is this solution: the five
\* tables, the bytes they share and the order in which they are written agree
\* (GetICS30703Data), and the bit that synccom_port_set_clock_bits sets changes
\* nothing.
THEOREM WordIsReadBack ==
  \A s \in Solutions : ReadWord(EncodedWord(s)) = s /\ LoadedWord(EncodedWord(s)) = EncodedWord(s)
  <1> SUFFICES ASSUME NEW s \in Solutions
               PROVE  /\ ReadWord(EncodedWord(s)) = s
                      /\ LoadedWord(EncodedWord(s)) = EncodedWord(s)
    OBVIOUS
  <1> DEFINE bits == EncodedWord(s)
  <1>1. /\ s.rd \in InputDividers /\ s.vd \in VCODividers /\ s.od \in TriedOutputDividers
        /\ s.Rs \in {64, 52, 16, 4} /\ s.icpnum \in DOMAIN ChargePumpCode
        /\ s = [rd |-> s.rd, vd |-> s.vd, od |-> s.od, Rs |-> s.Rs, icpnum |-> s.icpnum]
    BY DEF Solutions
  <1>2. /\ 122 \in bits
        /\ \A b \in 0..12 : b \in bits <=> b \in InputDividerBits(s.rd)
        /\ \A b \in 13..23 : b \in bits <=> b \in VCODividerBits(s.vd)
        /\ \A b \in {89, 90} : b \in bits <=> b \in LoopFilterBits(s.Rs)
        /\ \A b \in (91..93) \cup {127, 128} : b \in bits <=> b \in ChargePumpBits(s.icpnum)
        /\ \A b \in {95} \cup (96..109) : b \in bits <=> b \in OutputDividerBits(s.od)
    BY WordLayout
  <1> HIDE DEF bits
  <1>3. ReadInputDivider(bits) = s.rd
    BY <1>1, <1>2, InputDividerIsRead
  <1>4. ReadVCODivider(bits) = s.vd
    BY <1>1, <1>2, VCODividerIsRead
  <1>5. ReadLoopFilter(bits) = s.Rs
    BY <1>1, <1>2, LoopFilterIsRead
  <1>6. ReadChargePump(bits) = s.icpnum
    BY <1>1, <1>2, ChargePumpIsRead
  <1>7. ReadOutputDivider(bits) = s.od
    BY <1>1, <1>2, OutputDividerIsRead
  <1>8. ReadWord(bits) = s
    BY <1>1, <1>3, <1>4, <1>5, <1>6, <1>7 DEF ReadWord
  <1>9. LoadedWord(bits) = bits
    BY <1>2 DEF LoadedWord
  <1> QED BY <1>8, <1>9 DEF bits

-----------------------------------------------------------------------------
(* What passes                                                             *)

\* A pair of output and VCO divider passes.
Passes(rd, od, vd, p, surely) ==
  /\ ReferenceAllowed(rd)
  /\ request.den \div request.num <= od
  /\ od <= (61 * request.den) \div request.num
  /\ vd \in VCODividersTried(request.num * rd * od, p)
  /\ VCOAllowed(rd, vd, od)
  /\ ErrorPasses(request.num * rd * od, vd, p, surely)
  /\ PassingFilters(rd, vd, surely) # {}

\* PassingPairs are the pairs that pass.
LEMMA PairsPass ==
  ASSUME NEW rd, NEW D, NEW p, NEW surely
  PROVE  /\ \A pair \in PassingPairs(rd, D, p, surely) :
              pair[1] \in D /\ Passes(rd, pair[1], pair[2], p, surely)
         /\ \A od \in D : \A vd :
              Passes(rd, od, vd, p, surely) => << od, vd >> \in PassingPairs(rd, D, p, surely)
  <1> DEFINE wanted(od) == request.num * rd * od
             inReach == {od \in D : /\ request.den \div request.num <= od
                                    /\ od <= (61 * request.den) \div request.num}
             passing(od) == {vd \in VCODividersTried(wanted(od), p) :
                               /\ VCOAllowed(rd, vd, od)
                               /\ ErrorPasses(wanted(od), vd, p, surely)
                               /\ PassingFilters(rd, vd, surely) # {}}
  <1>1. PassingPairs(rd, D, p, surely) =
          IF ReferenceAllowed(rd) THEN UNION {{od} \X passing(od) : od \in inReach} ELSE {}
    BY DEF PassingPairs
  <1>2. \A od \in D : \A vd : ReferenceAllowed(rd) =>
          (od \in inReach /\ vd \in passing(od) <=> Passes(rd, od, vd, p, surely))
    BY DEF Passes
  <1> HIDE DEF inReach, passing
  <1>3. ASSUME NEW pair \in PassingPairs(rd, D, p, surely)
        PROVE  pair[1] \in D /\ Passes(rd, pair[1], pair[2], p, surely)
    <2>1. ReferenceAllowed(rd)
      BY <1>1, <1>3
    <2>2. PICK od \in inReach : pair \in {od} \X passing(od)
      BY <1>1, <1>3
    <2>3. pair[1] = od /\ pair[2] \in passing(od)
      BY <2>2
    <2>4. od \in D
      BY DEF inReach
    <2> QED BY <1>2, <2>1, <2>3, <2>4
  <1>4. ASSUME NEW od \in D, NEW vd, Passes(rd, od, vd, p, surely)
        PROVE  << od, vd >> \in PassingPairs(rd, D, p, surely)
    <2>1. ReferenceAllowed(rd)
      BY <1>4 DEF Passes
    <2>2. od \in inReach /\ vd \in passing(od)
      BY <1>2, <1>4, <2>1
    <2>3. << od, vd >> \in {od} \X passing(od)
      BY <2>2
    <2> QED BY <1>1, <2>1, <2>2, <2>3
  <1> QED BY <1>3, <1>4

\* With a reference divider nothing passes surely.
Missing(rd, p) == \A od \in TriedOutputDividers : \A vd : ~Passes(rd, od, vd, p, TRUE)

\* No other output divider that Table 5 can express would have helped: the search
\* tries them all.
LEMMA ExpressibleAreTried == ExpressibleOutputDividers \subseteq TriedOutputDividers
  <1>1. 2^0 = 1 /\ 2^1 = 2 /\ 2^2 = 4 /\ 2^3 = 8
    OBVIOUS
  <1>2. ASSUME NEW od \in 2..37
        PROVE  od \in TriedOutputDividers
    BY Tried
  <1>3. ASSUME NEW m \in 6..1029, NEW z \in 0..3
        PROVE  Scaled(m, z) \in TriedOutputDividers
    <2>1. CASE z = 0
      <3>1. Scaled(m, z) = m
        BY <1>1, <2>1 DEF Scaled
      <3> QED BY <3>1, Tried
    <2>2. CASE z = 1
      <3>1. Scaled(m, z) = 2 * m /\ (2 * m) % 2 = 0 /\ 2 * m \in Int
        BY <1>1, <2>2 DEF Scaled
      <3> QED BY <3>1, Tried
    <2>3. CASE z = 2
      <3>1. Scaled(m, z) = 4 * m /\ (4 * m) % 2 = 0 /\ (4 * m) % 4 = 0 /\ 4 * m \in Int
        BY <1>1, <2>3 DEF Scaled
      <3> QED BY <3>1, Tried
    <2>4. CASE z = 3
      <3>1. Scaled(m, z) = 8 * m /\ 8 * m \in Int
            /\ (8 * m) % 2 = 0 /\ (8 * m) % 4 = 0 /\ (8 * m) % 8 = 0
        BY <1>1, <2>4 DEF Scaled
      <3> QED BY <3>1, Tried
    <2> QED BY <2>1, <2>2, <2>3, <2>4
  <1>4. ASSUME NEW od \in ExpressibleOutputDividers
        PROVE  od \in TriedOutputDividers
    <2> DEFINE small == 2..37
               ms == 6..1029
               zs == 0..3
               large == {Scaled(m, z) : m \in ms, z \in zs}
    <2>1. CASE od \in small
      BY <1>2, <2>1
    <2>2. CASE od \in large
      <3>1. \A m \in ms, z \in zs : Scaled(m, z) \in TriedOutputDividers
        BY <1>3
      <3> HIDE DEF ms, zs
      <3> QED BY <2>2, <3>1
    <2>3. ExpressibleOutputDividers = small \cup large
      BY DEF ExpressibleOutputDividers, Scaled
    <2> HIDE DEF small, large
    <2> QED BY <2>1, <2>2, <2>3
  <1> QED BY <1>4

\* NothingPasses says that nothing passes surely with the divider tried at present;
\* and where nothing that is tried passes, nothing that Table 5 can express does.
LEMMA NoneIsMissing ==
  ASSUME NEW rd, NEW p
  PROVE  /\ NothingPasses /\ rd = r /\ p = ppm => Missing(rd, p)
         /\ Missing(rd, p) => PassingPairs(rd, ExpressibleOutputDividers, p, TRUE) = {}
  <1>1. NothingPasses /\ rd = r /\ p = ppm => Missing(rd, p)
    <2> SUFFICES ASSUME NothingPasses, rd = r, p = ppm,
                        NEW od \in TriedOutputDividers, NEW vd, Passes(rd, od, vd, p, TRUE)
                 PROVE  FALSE
      BY DEF Missing
    <2>1. << od, vd >> \in PassingPairs(rd, TriedOutputDividers, p, TRUE)
      BY PairsPass
    <2>2. PassingPairs(rd, TriedOutputDividers, p, TRUE) = {}
      BY DEF NothingPasses
    <2> QED BY <2>1, <2>2
  <1>2. Missing(rd, p) => PassingPairs(rd, ExpressibleOutputDividers, p, TRUE) = {}
    <2> SUFFICES ASSUME Missing(rd, p),
                        NEW pair \in PassingPairs(rd, ExpressibleOutputDividers, p, TRUE)
                 PROVE  FALSE
      OBVIOUS
    <2>1. pair[1] \in ExpressibleOutputDividers /\ Passes(rd, pair[1], pair[2], p, TRUE)
      BY PairsPass
    <2> QED BY <2>1, ExpressibleAreTried DEF Missing
  <1> QED BY <1>1, <1>2

\* What passes depends on the request only, which never changes.
LEMMA MissingStays ==
  ASSUME NEW rd, NEW p, request' = request
  PROVE  Missing(rd, p)' <=> Missing(rd, p)
  <1>1. ASSUME NEW od, NEW vd
        PROVE  Passes(rd, od, vd, p, TRUE)' <=> Passes(rd, od, vd, p, TRUE)
    BY DEF Passes, VCODividersTried, ErrorPasses
  <1> QED BY <1>1 DEF Missing

\* What is cut off a number is less than a million, and grows with it where the
\* whole millions stay.
LEMMA Millions ==
  ASSUME NEW x \in Nat, NEW y \in Nat, x <= y
  PROVE  /\ x \div Million <= y \div Million
         /\ x \div Million = y \div Million => x % Million <= y % Million
  BY SMT DEF Million

\* A larger error is allowed with more ppm: no less, or as much and no less of the
\* millionths that are cut off.
LEMMA AllowanceGrows ==
  ASSUME NEW wanted \in Nat, NEW p \in Nat, NEW q \in Nat, p <= q
  PROVE  /\ Allowance(wanted, p) <= Allowance(wanted, q)
         /\ Allowance(wanted, p) = Allowance(wanted, q) =>
              CutOff(wanted, p) <= CutOff(wanted, q)
  <1> DEFINE a == wanted \div Million
             b == wanted % Million
             whole(n) == (n * b) \div Million
             rest(n) == (n * b) % Million
  <1>1. a \in Nat /\ b \in Nat
    BY SMT DEF Million
  <1>2. /\ Allowance(wanted, p) = p * a + whole(p)
        /\ Allowance(wanted, q) = q * a + whole(q)
        /\ CutOff(wanted, p) = rest(p) /\ CutOff(wanted, q) = rest(q)
    BY SMT DEF Allowance, CutOff
  <1> HIDE DEF a, b
  <1>3. p * a <= q * a /\ p * b <= q * b
    BY <1>1, SMT
  <1>4. p * a \in Nat /\ q * a \in Nat /\ p * b \in Nat /\ q * b \in Nat
    BY <1>1, SMT
  <1>5. whole(p) <= whole(q) /\ (whole(p) = whole(q) => rest(p) <= rest(q))
    BY <1>3, <1>4, Millions, SMT
  <1>6. whole(p) \in Nat /\ whole(q) \in Nat
    BY <1>4, SMT DEF Million
  <1> HIDE DEF whole, rest
  <1> QED BY <1>2, <1>3, <1>4, <1>5, <1>6, SMT

\* So a solution within the error allowed at present is within the one that was
\* asked for.
LEMMA ErrorStaysAllowed ==
  ASSUME request \in Requests, NEW wanted \in Nat, NEW vd \in Nat,
         NEW p \in Nat, NEW q \in Nat, p <= q, ErrorPasses(wanted, vd, p, FALSE)
  PROVE  ErrorPasses(wanted, vd, q, FALSE)
  <1> DEFINE error == IF request.den * vd >= wanted
                      THEN request.den * vd - wanted ELSE wanted - request.den * vd
             limit(n) == Allowance(wanted, n)
             cut(n) == CutOff(wanted, n)
             slack == Slack(wanted)
             near(n) == cut(n) + slack >= Million
             within(n) == \/ error < limit(n) \/ error = limit(n)
                          \/ error = limit(n) + 1 /\ near(n)
  <1>1. error \in Int
    BY RequestsAssumption, SMT
  <1>2. \A n \in Nat : limit(n) \in Int /\ cut(n) \in Int
    BY SMT DEF Allowance, CutOff, Million
  <1>3. slack \in Int
    BY SMT DEF Slack, Million
  <1>4. \A n : ErrorPasses(wanted, vd, n, FALSE) <=> within(n)
    BY SMT DEF ErrorPasses
  <1>5. limit(p) <= limit(q) /\ (limit(p) = limit(q) => cut(p) <= cut(q))
    BY AllowanceGrows, SMT
  <1> HIDE DEF error, limit, cut, slack
  <1>6. limit(p) = limit(q) /\ near(p) => near(q)
    BY <1>2, <1>3, <1>5, SMT DEF Million
  <1> HIDE DEF near
  <1>7. within(p) => within(q)
    BY <1>1, <1>2, <1>5, <1>6, SMT
  <1> HIDE DEF within
  <1> QED BY <1>4, <1>7

-----------------------------------------------------------------------------
(* The search                                                              *)

\* A solution keeps within an error of p millionths and within the limits of the
\* VCO, and its loop filter passes.
SolutionFits(s, p) ==
  /\ VCOAllowed(s.rd, s.vd, s.od)
  /\ ErrorPasses(request.num * s.rd * s.od, s.vd, p, FALSE)
  /\ \E f \in PassingFilters(s.rd, s.vd, FALSE) :
       << LoopFilterResistors[f[1]], ChargePumpCurrents[f[2]] >> = << s.Rs, s.icpnum >>

\* Nothing passes surely that has been tried: with a smaller reference divider
\* and the error allowed at present, or with one less.
NothingBehind ==
  \A rd \in 1..maxR : \A p \in Nat :
    (p = ppm /\ rd < r) \/ p + 1 = ppm => Missing(rd, p)

\* Where the search gave up, it had tried everything.
NothingAtAll ==
  Returned(2) => \A rd \in 1..maxR : \A p \in Nat : p = request.ppm => Missing(rd, p)

\* The word is that of a solution with the reference divider where the search ended.
WordIsSolution ==
  Returned(0) =>
    \E s \in Solutions : \E p \in Nat :
       /\ s.rd = r /\ word = EncodedWord(s)
       /\ p <= request.ppm /\ SolutionFits(s, p)

\* The inductive invariant.
SearchInv ==
  /\ TypeOK
  /\ pc = "search" => r >= 1 /\ outcome = 0 /\ word = NoWord
  /\ pc = "called" => outcome = 0 /\ word = NoWord
  /\ Returned(0) => r >= 1
  /\ NothingBehind
  /\ NothingAtAll
  /\ WordIsSolution

\* The filters are made of values that the tables have.
LEMMA FiltersAreInTables ==
  ASSUME NEW f \in Filters
  PROVE  /\ LoopFilterResistors[f[1]] \in {64, 52, 16, 4}
         /\ ChargePumpCurrents[f[2]] \in DOMAIN ChargePumpCode
  <1>1. /\ Len(LoopFilterResistors) = 4
        /\ \A i \in 1..4 : LoopFilterResistors[i] \in {64, 52, 16, 4}
    BY DEF LoopFilterResistors
  <1>2. Len(ChargePumpCurrents) = 20
    BY DEF ChargePumpCurrents
  <1>3. DOMAIN ChargePumpCode =
          {125, 250, 375, 500, 625, 750, 875, 1000, 1125, 1250,
           1500, 1750, 1875, 2000, 2250, 2500, 2625, 3000, 3500, 4000}
    BY DEF ChargePumpCode
  <1>4. \A i \in 1..20 : ChargePumpCurrents[i] \in DOMAIN ChargePumpCode
    BY <1>3 DEF ChargePumpCurrents
  <1>5. f[1] \in 1..4 /\ f[2] \in 1..20
    BY <1>1, <1>2 DEF Filters
  <1> QED BY <1>1, <1>4, <1>5

\* The dividers of the tables are numbers.
LEMMA DividersAreNumbers == VCODividers \subseteq Nat /\ OutputDividers \subseteq Nat
  BY DEF VCODividers, OutputDividers

\* The search tries no output divider that the tables lack.
LEMMA TriedAreDividers == TriedOutputDividers \subseteq OutputDividers
  <1> DEFINE A == 2..1030
             B == 1031..2060
             C == 2061..4120
             D == 4121..8232
  <1>1. \A od \in A : od \in Int /\ 2 <= od /\ od <= 8232
    OBVIOUS
  <1>2. \A od \in B : od \in Int /\ 2 <= od /\ od <= 8232
    OBVIOUS
  <1>3. \A od \in C : od \in Int /\ 2 <= od /\ od <= 8232
    OBVIOUS
  <1>4. \A od \in D : od \in Int /\ 2 <= od /\ od <= 8232
    OBVIOUS
  <1>5. TriedOutputDividers = A \cup {n \in B : n % 2 = 0} \cup {n \in C : n % 4 = 0}
                                \cup {n \in D : n % 8 = 0}
    BY DEF TriedOutputDividers
  <1> HIDE DEF A, B, C, D
  <1>6. ASSUME NEW od \in TriedOutputDividers
        PROVE  od \in Int /\ 2 <= od /\ od <= 8232
    BY <1>1, <1>2, <1>3, <1>4, <1>5
  <1>7. \A n \in Int : 2 <= n /\ n <= 8232 => n \in OutputDividers
    BY DEF OutputDividers
  <1> QED BY <1>6, <1>7

\* What a pair and a filter that pass are put together to is a solution: each of
\* its values has its place in a table.
LEMMA PassingIsSolution ==
  ASSUME NEW rd \in Nat \ {0}, NEW p, NEW pair \in PassingPairs(rd, TriedOutputDividers, p, FALSE),
         NEW f \in PassingFilters(rd, pair[2], FALSE)
  PROVE  LET s == [rd |-> rd, od |-> pair[1], vd |-> pair[2],
                   Rs |-> LoopFilterResistors[f[1]], icpnum |-> ChargePumpCurrents[f[2]]]
         IN  s \in Solutions /\ EncodeError(s) = 0 /\ SolutionFits(s, p)
  <1> DEFINE s == [rd |-> rd, od |-> pair[1], vd |-> pair[2],
                   Rs |-> LoopFilterResistors[f[1]], icpnum |-> ChargePumpCurrents[f[2]]]
  <1>1. pair[1] \in TriedOutputDividers /\ Passes(rd, pair[1], pair[2], p, FALSE)
    BY PairsPass
  <1>2. rd \in InputDividers
    BY <1>1 DEF Passes, ReferenceAllowed, InputDividers
  <1>3. pair[2] \in VCODividers
    <2>1. PICK wanted : pair[2] \in VCODividersTried(wanted, p)
      BY <1>1 DEF Passes
    <2>2. PICK start, last : pair[2] \in {vd \in start..last : min_V <= vd /\ vd <= max_V}
      BY <2>1 DEF VCODividersTried
    <2>3. PICK vd \in Int : vd = pair[2] /\ 12 <= vd /\ vd <= 2055
      BY <2>2 DEF min_V, max_V
    <2>4. \A n \in Int : 12 <= n /\ n <= 2055 => n \in VCODividers
      BY DEF VCODividers
    <2> QED BY <2>3, <2>4
  <1>4. f \in Filters
    BY DEF PassingFilters
  <1>5. s.Rs \in {64, 52, 16, 4} /\ s.icpnum \in DOMAIN ChargePumpCode
    BY <1>4, FiltersAreInTables
  <1>6. s \in Solutions
    BY <1>1, <1>2, <1>3, <1>5 DEF Solutions
  <1>7. s.od \in OutputDividers
    BY <1>1, TriedAreDividers
  <1>8. EncodeError(s) = 0
    BY <1>2, <1>3, <1>5, <1>7 DEF EncodeError
  <1>9. SolutionFits(s, p)
    BY <1>1 DEF Passes, SolutionFits
  <1> QED BY <1>6, <1>8, <1>9

\* The search starts with nothing behind it.
LEMMA SearchInit == Init => SearchInv
  <1> SUFFICES ASSUME Init PROVE SearchInv
    OBVIOUS
  <1>1. TypeOK
    <2>1. request.ppm \in Nat
      BY RequestsAssumption DEF Init
    <2> QED BY <2>1, MaxRAssumption DEF Init, TypeOK
  <1>2. NothingBehind
    BY MaxRAssumption DEF Init, NothingBehind
  <1> QED BY <1>1, <1>2 DEF Init, SearchInv, NothingAtAll, WordIsSolution, Returned

\* While request stays, so does what SolutionFits says.
LEMMA FitsStays ==
  ASSUME NEW s, NEW p, request' = request
  PROVE  SolutionFits(s, p)' <=> SolutionFits(s, p)
  BY DEF SolutionFits, ErrorPasses

\* Every step keeps the types, leaves nothing behind that passes surely, and ends
\* with a solution or with nothing left to try.
LEMMA SearchStep == SearchInv /\ [Next]_vars => SearchInv'
  <1> SUFFICES ASSUME SearchInv, [Next]_vars PROVE SearchInv'
    OBVIOUS
  <1>1. /\ TypeOK /\ NothingBehind /\ NothingAtAll /\ WordIsSolution
        /\ pc = "search" => r >= 1 /\ outcome = 0 /\ word = NoWord
        /\ pc = "called" => outcome = 0 /\ word = NoWord
        /\ Returned(0) => r >= 1
    BY DEF SearchInv
  <1>2. /\ request \in Requests /\ request.ppm \in Nat /\ ppm \in 0..request.ppm
        /\ maxR \in Nat \ {0} /\ r \in 0..maxR
    BY <1>1, RequestsAssumption, MaxRAssumption DEF TypeOK
  <1>3. request' = request
    BY DEF Next, vars, Refuse, Begin, Finish, NextReference, IncreasePpm, GiveUp
  <1>4. \A rd \in 1..maxR : \A p \in Nat : Missing(rd, p) => Missing(rd, p)'
    BY <1>3, MissingStays
  <1>5. CASE Refuse
    BY <1>1, <1>2, <1>4, <1>5
       DEF Refuse, SearchInv, TypeOK, NothingBehind, NothingAtAll, WordIsSolution, Returned
  <1>6. CASE Begin
    <2>1. NothingBehind'
      <3> SUFFICES ASSUME NEW rd \in 1..maxR, NEW p \in Nat, p + 1 = ppm
                   PROVE  Missing(rd, p)'
        BY <1>6 DEF Begin, NothingBehind
      <3> QED BY <1>1, <1>4 DEF NothingBehind
    <2> QED BY <1>1, <1>2, <1>6, <2>1
            DEF Begin, SearchInv, TypeOK, NothingAtAll, WordIsSolution, Returned
  <1>7. CASE Finish
    <2>1. PICK rd, p : rd = r /\ p = ppm
      OBVIOUS
    <2>2. rd \in Nat \ {0} /\ p \in Nat /\ p <= request.ppm
      BY <1>1, <1>2, <1>7, <2>1 DEF Finish
    <2>3. PICK pair \in PassingPairs(rd, TriedOutputDividers, p, FALSE) :
            \E f \in PassingFilters(rd, pair[2], FALSE) :
              LET s == [rd |-> rd, od |-> pair[1], vd |-> pair[2],
                        Rs |-> LoopFilterResistors[f[1]],
                        icpnum |-> ChargePumpCurrents[f[2]]]
              IN  /\ outcome' = EncodeError(s)
                  /\ word' = IF outcome' = 0 THEN EncodedWord(s) ELSE NoWord
      BY <1>7, <2>1 DEF Finish
    <2>4. PICK f \in PassingFilters(rd, pair[2], FALSE) :
            LET s == [rd |-> rd, od |-> pair[1], vd |-> pair[2],
                      Rs |-> LoopFilterResistors[f[1]], icpnum |-> ChargePumpCurrents[f[2]]]
            IN  /\ outcome' = EncodeError(s)
                /\ word' = IF outcome' = 0 THEN EncodedWord(s) ELSE NoWord
      BY <2>3
    <2> DEFINE s == [rd |-> rd, od |-> pair[1], vd |-> pair[2],
                     Rs |-> LoopFilterResistors[f[1]], icpnum |-> ChargePumpCurrents[f[2]]]
    <2>5. s \in Solutions /\ EncodeError(s) = 0 /\ SolutionFits(s, p)
      BY <2>2, PassingIsSolution
    <2>6. outcome' = 0 /\ word' = EncodedWord(s) /\ s.rd = r
      BY <2>1, <2>4, <2>5
    <2> HIDE DEF s
    <2>7. word' \subseteq 0..159
      BY <2>5, <2>6, WordLayout
    <2>8. SolutionFits(s, p)'
      BY <1>3, <2>5, FitsStays
    <2>9. WordIsSolution'
      BY <1>3, <1>7, <2>2, <2>5, <2>6, <2>8 DEF Finish, WordIsSolution
    <2>10. NothingBehind'
      BY <1>1, <1>4, <1>7 DEF Finish, NothingBehind
    <2>11. TypeOK' /\ pc' = "returned" /\ r' >= 1
      BY <1>1, <1>2, <1>7, <2>6, <2>7 DEF Finish, TypeOK
    <2> QED BY <2>6, <2>9, <2>10, <2>11 DEF SearchInv, NothingAtAll, Returned
  <1>8. CASE NextReference
    <2>1. NothingBehind'
      <3> SUFFICES ASSUME NEW rd \in 1..maxR, NEW p \in Nat,
                          (p = ppm /\ rd < r + 1) \/ p + 1 = ppm
                   PROVE  Missing(rd, p)'
        BY <1>8 DEF NextReference, NothingBehind
      <3>1. CASE p = ppm /\ rd = r
        BY <1>4, <1>8, <3>1, NoneIsMissing DEF NextReference
      <3>2. CASE (p = ppm /\ rd < r) \/ p + 1 = ppm
        BY <1>1, <1>4, <3>2 DEF NothingBehind
      <3> QED BY <1>2, <3>1, <3>2
    <2> QED BY <1>1, <1>2, <1>8, <2>1
            DEF NextReference, SearchInv, TypeOK, NothingAtAll, WordIsSolution, Returned
  <1>9. CASE IncreasePpm
    <2>1. NothingBehind'
      <3> SUFFICES ASSUME NEW rd \in 1..maxR, NEW p \in Nat, p = ppm
                   PROVE  Missing(rd, p)'
        BY <1>2, <1>9 DEF IncreasePpm, NothingBehind
      <3>1. CASE rd = r
        BY <1>4, <1>9, <3>1, NoneIsMissing DEF IncreasePpm
      <3>2. CASE rd < r
        BY <1>1, <1>4, <3>2 DEF NothingBehind
      <3> QED BY <1>2, <1>9, <3>1, <3>2 DEF IncreasePpm
    <2> QED BY <1>1, <1>2, <1>9, <2>1
            DEF IncreasePpm, SearchInv, TypeOK, NothingAtAll, WordIsSolution, Returned
  <1>10. CASE GiveUp
    <2>1. NothingAtAll'
      <3> SUFFICES ASSUME NEW rd \in 1..maxR, NEW p \in Nat, p = request.ppm
                   PROVE  Missing(rd, p)'
        BY <1>3 DEF NothingAtAll
      <3>1. p = ppm /\ r = maxR
        BY <1>10 DEF GiveUp
      <3>2. CASE rd = r
        BY <1>4, <1>10, <3>1, <3>2, NoneIsMissing DEF GiveUp
      <3>3. CASE rd < r
        BY <1>1, <1>4, <3>1, <3>3 DEF NothingBehind
      <3> QED BY <1>2, <3>1, <3>2, <3>3
    <2>2. NothingBehind'
      BY <1>1, <1>4, <1>10 DEF GiveUp, NothingBehind
    <2> QED BY <1>1, <1>2, <1>10, <2>1, <2>2
            DEF GiveUp, SearchInv, TypeOK, WordIsSolution, Returned
  <1>11. CASE UNCHANGED vars
    <2>1. Returned(2)' = Returned(2) /\ Returned(0)' = Returned(0)
      BY <1>11 DEF vars, Returned
    <2>2. NothingBehind' /\ NothingAtAll'
      BY <1>1, <1>4, <1>11, <2>1 DEF vars, NothingBehind, NothingAtAll
    <2>3. WordIsSolution'
      BY <1>1, <1>3, <1>11, <2>1, FitsStays DEF vars, WordIsSolution
    <2> QED BY <1>1, <1>11, <2>1, <2>2, <2>3 DEF vars, SearchInv, TypeOK
  <1> QED BY <1>5, <1>6, <1>7, <1>8, <1>9, <1>10, <1>11 DEF Next

\* The invariant holds in every state of the search.
LEMMA SearchHolds == Spec => []SearchInv
  <1>1. Init => SearchInv
    BY SearchInit
  <1>2. SearchInv /\ [Next]_vars => SearchInv'
    BY SearchStep
  <1> QED BY <1>1, <1>2, PTL DEF Spec

\* The variables keep their types; in particular the search never returns one of
\* the errors 3 to 7, for a value that has no place in its table.
THEOREM ClockTypesHold == Spec => []TypeOK
  <1>1. SearchInv => TypeOK
    BY DEF SearchInv
  <1> QED BY <1>1, SearchHolds, PTL

\* What the generator reads from the word makes the frequency that was asked for,
\* within the error that was asked for, whatever the request.
THEOREM WordsMeetRequests == Spec => []WordMeetsRequest
  <1>1. SearchInv => WordMeetsRequest
    <2> SUFFICES ASSUME SearchInv, Returned(0) PROVE WordMeetsRequest
      BY DEF WordMeetsRequest
    <2>1. TypeOK /\ WordIsSolution /\ r >= 1
      BY DEF SearchInv
    <2>2. PICK s \in Solutions, p \in Nat :
            /\ s.rd = r /\ word = EncodedWord(s)
            /\ p <= request.ppm /\ SolutionFits(s, p)
      BY <2>1 DEF WordIsSolution
    <2>3. ReadWord(LoadedWord(word)) = s
      BY <2>2, WordIsReadBack
    <2>4. s.rd \in 1..maxR
      BY <2>1, <2>2, MaxRAssumption DEF TypeOK
    <2>5. s.vd \in VCODividers /\ s.od \in TriedOutputDividers
      BY DEF Solutions
    <2>6. s.od \in OutputDividers
      BY <2>5, TriedAreDividers
    <2>7. ErrorPasses(request.num * s.rd * s.od, s.vd, request.ppm, FALSE)
      <3>1. request \in Requests /\ request.num \in Nat /\ request.ppm \in Nat
        BY <2>1, RequestsAssumption DEF TypeOK
      <3>2. s.rd \in Nat /\ s.od \in Nat /\ s.vd \in Nat
        <4>1. s.rd \in Nat
          BY <2>4
        <4>2. s.vd \in Nat
          BY <2>5, DividersAreNumbers
        <4>3. s.od \in Nat
          BY <2>6, DividersAreNumbers
        <4> QED BY <4>1, <4>2, <4>3
      <3>3. PICK wanted, q : wanted = request.num * s.rd * s.od /\ q = request.ppm
        OBVIOUS
      <3>4. wanted \in Nat /\ q \in Nat /\ p <= q
        BY <2>2, <3>1, <3>2, <3>3
      <3>5. ErrorPasses(wanted, s.vd, p, FALSE)
        BY <2>2, <3>3 DEF SolutionFits
      <3>6. ErrorPasses(wanted, s.vd, q, FALSE)
        BY <3>1, <3>2, <3>4, <3>5, ErrorStaysAllowed
      <3> QED BY <3>3, <3>6
    <2> QED BY <2>2, <2>3, <2>4, <2>5, <2>6, <2>7 DEF WordMeetsRequest, SolutionFits
  <1> QED BY <1>1, SearchHolds, PTL

\* "no solutions found" is true, and a solution that is returned is one with the
\* smallest reference divider and as few ppm as the search allows, whatever the
\* request: the steps over output dividers and the order of the search lose none.
THEOREM NothingIsMissed == Spec => []NothingMissed
  <1>1. SearchInv => NothingMissed
    <2> SUFFICES ASSUME SearchInv PROVE NothingMissed
      OBVIOUS
    <2>1. TypeOK /\ NothingBehind /\ NothingAtAll /\ WordIsSolution
      BY DEF SearchInv
    <2>2. request.ppm \in Nat /\ ppm \in Nat /\ r \in 0..maxR /\ maxR \in Nat
      BY <2>1, RequestsAssumption, MaxRAssumption DEF TypeOK
    <2> DEFINE none(rd, p) == PassingPairs(rd, ExpressibleOutputDividers, p, TRUE) = {}
    <2>3. \A rd, p : Missing(rd, p) => none(rd, p)
      BY NoneIsMissing
    <2> HIDE DEF none
    <2>4. ASSUME Returned(2), NEW rd \in 1..maxR
          PROVE  none(rd, request.ppm)
      BY <2>1, <2>2, <2>3, <2>4 DEF NothingAtAll
    <2>5. ASSUME Returned(0), ppm > 0, NEW smaller \in 1..(ReadInputDivider(word) - 1)
          PROVE  none(smaller, ppm)
      <3>1. PICK s \in Solutions : s.rd = r /\ word = EncodedWord(s)
        BY <2>1, <2>5 DEF WordIsSolution
      <3>2. ReadWord(word).rd = r
        BY <3>1, WordIsReadBack
      <3>3. smaller \in 1..(r - 1)
        BY <3>2, <2>5 DEF ReadWord
      <3>4. smaller \in 1..maxR /\ smaller < r
        BY <2>2, <3>3
      <3> QED BY <2>1, <2>2, <2>3, <3>4 DEF NothingBehind
    <2>6. ASSUME Returned(0), ppm > 1, NEW rd \in 1..maxR
          PROVE  none(rd, ppm - 1)
      <3>1. PICK p \in Nat : p + 1 = ppm
        BY <2>2, <2>6
      <3>2. p = ppm - 1 /\ Missing(rd, p)
        BY <2>1, <2>2, <3>1 DEF NothingBehind
      <3> QED BY <2>3, <3>2
    <2> QED BY <2>4, <2>5, <2>6 DEF NothingMissed, none
  <1> QED BY <1>1, SearchHolds, PTL

-----------------------------------------------------------------------------
(* The search ends                                                         *)

\* How many pairs of an allowed error and a reference divider are still before the
\* search, and how many there are at all.
Remaining == (request.ppm - ppm) * maxR + (maxR - r)
AllAttempts == (request.ppm + 1) * maxR

\* Of pairs of numbers there is a first one.
LEMMA FirstOfPairs ==
  ASSUME NEW P, P \subseteq Nat \X Nat, P # {}
  PROVE  \E a \in P : \A b \in P : ~ (b[1] < a[1] \/ (b[1] = a[1] /\ b[2] < a[2]))
  <1> DEFINE ones == {a[1] : a \in P}
  <1>1. ones \subseteq Nat /\ ones # {}
    OBVIOUS
  <1>2. PICK one \in ones : \A n \in ones : one <= n
    <2> HIDE DEF ones
    <2> QED BY <1>1, LeastNumber
  <1> DEFINE twos == {a[2] : a \in {b \in P : b[1] = one}}
  <1>3. twos \subseteq Nat /\ twos # {}
    BY <1>2
  <1>4. PICK two \in twos : \A n \in twos : two <= n
    <2> HIDE DEF twos
    <2> QED BY <1>3, LeastNumber
  <1>5. PICK a \in P : a[1] = one /\ a[2] = two
    BY <1>4
  <1>6. ASSUME NEW b \in P
        PROVE  ~ (b[1] < a[1] \/ (b[1] = a[1] /\ b[2] < a[2]))
    <2>1. b[1] \in Nat /\ b[2] \in Nat /\ a[1] \in Nat /\ a[2] \in Nat
      OBVIOUS
    <2>2. a[1] <= b[1]
      BY <1>2, <1>5
    <2>3. b[1] = a[1] => a[2] <= b[2]
      BY <1>4, <1>5
    <2> QED BY <2>1, <2>2, <2>3
  <1> QED BY <1>6

\* What a resistor and a current have to do, so that the loop filter passes.
LoopPasses(rd, vd, Rs, icpnum, surely) ==
  /\ RatioTenths(rd, vd, Rs, icpnum) \in 70..300
  /\ 1000 * vd <= Damping(Rs, icpnum) /\ Damping(Rs, icpnum) <= 100000 * vd
  /\ ~(surely /\ Damping(Rs, icpnum) \in {1000 * vd, 100000 * vd})

\* What does so surely does so.
LEMMA SureLoopPasses ==
  ASSUME NEW rd, NEW vd, NEW Rs, NEW icpnum, LoopPasses(rd, vd, Rs, icpnum, TRUE)
  PROVE  LoopPasses(rd, vd, Rs, icpnum, FALSE)
  BY SMT DEF LoopPasses

\* A loop filter passes when its resistor and its current do.
LEMMA FilterLoop ==
  ASSUME NEW rd, NEW vd, NEW f
  PROVE  /\ FilterPasses(rd, vd, f, TRUE) <=>
              LoopPasses(rd, vd, LoopFilterResistors[f[1]], ChargePumpCurrents[f[2]], TRUE)
         /\ FilterPasses(rd, vd, f, FALSE) <=>
              LoopPasses(rd, vd, LoopFilterResistors[f[1]], ChargePumpCurrents[f[2]], FALSE)
  <1> DEFINE Rs == LoopFilterResistors[f[1]]
             icpnum == ChargePumpCurrents[f[2]]
  <1>1. FilterPasses(rd, vd, f, TRUE) <=> LoopPasses(rd, vd, Rs, icpnum, TRUE)
    BY SMT DEF FilterPasses, LoopPasses
  <1>2. FilterPasses(rd, vd, f, FALSE) <=> LoopPasses(rd, vd, Rs, icpnum, FALSE)
    BY SMT DEF FilterPasses, LoopPasses
  <1> QED BY <1>1, <1>2

\* A loop filter that passes surely passes ...
LEMMA SureFiltersPass ==
  ASSUME NEW rd, NEW vd
  PROVE  PassingFilters(rd, vd, TRUE) \subseteq PassingFilters(rd, vd, FALSE)
  <1>1. ASSUME NEW f, FilterPasses(rd, vd, f, TRUE)
        PROVE  FilterPasses(rd, vd, f, FALSE)
    BY <1>1, FilterLoop, SureLoopPasses, Zenon
  <1> QED BY <1>1, Zenon DEF PassingFilters

\* ... and so does a pair of dividers.
LEMMA SurePairsPass ==
  ASSUME NEW rd, NEW p, NEW pair \in PassingPairs(rd, TriedOutputDividers, p, TRUE)
  PROVE  \E also \in PassingPairs(rd, TriedOutputDividers, p, FALSE) :
            also[1] = pair[1] /\ also[2] = pair[2]
  <1>1. pair[1] \in TriedOutputDividers /\ Passes(rd, pair[1], pair[2], p, TRUE)
    BY PairsPass
  <1>2. ErrorPasses(request.num * rd * pair[1], pair[2], p, FALSE)
    BY <1>1 DEF Passes, ErrorPasses
  <1>3. PassingFilters(rd, pair[2], FALSE) # {}
    BY <1>1, SureFiltersPass DEF Passes
  <1>4. Passes(rd, pair[1], pair[2], p, FALSE)
    BY <1>1, <1>2, <1>3 DEF Passes
  <1>5. << pair[1], pair[2] >> \in PassingPairs(rd, TriedOutputDividers, p, FALSE)
    BY <1>1, <1>4, PairsPass
  <1> QED BY <1>5

\* Of the pairs that pass surely there is one that is tried before the others.
LEMMA FirstSurePair ==
  ASSUME NEW rd, NEW p, PassingPairs(rd, TriedOutputDividers, p, TRUE) # {}
  PROVE  \E pair \in PassingPairs(rd, TriedOutputDividers, p, TRUE) :
            \A other \in PassingPairs(rd, TriedOutputDividers, p, TRUE) :
               ~PairPrecedes(other, pair)
  <1> DEFINE sure == PassingPairs(rd, TriedOutputDividers, p, TRUE)
             P == {<< 8232 - a[1], a[2] >> : a \in sure}
  <1>1. ASSUME NEW a \in sure
        PROVE  a[1] \in Nat /\ a[1] <= 8232 /\ a[2] \in Nat
    <2>1. a[1] \in TriedOutputDividers /\ Passes(rd, a[1], a[2], p, TRUE)
      BY PairsPass
    <2>2. a[1] \in Int
      BY <2>1, TriedAreNumbers
    <2>3. 2 <= a[1] /\ a[1] <= 8232
      BY <2>1, <2>2, Tried
    <2>4. a[2] \in Nat
      BY <2>1 DEF Passes, VCODividersTried, min_V
    <2> QED BY <2>2, <2>3, <2>4
  <1> HIDE DEF sure
  <1>2. P \subseteq Nat \X Nat
    BY <1>1
  <1>3. P # {}
    <2>1. PICK a : a \in sure
      BY Zenon DEF sure
    <2>2. << 8232 - a[1], a[2] >> \in P
      BY <2>1
    <2> HIDE DEF P
    <2> QED BY <2>2
  <1>4. PICK first \in P : \A b \in P :
           ~ (b[1] < first[1] \/ (b[1] = first[1] /\ b[2] < first[2]))
    <2> HIDE DEF P
    <2> QED BY <1>2, <1>3, FirstOfPairs
  <1>5. PICK a \in sure : first = << 8232 - a[1], a[2] >>
    BY <1>4
  <1>6. ASSUME NEW other \in sure
        PROVE  ~PairPrecedes(other, a)
    <2>1. << 8232 - other[1], other[2] >> \in P
      OBVIOUS
    <2> DEFINE b == << 8232 - other[1], other[2] >>
    <2>3. b[1] = 8232 - other[1] /\ b[2] = other[2]
      OBVIOUS
    <2>4. first[1] = 8232 - a[1] /\ first[2] = a[2]
      BY <1>5
    <2> HIDE DEF b, P
    <2>5. ~ (b[1] < first[1] \/ (b[1] = first[1] /\ b[2] < first[2]))
      BY <1>4, <2>1 DEF b
    <2>2. ~ \/ 8232 - other[1] < 8232 - a[1]
            \/ 8232 - other[1] = 8232 - a[1] /\ other[2] < a[2]
      BY <2>3, <2>4, <2>5
    <2> QED BY <1>1, <2>2 DEF PairPrecedes
  <1> HIDE DEF P
  <1>7. \E pair \in sure : \A other \in sure : ~PairPrecedes(other, pair)
    BY <1>6, Zenon
  <1> QED BY <1>7, Zenon DEF sure

\* Where something passes surely the search can finish: of the pairs and of the
\* loop filters that pass it has one that no sure one precedes.
CanFinish ==
  \E pair \in PassingPairs(r, TriedOutputDividers, ppm, FALSE) :
     /\ \A other \in PassingPairs(r, TriedOutputDividers, ppm, TRUE) :
           ~PairPrecedes(other, pair)
     /\ \E f \in PassingFilters(r, pair[2], FALSE) :
           \A g \in PassingFilters(r, pair[2], TRUE) : ~FilterPrecedes(g, f)

\* It is found among the finitely many that are tried.
LEMMA SomethingIsFound == ~NothingPasses => CanFinish
  <1> SUFFICES ASSUME ~NothingPasses PROVE CanFinish
    OBVIOUS
  <1>0. PassingPairs(r, TriedOutputDividers, ppm, TRUE) # {}
    BY Zenon DEF NothingPasses
  <1>1. PICK pair \in PassingPairs(r, TriedOutputDividers, ppm, TRUE) :
           \A other \in PassingPairs(r, TriedOutputDividers, ppm, TRUE) :
              ~PairPrecedes(other, pair)
    BY <1>0, FirstSurePair, Zenon
  <1>2. PICK also \in PassingPairs(r, TriedOutputDividers, ppm, FALSE) :
           also[1] = pair[1] /\ also[2] = pair[2]
    BY SurePairsPass
  <1>3. \A other \in PassingPairs(r, TriedOutputDividers, ppm, TRUE) :
           ~PairPrecedes(other, also)
    BY <1>1, <1>2 DEF PairPrecedes
  <1> DEFINE F == PassingFilters(r, also[2], TRUE)
  <1>4. F # {}
    BY <1>1, <1>2, PairsPass DEF Passes
  <1>5. F \subseteq Nat \X Nat
    <2>1. F \subseteq Filters
      BY Zenon DEF PassingFilters
    <2>2. \A m, n : (1..m) \X (1..n) \subseteq Nat \X Nat
      OBVIOUS
    <2>3. Filters \subseteq Nat \X Nat
      BY <2>2, Zenon DEF Filters
    <2> HIDE DEF F
    <2> QED BY <2>1, <2>3
  <1>6. F \subseteq PassingFilters(r, also[2], FALSE)
    BY SureFiltersPass
  <1> HIDE DEF F
  <1>7. PICK f \in F : \A g \in F : ~ (g[1] < f[1] \/ (g[1] = f[1] /\ g[2] < f[2]))
    BY <1>4, <1>5, FirstOfPairs
  <1>8. \A g \in F : ~FilterPrecedes(g, f)
    BY <1>7 DEF FilterPrecedes
  <1> QED BY <1>2, <1>3, <1>6, <1>7, <1>8 DEF CanFinish, F

\* While it searches, one of the four steps of the search can be taken: it never
\* stands still before it has an answer (the guards are those of Finish,
\* NextReference, IncreasePpm and GiveUp).
SearchGoesOn ==
  pc = "search" =>
     \/ CanFinish
     \/ NothingPasses /\ r < maxR
     \/ NothingPasses /\ r = maxR /\ ppm < request.ppm
     \/ NothingPasses /\ r = maxR /\ ppm = request.ppm

\* Every step returns or leaves fewer attempts, and what was asked for stays.
SearchAdvances ==
  [][/\ pc # "returned" /\ request' = request
     /\ pc = "called" => pc' \in {"search", "returned"}
     /\ pc = "search" => \/ pc' = "returned"
                         \/ pc' = "search" /\ Remaining' < Remaining]_vars

\* The number of attempts is a natural number, less than that of all of them.
LEMMA AttemptsAreBounded ==
  ASSUME SearchInv, pc = "search"
  PROVE  Remaining \in Nat /\ Remaining < AllAttempts
  <1>1. /\ maxR \in Nat /\ request.ppm \in Nat
        /\ ppm \in Nat /\ ppm <= request.ppm /\ r \in Nat /\ 1 <= r /\ r <= maxR
    BY MaxRAssumption, RequestsAssumption DEF SearchInv, TypeOK
  <1> DEFINE p == request.ppm
             d == p - ppm
  <1>2. d \in Nat /\ p \in Nat /\ p - d \in Nat
    BY <1>1
  <1>3. d * maxR \in Nat /\ (p - d) * maxR \in Nat /\ p * maxR \in Nat
    BY <1>1, <1>2
  <1>4. p * maxR = d * maxR + (p - d) * maxR
    BY <1>1, <1>2
  <1>5. (p + 1) * maxR = p * maxR + maxR
    BY <1>1, <1>2
  <1>6. Remaining = d * maxR + (maxR - r) /\ AllAttempts = (p + 1) * maxR
    BY DEF Remaining, AllAttempts
  <1> HIDE DEF p, d
  <1> QED BY <1>1, <1>3, <1>4, <1>5, <1>6

\* An attempt with the next reference divider, or with one more ppm, is one less.
LEMMA AttemptsGetFewer ==
  ASSUME SearchInv, NextReference \/ IncreasePpm
  PROVE  Remaining' < Remaining
  <1>1. /\ maxR \in Nat \ {0} /\ request.ppm \in Nat
        /\ ppm \in Nat /\ r \in Nat
    BY MaxRAssumption, RequestsAssumption DEF SearchInv, TypeOK
  <1>2. CASE NextReference
    <2> DEFINE d == request.ppm - ppm
    <2>1. d * maxR \in Int
      BY <1>1
    <2>2. Remaining = d * maxR + (maxR - r) /\ Remaining' = d * maxR + (maxR - (r + 1))
      BY <1>2 DEF NextReference, Remaining
    <2> HIDE DEF d
    <2> QED BY <1>1, <2>1, <2>2
  <1>3. CASE IncreasePpm
    <2> DEFINE d == request.ppm - ppm
    <2>1. d \in Int /\ request.ppm - (ppm + 1) = d - 1
      BY <1>1
    <2>2. d * maxR \in Int /\ (d - 1) * maxR = d * maxR - maxR
      BY <1>1, <2>1
    <2>3. Remaining = d * maxR + (maxR - maxR)
      BY <1>3 DEF IncreasePpm, Remaining
    <2>4. Remaining' = (request.ppm - (ppm + 1)) * maxR + (maxR - 1)
      BY <1>3 DEF IncreasePpm, Remaining
    <2> HIDE DEF d
    <2> QED BY <1>1, <2>1, <2>2, <2>3, <2>4
  <1> QED BY <1>2, <1>3

\* calculate_clock_bits comes back with an answer, whatever the request: its gotos
\* into the search make no cycle, as long as something is left the search goes on,
\* and what is left is bounded at the beginning and gets less with every step.
THEOREM SearchEnds ==
  Spec => /\ []SearchGoesOn
          /\ [](pc = "search" => Remaining \in Nat /\ Remaining < AllAttempts)
          /\ SearchAdvances
  <1>1. SearchInv => SearchGoesOn
    <2> SUFFICES ASSUME SearchInv, pc = "search" PROVE SearchGoesOn
      BY DEF SearchGoesOn
    <2>1. /\ r \in Nat /\ r <= maxR /\ maxR \in Nat
          /\ ppm \in Nat /\ ppm <= request.ppm /\ request.ppm \in Nat
      BY MaxRAssumption, RequestsAssumption DEF SearchInv, TypeOK
    <2>2. (r < maxR \/ r = maxR) /\ (ppm < request.ppm \/ ppm = request.ppm)
      BY <2>1
    <2> QED BY <2>2, SomethingIsFound DEF SearchGoesOn
  <1>2. SearchInv => (pc = "search" => Remaining \in Nat /\ Remaining < AllAttempts)
    BY AttemptsAreBounded
  <1>3. SearchInv /\ [Next]_vars =>
          [/\ pc # "returned" /\ request' = request
           /\ pc = "called" => pc' \in {"search", "returned"}
           /\ pc = "search" => \/ pc' = "returned"
                               \/ pc' = "search" /\ Remaining' < Remaining]_vars
    <2> SUFFICES ASSUME SearchInv, Next
                 PROVE  /\ pc # "returned" /\ request' = request
                        /\ pc = "called" => pc' \in {"search", "returned"}
                        /\ pc = "search" => \/ pc' = "returned"
                                            \/ pc' = "search" /\ Remaining' < Remaining
      OBVIOUS
    <2>1. CASE NextReference \/ IncreasePpm
      <3>1. Remaining' < Remaining
        BY <2>1, AttemptsGetFewer
      <3> QED BY <2>1, <3>1 DEF NextReference, IncreasePpm
    <2>2. CASE Refuse \/ Begin \/ Finish \/ GiveUp
      BY <2>2 DEF Refuse, Begin, Finish, GiveUp
    <2> QED BY <2>1, <2>2 DEF Next
  <1> QED BY <1>1, <1>2, <1>3, SearchHolds, PTL DEF Spec, SearchAdvances
=============================================================================
