--------------------------- MODULE MCSynccomClock ---------------------------
(* SynccomClock for TLC: the requests.                                     *)
EXTENDS SynccomClock

Request(n, d, p) == [num |-> n, den |-> d, ppm |-> p]

\* 10 MHz, 18.432 MHz, 15.36 kHz, 200 MHz and 270 MHz have exact
\* solutions; 214.474752 MHz has one within 7 ppm and none within 6, 61.289472
\* MHz one within 1; 10 kHz and 280 MHz are out of range.
SomeRequests ==
  {Request(5, 12, 10), Request(96, 125, 10), Request(2, 3125, 1),
   Request(25, 3, 1), Request(45, 4, 1),
   Request(139632, 15625, 10), Request(139632, 15625, 6),
   Request(39902, 15625, 10), Request(1, 2400, 10), Request(35, 3, 10)}

\* docs/clock-frequency.md:29: the word for 10 MHz, byte 0 first.  ReadWord, the
\* generator's side, is checked against it.
DocumentedBytes == << 1, 160, 4, 0, 0, 0, 0, 0, 0, 0, 0, 154, 74, 65, 1, 132, 1, 255, 255, 255 >>
DocumentedWord == UNION {Bits(DocumentedBytes[i + 1], 8 * i, 8) : i \in 0..19}

ASSUME TablesMatchDocs ==
  LET s == ReadWord(DocumentedWord)
  IN  10 * s.rd * s.od = 24 * s.vd
=============================================================================
