---------------------------- MODULE SynccomClock ----------------------------
(***************************************************************************)
(* calculate_clock_bits (lib/raw/calculate-clock-bits.c): the search for   *)
(* dividers and a loop filter that make the clock generator of the card    *)
(* run at a requested frequency, and the word that programs them, which    *)
(* the caller hands to SYNCCOM_SET_CLOCK_BITS.                             *)
(*                                                                         *)
(* A frequency is a fraction num / den of the 24 MHz input.  The program   *)
(* computes in doubles.  Where two sides of a comparison are equal, or so  *)
(* near that rounding can decide, the outcome here is either: a candidate  *)
(* passes surely, possibly or not at all.  The product of the error and    *)
(* the frequency is one of 64 bits.  One step of the search is one         *)
(* reference divider.                                                      *)
(***************************************************************************)
EXTENDS ClockWord, Sequences

CONSTANTS
  Requests,   \* what is asked for: [num, den, ppm]
  maxR,       \* the largest reference divider; 1200 for an input of 24 MHz
  NoWord      \* progbytes is not written

ASSUME RequestsAssumption ==
  Requests \subseteq [num : Nat \ {0}, den : Nat \ {0}, ppm : 0..999]
ASSUME MaxRAssumption == maxR \in Nat \ {0}

VARIABLES
  request,    \* the arguments of calculate_clock_bits
  pc,         \* "called", "search" or "returned"
  ppm,        \* the error allowed at present
  r,          \* the reference divider tried at present
  outcome,    \* what GetICS30703Data returned
  word        \* progbytes

vars == << request, pc, ppm, r, outcome, word >>

-----------------------------------------------------------------------------
(* What passes                                                             *)

min_V == 12
max_V == 2055

MutSkippedOutputDividers ==
  {od \in 2..2060 : od % 2 = 0} \cup {od \in 2061..4120 : od % 4 = 0}
    \cup {od \in 4121..8232 : od % 8 = 0}

\* od: from 8232 down to 2, by 8, by 4, by 2 and at last by 1.
TriedOutputDividers ==
  (2..1030) \cup {od \in 1031..2060 : od % 2 = 0}
    \cup {od \in 2061..4120 : od % 4 = 0} \cup {od \in 4121..8232 : od % 8 = 0}

\* rule1: the highest VCO frequency for an output divider, in MHz.
MaxVCO(od) ==
  CASE od = 2 -> 540 [] od = 3 -> 720 [] od \in 38..1029 -> 570 [] OTHER -> 730

VCOAllowed(rd, vd, od) == 90 * rd <= 24 * vd /\ 24 * vd <= MaxVCO(od) * rd

\* rule2: between 20 kHz and 100 MHz at the phase detector.
ReferenceAllowed(rd) == 20 * rd <= 24000 /\ 24000 <= 100000 * rd

Million == 1000000

\* p millionths of wanted, rounded down.
Allowance(wanted, p) ==
  p * (wanted \div Million) + (p * (wanted % Million)) \div Million

\* And the millionths that rounding cuts off.
CutOff(wanted, p) == (p * (wanted % Million)) % Million

\* By how many millionths freq_err can be off: freq is a quotient of products of
\* doubles, exact but for some 3 of 10^16.
Slack(wanted) == wanted \div (1000 * Million) + 1

\* |freq - desired| <= allowable_error, multiplied with den * rd * od / 24 MHz.
ErrorPasses(wanted, vd, p, surely) ==
  LET error == IF request.den * vd >= wanted
               THEN request.den * vd - wanted ELSE wanted - request.den * vd
  IN  \/ error < Allowance(wanted, p)
      \/ /\ error = Allowance(wanted, p)
         /\ surely => CutOff(wanted, p) > Slack(wanted)
      \/ /\ error = Allowance(wanted, p) + 1
         /\ ~surely
         /\ CutOff(wanted, p) + Slack(wanted) >= Million

\* The VCO dividers from V_Divstart, just below the target, up to the last that
\* can pass.
VCODividersTried(wanted, p) ==
  LET start == (wanted - Allowance(wanted, p) - 1) \div request.den
      last == (wanted + Allowance(wanted, p) + 1) \div request.den
  IN  {vd \in start..last : min_V <= vd /\ vd <= max_V}

\* The phase detector's frequency over the loop's bandwidth, in tenths:
\* 24 MHz / rd over Rs * icp * 310e6 / (2 * 3.14159 * vd), rounded up.  That is
\* 15079632 * vd over 31 * rd * Rs * icpnum, which is never a whole number, and
\* 15079632 = 31 * 486439 + 23.
RatioTenths(rd, vd, Rs, icpnum) ==
  (486439 * vd + (23 * vd) \div 31) \div (rd * Rs * icpnum) + 1

\* The square of the damping factor Rs / 2 * sqrt(icp * 0.093 / vd), times
\* 25000 * vd: it is from 0.2 to 2.
Damping(Rs, icpnum) == (Rs \div 4) * (Rs \div 4) * icpnum * 93

FilterPasses(rd, vd, filter, surely) ==
  LET Rs == LoopFilterResistors[filter[1]]
      icpnum == ChargePumpCurrents[filter[2]]
      limits == {1000 * vd, 100000 * vd}
  IN  /\ RatioTenths(rd, vd, Rs, icpnum) \in 70..300
      /\ 1000 * vd <= Damping(Rs, icpnum) /\ Damping(Rs, icpnum) <= 100000 * vd
      /\ ~(surely /\ Damping(Rs, icpnum) \in limits)

Filters == (1..Len(LoopFilterResistors)) \X (1..Len(ChargePumpCurrents))

\* The loop filters that pass, and which of two is tried first.
PassingFilters(rd, vd, surely) ==
  {f \in Filters : FilterPasses(rd, vd, f, surely)}

FilterPrecedes(f, g) == f[1] < g[1] \/ (f[1] = g[1] /\ f[2] < g[2])

\* Of two pairs of output and VCO divider the one with the larger output
\* divider is tried first.
PairPrecedes(a, b) == a[1] > b[1] \/ (a[1] = b[1] /\ a[2] < b[2])

\* The pairs that pass with reference divider rd and some loop filter.  Output
\* dividers for which the VCO would be below 24 MHz or above 1464 MHz, far from
\* what rule1 allows, are not computed with.
PassingPairs(rd, dividers, p, surely) ==
  LET wanted(od) == request.num * rd * od
      inReach == {od \in dividers : /\ request.den \div request.num <= od
                                    /\ od <= (61 * request.den) \div request.num}
      passing(od) == {vd \in VCODividersTried(wanted(od), p) :
                        /\ VCOAllowed(rd, vd, od)
                        /\ ErrorPasses(wanted(od), vd, p, surely)
                        /\ PassingFilters(rd, vd, surely) # {}}
  IN  IF ReferenceAllowed(rd)
      THEN UNION {{od} \X passing(od) : od \in inReach}
      ELSE {}

-----------------------------------------------------------------------------
Init ==
  /\ request \in Requests
  /\ pc = "called"
  /\ ppm = 0
  /\ r = 0
  /\ outcome = 0
  /\ word = NoWord

\* Below 15 kHz or above 270 MHz.
OutOfRange == 1600 * request.num < request.den \/ 4 * request.num > 45 * request.den

Refuse ==
  /\ pc = "called"
  /\ OutOfRange
  /\ outcome' = 1
  /\ pc' = "returned"
  /\ UNCHANGED << request, ppm, r, word >>

Begin ==
  /\ pc = "called"
  /\ ~OutOfRange
  /\ r' = 1
  /\ pc' = "search"
  /\ UNCHANGED << request, ppm, outcome, word >>

\* goto finished, at the first pair and the first loop filter that pass: both
\* may be ones that pass only possibly, but not behind one that does surely.
\* calculate_clock_bits copies the word if there was no error.
Finish ==
  /\ pc = "search"
  /\ LET sure == PassingPairs(r, TriedOutputDividers, ppm, TRUE)
     IN  \E pair \in PassingPairs(r, TriedOutputDividers, ppm, FALSE) :
           /\ \A other \in sure : ~PairPrecedes(other, pair)
           /\ \E f \in PassingFilters(r, pair[2], FALSE) :
                /\ \A g \in PassingFilters(r, pair[2], TRUE) : ~FilterPrecedes(g, f)
                /\ LET solution == [rd |-> r, od |-> pair[1], vd |-> pair[2],
                                    Rs |-> LoopFilterResistors[f[1]],
                                    icpnum |-> ChargePumpCurrents[f[2]]]
                   IN  /\ outcome' = EncodeError(solution)
                       /\ word' = IF outcome' = 0 THEN EncodedWord(solution)
                                                  ELSE NoWord
  /\ pc' = "returned"
  /\ UNCHANGED << request, ppm, r >>

NothingPasses == PassingPairs(r, TriedOutputDividers, ppm, TRUE) = {}

NextReference ==
  /\ pc = "search"
  /\ r < maxR
  /\ NothingPasses
  /\ r' = r + 1
  /\ UNCHANGED << request, pc, ppm, outcome, word >>

\* goto increaseppm
IncreasePpm ==
  /\ pc = "search"
  /\ r = maxR
  /\ NothingPasses
  /\ ppm < request.ppm
  /\ ppm' = ppm + 1
  /\ r' = 1
  /\ UNCHANGED << request, pc, outcome, word >>

GiveUp ==
  /\ pc = "search"
  /\ r = maxR
  /\ NothingPasses
  /\ ppm = request.ppm
  /\ outcome' = 2
  /\ pc' = "returned"
  /\ UNCHANGED << request, ppm, r, word >>

Next == Refuse \/ Begin \/ Finish \/ NextReference \/ IncreasePpm \/ GiveUp

Spec == Init /\ [][Next]_vars

-----------------------------------------------------------------------------
(* Properties                                                              *)

\* Every variable has its type; in particular the search never comes up with a
\* value that has no place in one of the tables (the errors 3 to 7).
TypeOK ==
  /\ request \in Requests
  /\ pc \in {"called", "search", "returned"}
  /\ ppm \in 0..request.ppm
  /\ r \in 0..maxR
  /\ outcome \in 0..2
  /\ word = NoWord \/ word \subseteq 0..159

Returned(code) == pc = "returned" /\ outcome = code

\* What the generator reads from the word, after synccom_port_set_clock_bits
\* has set its bit, makes the frequency that was asked for, within the error
\* that was asked for and the limits of its VCO: the five tables, the order in
\* which they share bytes, and the search agree.
WordMeetsRequest ==
  Returned(0) =>
     LET s == ReadWord(LoadedWord(word))
     IN  /\ s.rd \in 1..maxR /\ s.vd \in VCODividers /\ s.od \in OutputDividers
         /\ ErrorPasses(request.num * s.rd * s.od, s.vd, request.ppm, FALSE)
         /\ VCOAllowed(s.rd, s.vd, s.od)
         /\ \E f \in PassingFilters(s.rd, s.vd, FALSE) :
              << LoopFilterResistors[f[1]], ChargePumpCurrents[f[2]] >> = << s.Rs, s.icpnum >>

\* Every output divider that Table 5 can express.
ExpressibleOutputDividers ==
  (2..37) \cup {m * 2^z : m \in 6..1029, z \in 0..3}

\* "no solutions found" is true: the output dividers the search steps over are
\* none that could have helped; and where it stops, no whole ppm less would have
\* done, and no smaller reference divider ("2nd key lowest reference
\* divide", the comment at line 458).  With an
\* allowance of 0 nothing passes surely.
NothingMissed ==
  LET none(rd, p) == PassingPairs(rd, ExpressibleOutputDividers, p, TRUE) = {}
  IN  /\ Returned(2) => \A rd \in 1..maxR : none(rd, request.ppm)
      /\ Returned(0) /\ ppm > 0 =>
           /\ \A smaller \in 1..(ReadInputDivider(word) - 1) : none(smaller, ppm)
           /\ ppm > 1 => \A rd \in 1..maxR : none(rd, ppm - 1)
=============================================================================
