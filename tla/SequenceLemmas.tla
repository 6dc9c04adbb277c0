--------------------------- MODULE SequenceLemmas ---------------------------
(***************************************************************************)
(* Induction over the natural numbers, and what it yields for the folds of *)
(* the models.                                                             *)
(*                                                                         *)
(* Induction is stated about a set of numbers: the members of a set that   *)
(* fail would have a least one, because < is well founded.                 *)
(***************************************************************************)
EXTENDS SequencesExt, SequenceTheorems, WellFoundedInduction, TLAPS

\* A set of natural numbers has a least one.
LEMMA LeastNumber ==
  ASSUME NEW T, T \subseteq Nat, T # {}
  PROVE  \E least \in T : \A n \in T : least <= n
  <1> DEFINE Less == OpToRel(<, Nat)
  <1>1. PICK least \in T : \A n \in T : ~ (<<n, least>> \in Less)
    <2> HIDE DEF Less
    <2>1. IsWellFoundedOn(Less, Nat)
      BY NatLessThanWellFounded DEF Less
    <2> QED BY <2>1, WFMin
  <1>2. \A n, m \in Nat : n < m => <<n, m>> \in Less
    BY DEF OpToRel
  <1>3. \A n \in T : n \in Nat /\ least \in Nat /\ ~ (n < least)
    BY <1>1, <1>2
  <1>4. \A n \in T : least <= n
    BY <1>3
  <1> QED BY <1>1, <1>4

\* A set that has zero and every successor has every natural number.
LEMMA Induction ==
  ASSUME NEW S, 0 \in S, \A n \in Nat : n \in S => n + 1 \in S
  PROVE  \A n \in Nat : n \in S
  <1> DEFINE T == {n \in Nat : n \notin S}
  <1> SUFFICES ASSUME T # {} PROVE FALSE
    OBVIOUS
  <1>1. PICK least \in T : \A n \in T : least <= n
    <2>1. T \subseteq Nat
      OBVIOUS
    <2> HIDE DEF T
    <2> QED BY <2>1, LeastNumber
  <1>2. least \in Nat /\ least \notin S /\ least # 0
    BY <1>1
  <1>3. least - 1 \in Nat /\ ~ (least <= least - 1) /\ (least - 1) + 1 = least
    BY <1>2
  <1>4. least - 1 \in S
    BY <1>1, <1>3
  <1> QED BY <1>2, <1>3, <1>4

\* Every set of positions of a list has a last one.
LEMMA LastPosition ==
  ASSUME NEW n \in Nat, NEW s \in SUBSET (1..n), s # {}
  PROVE  Max(s) \in s /\ \A i \in s : i <= Max(s)
  <1> DEFINE S == {k \in Nat : \A t \in SUBSET (1..k) :
                      t # {} => \E m \in t : \A i \in t : m >= i}
  <1>1. 0 \in S
    <2>1. 1..0 = {}
      OBVIOUS
    <2> QED BY <2>1
  <1>2. ASSUME NEW k \in Nat, k \in S
        PROVE  k + 1 \in S
    <2>1. ASSUME NEW t \in SUBSET (1..(k + 1)), t # {}
          PROVE  \E m \in t : \A i \in t : m >= i
      <3>1. CASE k + 1 \in t
        BY <1>2, <3>1
      <3>2. CASE k + 1 \notin t
        <4>1. t \in SUBSET (1..k)
          BY <3>2
        <4> QED BY <1>2, <2>1, <4>1
      <3> QED BY <3>1, <3>2
    <2> QED BY <1>2, <2>1
  <1> HIDE DEF S
  <1>3. n \in S
    BY <1>1, <1>2, Induction
  <1>4. \E m \in s : \A i \in s : m >= i
    BY <1>3 DEF S
  <1>5. Max(s) \in s /\ \A i \in s : Max(s) >= i
    BY <1>4 DEF Max
  <1> QED BY <1>5

-----------------------------------------------------------------------------
(* Sequences of sequences, one behind the other                            *)

\* The recursion of FlattenSeq: f[i] is what the first i of them make.
Flattens(f, seqs, n) ==
  f = [i \in 1..n |-> IF i = 1 THEN seqs[i] ELSE f[i - 1] \o seqs[i]]

\* There is such a function.
LEMMA FlattensExists ==
  ASSUME NEW seqs, NEW n \in Nat
  PROVE  \E f : Flattens(f, seqs, n)
  <1> DEFINE S == {k \in Nat : \E f : Flattens(f, seqs, k)}
  <1>1. 0 \in S
    <2>1. Flattens([i \in 1..0 |-> 0], seqs, 0)
      BY DEF Flattens
    <2> QED BY <2>1
  <1>2. ASSUME NEW k \in Nat, k \in S
        PROVE  k + 1 \in S
    <2>1. PICK f : Flattens(f, seqs, k)
      BY <1>2
    <2> DEFINE last == IF k = 0 THEN seqs[k + 1] ELSE f[k] \o seqs[k + 1]
               next == [i \in 1..(k + 1) |-> IF i = k + 1 THEN last ELSE f[i]]
    <2>2. ASSUME NEW i \in 1..(k + 1)
          PROVE  next[i] = IF i = 1 THEN seqs[i] ELSE next[i - 1] \o seqs[i]
      <3>1. CASE i = k + 1
        <4>1. next[i] = last
          BY <3>1
        <4>2. i # 1 => next[i - 1] = f[k]
          BY <3>1
        <4> HIDE DEF next
        <4> QED BY <3>1, <4>1, <4>2
      <3>2. CASE i # k + 1
        <4>1. i \in 1..k
          BY <3>2
        <4>2. next[i] = f[i] /\ (i # 1 => next[i - 1] = f[i - 1])
          BY <4>1
        <4>3. f[i] = IF i = 1 THEN seqs[i] ELSE f[i - 1] \o seqs[i]
          BY <2>1, <4>1 DEF Flattens
        <4> HIDE DEF next
        <4> QED BY <4>2, <4>3
      <3> QED BY <3>1, <3>2
    <2>3. Flattens(next, seqs, k + 1)
      <3>1. next = [i \in 1..(k + 1) |-> next[i]]
        OBVIOUS
      <3> HIDE DEF next
      <3> QED BY <2>2, <3>1 DEF Flattens
    <2> HIDE DEF next
    <2> QED BY <2>3
  <1> HIDE DEF S
  <1>3. n \in S
    BY <1>1, <1>2, Induction
  <1> QED BY <1>3 DEF S

\* FlattenSeq is what its recursion makes of all of them.
LEMMA FlattenUnfolds ==
  ASSUME NEW seqs, Len(seqs) \in Nat
  PROVE  /\ Len(seqs) = 0 => FlattenSeq(seqs) = seqs
         /\ Len(seqs) # 0 =>
              \E f : Flattens(f, seqs, Len(seqs)) /\ FlattenSeq(seqs) = f[Len(seqs)]
  <1>1. Len(seqs) = 0 => FlattenSeq(seqs) = seqs
    BY DEF FlattenSeq
  <1>2. ASSUME Len(seqs) # 0
        PROVE  \E f : Flattens(f, seqs, Len(seqs)) /\ FlattenSeq(seqs) = f[Len(seqs)]
    <2> DEFINE f == CHOOSE f : Flattens(f, seqs, Len(seqs))
    <2>1. Flattens(f, seqs, Len(seqs))
      BY FlattensExists
    <2>2. FlattenSeq(seqs) = f[Len(seqs)]
      BY <1>2, Zenon DEF FlattenSeq, Flattens
    <2> QED BY <2>1, <2>2
  <1> QED BY <1>1, <1>2

\* Another sequence goes behind.
LEMMA FlattenAppend ==
  ASSUME NEW S, NEW seqs \in Seq(Seq(S)), NEW seq \in Seq(S)
  PROVE  FlattenSeq(Append(seqs, seq)) = FlattenSeq(seqs) \o seq
  <1> DEFINE n == Len(seqs)
             longer == Append(seqs, seq)
  <1>1. /\ n \in Nat
        /\ longer \in Seq(Seq(S)) /\ Len(longer) = n + 1
        /\ \A i \in 1..n : longer[i] = seqs[i]
        /\ longer[n + 1] = seq
    BY AppendProperties, LenProperties
  <1> HIDE DEF longer
  <1>2. PICK g : Flattens(g, longer, n + 1) /\ FlattenSeq(longer) = g[n + 1]
    <2>1. Len(longer) \in Nat /\ Len(longer) # 0
      BY <1>1
    <2> QED BY <1>1, <2>1, FlattenUnfolds
  <1>3. CASE n = 0
    <2>1. seqs = << >>
      BY <1>3, EmptySeq
    <2>2. FlattenSeq(seqs) = << >>
      BY <1>1, <1>3, <2>1, FlattenUnfolds
    <2>3. g[1] = seq
      BY <1>1, <1>2, <1>3 DEF Flattens
    <2>4. << >> \o seq = seq
      BY ConcatEmptySeq
    <2> QED BY <1>2, <1>3, <2>2, <2>3, <2>4 DEF longer
  <1>4. CASE n # 0
    <2>1. PICK f : Flattens(f, seqs, n) /\ FlattenSeq(seqs) = f[n]
      BY <1>1, <1>4, FlattenUnfolds
    <2> DEFINE T == {k \in Nat : k \in 1..n => g[k] = f[k]}
    <2>2. 0 \in T
      OBVIOUS
    <2>3. ASSUME NEW k \in Nat, k \in T
          PROVE  k + 1 \in T
      <3> SUFFICES ASSUME k + 1 \in 1..n PROVE g[k + 1] = f[k + 1]
        OBVIOUS
      <3>1. k + 1 \in 1..(n + 1) /\ longer[k + 1] = seqs[k + 1] /\ (k + 1) - 1 = k
        BY <1>1
      <3>2. g[k + 1] = IF k + 1 = 1 THEN longer[k + 1] ELSE g[(k + 1) - 1] \o longer[k + 1]
        BY <1>2, <3>1 DEF Flattens
      <3>3. f[k + 1] = IF k + 1 = 1 THEN seqs[k + 1] ELSE f[(k + 1) - 1] \o seqs[k + 1]
        BY <2>1 DEF Flattens
      <3>4. k + 1 # 1 => g[k] = f[k]
        BY <1>1, <2>3
      <3> QED BY <3>1, <3>2, <3>3, <3>4
    <2> HIDE DEF T
    <2>4. n \in T
      BY <1>1, <2>2, <2>3, Induction
    <2>5. g[n] = f[n]
      BY <1>1, <1>4, <2>4 DEF T
    <2>6. n + 1 \in 1..(n + 1) /\ n + 1 # 1 /\ (n + 1) - 1 = n
      BY <1>1, <1>4
    <2>7. g[n + 1] = IF n + 1 = 1 THEN longer[n + 1] ELSE g[(n + 1) - 1] \o longer[n + 1]
      BY <1>2, <2>6 DEF Flattens
    <2> QED BY <1>1, <1>2, <2>1, <2>5, <2>6, <2>7 DEF longer
  <1> QED BY <1>3, <1>4

\* Nothing makes nothing, and one sequence itself.
LEMMA FlattenFew ==
  ASSUME NEW S, NEW seq \in Seq(S)
  PROVE  /\ FlattenSeq(<< >>) = << >>
         /\ FlattenSeq(<< seq >>) = seq
  <1>1. << >> \in Seq(Seq(S)) /\ Len(<< >>) = 0
    BY EmptySeq
  <1>2. FlattenSeq(<< >>) = << >>
    BY <1>1, FlattenUnfolds
  <1>3. Append(<< >>, seq) = << seq >>
    OBVIOUS
  <1>4. << >> \o seq = seq
    BY ConcatEmptySeq
  <1> QED BY <1>1, <1>2, <1>3, <1>4, FlattenAppend

\* What comes out is a sequence of the same elements.
LEMMA FlattenType ==
  ASSUME NEW S, NEW seqs \in Seq(Seq(S))
  PROVE  FlattenSeq(seqs) \in Seq(S)
  <1> DEFINE T == {k \in Nat : \A s \in Seq(Seq(S)) : Len(s) = k => FlattenSeq(s) \in Seq(S)}
  <1>1. 0 \in T
    <2>1. ASSUME NEW s \in Seq(Seq(S)), Len(s) = 0
          PROVE  FlattenSeq(s) \in Seq(S)
      <3>1. s = << >> /\ << >> \in Seq(S)
        BY <2>1, EmptySeq
      <3> QED BY <3>1, FlattenFew
    <2> QED BY <2>1
  <1>2. ASSUME NEW k \in Nat, k \in T
        PROVE  k + 1 \in T
    <2>1. ASSUME NEW s \in Seq(Seq(S)), Len(s) = k + 1
          PROVE  FlattenSeq(s) \in Seq(S)
      <3>1. s # << >>
        BY <2>1, EmptySeq
      <3>2. PICK front \in Seq(Seq(S)), last \in Seq(S) : s = Append(front, last)
        BY <3>1, SequenceEmptyOrAppend
      <3>3. Len(front) = k
        BY <2>1, <3>2, AppendProperties, LenProperties
      <3>4. FlattenSeq(front) \in Seq(S)
        BY <1>2, <3>3
      <3> QED BY <3>2, <3>4, FlattenAppend, ConcatProperties
    <2> QED BY <2>1
  <1> HIDE DEF T
  <1>3. \A k \in Nat : k \in T
    BY <1>1, <1>2, Induction
  <1>4. Len(seqs) \in T
    BY <1>3, LenProperties
  <1> QED BY <1>4 DEF T

\* Appending to what is behind appends to the whole.
LEMMA AppendBehind ==
  ASSUME NEW S, NEW s \in Seq(S), NEW t \in Seq(S), NEW e \in S
  PROVE  s \o Append(t, e) = Append(s \o t, e)
  <1>1. /\ Append(t, e) \in Seq(S) /\ s \o t \in Seq(S)
        /\ s \o Append(t, e) \in Seq(S) /\ Append(s \o t, e) \in Seq(S)
    BY AppendProperties, ConcatProperties
  <1>2. Len(s) \in Nat /\ Len(t) \in Nat
    BY LenProperties
  <1> DEFINE left == s \o Append(t, e)
             right == Append(s \o t, e)
  <1>3. /\ Len(Append(t, e)) = Len(t) + 1
        /\ \A i \in 1..Len(t) : Append(t, e)[i] = t[i]
        /\ Append(t, e)[Len(t) + 1] = e
    BY AppendProperties
  <1>4. /\ Len(s \o t) = Len(s) + Len(t)
        /\ \A i \in 1..(Len(s) + Len(t)) :
              (s \o t)[i] = IF i <= Len(s) THEN s[i] ELSE t[i - Len(s)]
    BY ConcatProperties
  <1>5. /\ Len(left) = Len(s) + (Len(t) + 1)
        /\ \A i \in 1..(Len(s) + (Len(t) + 1)) :
              left[i] = IF i <= Len(s) THEN s[i] ELSE Append(t, e)[i - Len(s)]
    BY <1>1, <1>3, ConcatProperties
  <1>6. /\ Len(right) = (Len(s) + Len(t)) + 1
        /\ \A i \in 1..(Len(s) + Len(t)) : right[i] = (s \o t)[i]
        /\ right[(Len(s) + Len(t)) + 1] = e
    BY <1>1, <1>4, AppendProperties
  <1>7. left \in Seq(S) /\ right \in Seq(S)
    BY <1>1
  <1> DEFINE longer == Append(t, e)
             both == s \o t
  <1>8. /\ \A i \in 1..Len(t) : longer[i] = t[i]
        /\ longer[Len(t) + 1] = e
        /\ \A i \in 1..(Len(s) + Len(t)) : both[i] = IF i <= Len(s) THEN s[i] ELSE t[i - Len(s)]
        /\ \A i \in 1..(Len(s) + (Len(t) + 1)) :
              left[i] = IF i <= Len(s) THEN s[i] ELSE longer[i - Len(s)]
        /\ \A i \in 1..(Len(s) + Len(t)) : right[i] = both[i]
    BY <1>3, <1>4, <1>5, <1>6
  <1> HIDE DEF left, right, longer, both
  <1>9. ASSUME NEW i \in 1..Len(left)
        PROVE  left[i] = right[i]
    <2>1. CASE i = (Len(s) + Len(t)) + 1
      <3>1. ~(i <= Len(s)) /\ i - Len(s) = Len(t) + 1 /\ i \in 1..(Len(s) + (Len(t) + 1))
        BY <1>2, <2>1
      <3> QED BY <1>6, <1>8, <2>1, <3>1
    <2>2. CASE i # (Len(s) + Len(t)) + 1
      <3>1. i \in 1..(Len(s) + Len(t)) /\ i \in 1..(Len(s) + (Len(t) + 1))
        BY <1>2, <1>5, <2>2
      <3>2. ~(i <= Len(s)) => i - Len(s) \in 1..Len(t)
        BY <1>2, <3>1
      <3> QED BY <1>8, <3>1, <3>2
    <2> QED BY <2>1, <2>2
  <1>10. Len(left) = Len(right)
    BY <1>2, <1>5, <1>6
  <1>11. left = right
    BY <1>7, <1>9, <1>10, SeqEqual
  <1> QED BY <1>11 DEF left, right

\* Two lots of sequences, one behind the other.
LEMMA FlattenConcat ==
  ASSUME NEW S, NEW seqs \in Seq(Seq(S)), NEW more \in Seq(Seq(S))
  PROVE  FlattenSeq(seqs \o more) = FlattenSeq(seqs) \o FlattenSeq(more)
  <1> DEFINE T == {k \in Nat : \A s \in Seq(Seq(S)) : Len(s) = k =>
                      FlattenSeq(seqs \o s) = FlattenSeq(seqs) \o FlattenSeq(s)}
  <1>0. FlattenSeq(seqs) \in Seq(S)
    BY FlattenType
  <1>1. 0 \in T
    <2>1. ASSUME NEW s \in Seq(Seq(S)), Len(s) = 0
          PROVE  FlattenSeq(seqs \o s) = FlattenSeq(seqs) \o FlattenSeq(s)
      <3>1. s = << >>
        BY <2>1, EmptySeq
      <3>2. << >> \in Seq(S)
        BY EmptySeq
      <3>3. FlattenSeq(s) = << >>
        BY <3>1, <3>2, FlattenFew
      <3>4. seqs \o << >> = seqs /\ FlattenSeq(seqs) \o << >> = FlattenSeq(seqs)
        BY <1>0, ConcatEmptySeq
      <3> QED BY <3>1, <3>3, <3>4
    <2> QED BY <2>1
  <1>2. ASSUME NEW k \in Nat, k \in T
        PROVE  k + 1 \in T
    <2>1. ASSUME NEW s \in Seq(Seq(S)), Len(s) = k + 1
          PROVE  FlattenSeq(seqs \o s) = FlattenSeq(seqs) \o FlattenSeq(s)
      <3>1. s # << >>
        BY <2>1, EmptySeq
      <3>2. PICK front \in Seq(Seq(S)), last \in Seq(S) : s = Append(front, last)
        BY <3>1, SequenceEmptyOrAppend
      <3>3. Len(front) = k
        BY <2>1, <3>2, AppendProperties, LenProperties
      <3>4. FlattenSeq(seqs \o front) = FlattenSeq(seqs) \o FlattenSeq(front)
        BY <1>2, <3>3
      <3>5. FlattenSeq(front) \in Seq(S) /\ seqs \o front \in Seq(Seq(S))
        BY FlattenType, ConcatProperties
      <3>6. seqs \o s = Append(seqs \o front, last)
        BY <3>2, AppendBehind
      <3>7. FlattenSeq(seqs \o s) = FlattenSeq(seqs \o front) \o last
        BY <3>5, <3>6, FlattenAppend
      <3>8. FlattenSeq(s) = FlattenSeq(front) \o last
        BY <3>2, FlattenAppend
      <3>9. (FlattenSeq(seqs) \o FlattenSeq(front)) \o last
              = FlattenSeq(seqs) \o (FlattenSeq(front) \o last)
        BY <1>0, <3>5, ConcatAssociative
      <3> QED BY <3>4, <3>7, <3>8, <3>9
    <2> QED BY <2>1
  <1> HIDE DEF T
  <1>3. \A k \in Nat : k \in T
    BY <1>1, <1>2, Induction
  <1>4. Len(more) \in T
    BY <1>3, LenProperties
  <1> QED BY <1>4 DEF T

\* The first, and what is behind it.
LEMMA HeadAndTail ==
  ASSUME NEW S, NEW s \in Seq(S), s # << >>
  PROVE  /\ Head(s) \in S /\ Tail(s) \in Seq(S)
         /\ s = << Head(s) >> \o Tail(s)
  <1>1. Head(s) \in S /\ Tail(s) \in Seq(S) /\ Len(s) \in Nat /\ Len(s) # 0
    BY HeadTailProperties, LenProperties, EmptySeq
  <1>2. /\ Len(Tail(s)) = Len(s) - 1
        /\ \A i \in 1..Len(Tail(s)) : Tail(s)[i] = s[i + 1]
    BY HeadTailProperties
  <1> DEFINE one == << Head(s) >>
             back == one \o Tail(s)
  <1>3. one \in Seq(S) /\ Len(one) = 1 /\ one[1] = s[1]
    BY <1>1
  <1> HIDE DEF one
  <1>4. /\ back \in Seq(S) /\ Len(back) = Len(s)
        /\ \A i \in 1..Len(s) : back[i] = IF i <= 1 THEN one[i] ELSE Tail(s)[i - 1]
    <2>1. /\ back \in Seq(S) /\ Len(back) = 1 + Len(Tail(s))
          /\ \A i \in 1..(1 + Len(Tail(s))) :
                back[i] = IF i <= 1 THEN one[i] ELSE Tail(s)[i - 1]
      <3>1. /\ back \in Seq(S) /\ Len(back) = Len(one) + Len(Tail(s))
            /\ \A i \in 1..(Len(one) + Len(Tail(s))) :
                  back[i] = IF i <= Len(one) THEN one[i] ELSE Tail(s)[i - Len(one)]
        BY <1>1, <1>3, ConcatProperties
      <3> QED BY <1>3, <3>1
    <2>2. 1 + Len(Tail(s)) = Len(s)
      BY <1>1, <1>2
    <2> QED BY <2>1, <2>2
  <1> HIDE DEF back
  <1>5. ASSUME NEW i \in 1..Len(s)
        PROVE  back[i] = s[i]
    <2>1. CASE i <= 1
      <3>1. i = 1
        BY <1>1, <2>1
      <3> QED BY <1>3, <1>4, <3>1
    <2>2. CASE ~(i <= 1)
      <3>1. i - 1 \in 1..Len(Tail(s)) /\ (i - 1) + 1 = i
        BY <1>1, <1>2, <2>2
      <3> QED BY <1>2, <1>4, <2>2, <3>1
    <2> QED BY <2>1, <2>2
  <1>6. back = s
    BY <1>4, <1>5, SeqEqual
  <1> QED BY <1>1, <1>6 DEF back, one

\* The first one comes out in front.
LEMMA FlattenHead ==
  ASSUME NEW S, NEW seqs \in Seq(Seq(S)), seqs # << >>
  PROVE  FlattenSeq(seqs) = Head(seqs) \o FlattenSeq(Tail(seqs))
  <1>1. /\ Head(seqs) \in Seq(S) /\ Tail(seqs) \in Seq(Seq(S))
        /\ seqs = << Head(seqs) >> \o Tail(seqs)
    BY HeadAndTail
  <1> DEFINE one == << Head(seqs) >>
  <1>2. one \in Seq(Seq(S)) /\ FlattenSeq(one) = Head(seqs)
    BY <1>1, FlattenFew
  <1> HIDE DEF one
  <1>3. FlattenSeq(one \o Tail(seqs)) = FlattenSeq(one) \o FlattenSeq(Tail(seqs))
    BY <1>1, <1>2, FlattenConcat
  <1> QED BY <1>1, <1>2, <1>3 DEF one
=============================================================================
