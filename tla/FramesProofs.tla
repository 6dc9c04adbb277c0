---------------------------- MODULE FramesProofs ----------------------------
(***************************************************************************)
(* Lemmas about the operators of Frames, for every frame and every list.   *)
(***************************************************************************)
EXTENDS Frames, SequenceLemmas

-----------------------------------------------------------------------------
(* Padding and buffers                                                     *)

\* A frame whose buffer can take its bytes and their padding.
BufferFits(frame) ==
  frame.data_length <= frame.buffer_size /\ frame.buffer_size % 4 = 0

\* Padding (prepare_frame_for_fifo, update_buffer_size) does not shorten, ends
\* on a multiple of four, and is the smallest such length.
LEMMA FourAlignedFacts ==
  ASSUME NEW n \in Nat
  PROVE  /\ FourAligned(n) \in Nat
         /\ n <= FourAligned(n)
         /\ FourAligned(n) % 4 = 0
         /\ \A b \in Nat : n <= b /\ b % 4 = 0 => FourAligned(n) <= b
  BY SMT DEF FourAligned

\* A new frame has its type and fits its (absent) buffer.
LEMMA FrameNewFacts ==
  ASSUME NEW n \in Nat
  PROVE  /\ FrameNew(n) \in Frame
         /\ FrameNew(n).number = n
         /\ FrameNew(n).data_length = 0
         /\ BufferFits(FrameNew(n))
  BY DEF FrameNew, Frame, BufferFits

\* update_buffer_size keeps type and fit, and truncates to the new size.
LEMMA UpdateBufferSizeFacts ==
  ASSUME NEW frame \in Frame, NEW size \in Nat
  PROVE  /\ UpdateBufferSize(frame, size) \in Frame
         /\ UpdateBufferSize(frame, size).number = frame.number
         /\ UpdateBufferSize(frame, size).data_length
               = Smaller(frame.data_length, size)
         /\ BufferFits(UpdateBufferSize(frame, size))
         /\ size <= UpdateBufferSize(frame, size).buffer_size
  <1>1. /\ FourAligned(size) \in Nat
        /\ size <= FourAligned(size)
        /\ FourAligned(size) % 4 = 0
    BY FourAlignedFacts
  <1>2. /\ Smaller(frame.data_length, size) \in Nat
        /\ Smaller(frame.data_length, size) <= size
        /\ size = 0 => Smaller(frame.data_length, size) = 0
    BY DEF Smaller, Frame
  <1> DEFINE bytes == Smaller(frame.data_length, size)
             room == IF size = 0 THEN 0 ELSE FourAligned(size)
  <1>3. /\ bytes \in Nat /\ room \in Nat
        /\ bytes <= size /\ size <= room /\ room % 4 = 0
    BY <1>1, <1>2
  <1>4. UpdateBufferSize(frame, size)
           = [frame EXCEPT !.buffer_size = room, !.data_length = bytes]
    <2>1. CASE size = 0
      BY <1>2, <2>1, Zenon DEF UpdateBufferSize
    <2>2. CASE size # 0
      BY <2>2, Zenon DEF UpdateBufferSize
    <2> QED BY <2>1, <2>2
  <1> HIDE DEF room
  <1> DEFINE resized == [frame EXCEPT !.buffer_size = room, !.data_length = bytes]
  <1>5. /\ resized \in Frame
        /\ resized.number = frame.number
        /\ resized.data_length = bytes
        /\ resized.buffer_size = room
    BY <1>3 DEF Frame
  <1>6. bytes <= room
    BY <1>3
  <1> HIDE DEF resized
  <1>7. UpdateBufferSize(frame, size) = resized
    BY <1>4, Zenon DEF resized
  <1> QED BY <1>3, <1>5, <1>6, <1>7 DEF BufferFits

\* add_data and add_data_from_user keep type and fit, and add what they are
\* given.
LEMMA AddDataFacts ==
  ASSUME NEW frame \in Frame, NEW length \in Nat, BufferFits(frame)
  PROVE  /\ AddData(frame, length) \in Frame
         /\ AddData(frame, length).number = frame.number
         /\ AddData(frame, length).data_length = frame.data_length + length
         /\ BufferFits(AddData(frame, length))
  <1> DEFINE need == frame.data_length + length
             roomy == MakeRoom(frame, length)
  <1>1. need \in Nat /\ frame.data_length <= need
    BY DEF Frame
  <1>2. /\ roomy \in Frame
        /\ roomy.number = frame.number
        /\ roomy.data_length = frame.data_length
        /\ BufferFits(roomy)
        /\ need <= roomy.buffer_size
    <2>1. CASE need > frame.buffer_size
      <3>1. Smaller(frame.data_length, need) = frame.data_length
        BY <1>1 DEF Smaller
      <3>2. roomy = UpdateBufferSize(frame, need)
        BY <2>1 DEF MakeRoom
      <3> HIDE DEF roomy, need
      <3> QED BY <1>1, <3>1, <3>2, UpdateBufferSizeFacts
    <2>2. CASE ~(need > frame.buffer_size)
      BY <1>1, <2>2 DEF MakeRoom, Frame
    <2> QED BY <2>1, <2>2
  <1>3. CASE length = 0
    BY <1>3 DEF AddData, Frame
  <1>4. CASE length # 0
    <2>1. AddData(frame, length)
            = [roomy EXCEPT !.data_length = frame.data_length + length]
      BY <1>2, <1>4 DEF AddData
    <2> HIDE DEF roomy
    <2> QED BY <1>1, <1>2, <2>1 DEF Frame, BufferFits
  <1> QED BY <1>3, <1>4

\* remove_data keeps type and fit, and never removes more than there is.
LEMMA RemoveDataFacts ==
  ASSUME NEW frame \in Frame, NEW length \in Nat, BufferFits(frame)
  PROVE  /\ RemoveData(frame, length) \in Frame
         /\ RemoveData(frame, length).number = frame.number
         /\ RemoveData(frame, length).data_length <= frame.data_length
         /\ RemoveData(frame, length).buffer_size = frame.buffer_size
         /\ BufferFits(RemoveData(frame, length))
  BY DEF RemoveData, Smaller, Frame, BufferFits

-----------------------------------------------------------------------------
(* The estimate of a list                                                  *)

\* total is a running total of the bytes of the frames.
RunningTotal(total, frames) ==
  /\ total \in [0..Len(frames) -> Nat]
  /\ total[0] = 0
  /\ \A i \in 1..Len(frames) :
        total[i] = total[i - 1] + frames[i].data_length
  /\ \A i, j \in 0..Len(frames) : i <= j => total[i] <= total[j]

\* The estimate is the number of bytes in the list.
Accounted(flist) ==
  \E total : /\ RunningTotal(total, flist.frames)
             /\ flist.estimated_memory_usage = total[Len(flist.frames)]

\* The empty list, of synccom_flist_init and of a clear, is accounted for.
LEMMA EmptyAccounted == EmptyFlist \in Flist(Frame) /\ Accounted(EmptyFlist)
  <1> DEFINE total == [i \in 0..0 |-> 0]
  <1>1. RunningTotal(total, << >>) /\ total[Len(<< >>)] = 0
    BY DEF RunningTotal
  <1> QED BY <1>1 DEF Accounted, EmptyFlist, Flist

\* The running estimate never goes below zero (it is unsigned in flist.h).
LEMMA AccountedNat ==
  ASSUME NEW flist \in Flist(Frame), Accounted(flist)
  PROVE  flist.estimated_memory_usage \in Nat
  <1>1. Len(flist.frames) \in 0..Len(flist.frames)
    BY DEF Flist
  <1> QED BY <1>1 DEF Accounted, RunningTotal

\* synccom_flist_add_frame keeps the estimate exact ...
LEMMA AddAccounted ==
  ASSUME NEW flist \in Flist(Frame), NEW frame \in Frame, Accounted(flist)
  PROVE  FlistAdd(flist, frame) \in Flist(Frame) /\ Accounted(FlistAdd(flist, frame))
  <1> DEFINE n == Len(flist.frames)
             longer == Append(flist.frames, frame)
  <1>1. /\ n \in Nat
        /\ longer \in Seq(Frame)
        /\ Len(longer) = n + 1
        /\ \A i \in 1..n : longer[i] = flist.frames[i]
        /\ longer[n + 1] = frame
        /\ frame.data_length \in Nat
        /\ \A i \in 1..n : flist.frames[i].data_length \in Nat
    <2>1. flist.frames \in Seq(Frame)
      BY DEF Flist
    <2>2. /\ n \in Nat
          /\ longer \in Seq(Frame)
          /\ Len(longer) = n + 1
          /\ \A i \in 1..n : longer[i] = flist.frames[i]
          /\ longer[n + 1] = frame
      BY <2>1, AppendProperties
    <2>3. frame.data_length \in Nat
      BY DEF Frame
    <2>4. \A i \in 1..n : flist.frames[i] \in Frame
      BY <2>1
    <2> QED BY <2>2, <2>3, <2>4 DEF Frame
  <1>2. PICK total : /\ RunningTotal(total, flist.frames)
                     /\ flist.estimated_memory_usage = total[n]
    BY DEF Accounted
  <1>3. /\ total \in [0..n -> Nat]
        /\ total[0] = 0
        /\ \A i \in 1..n : total[i] = total[i - 1] + flist.frames[i].data_length
        /\ \A i, j \in 0..n : i <= j => total[i] <= total[j]
    BY <1>2 DEF RunningTotal
  <1> DEFINE next == [i \in 0..(n + 1) |->
                        IF i = n + 1 THEN total[n] + frame.data_length ELSE total[i]]
  <1> HIDE DEF n, longer
  <1>4. RunningTotal(next, longer)
    <2>1. next \in [0..(n + 1) -> Nat] /\ next[0] = 0
      BY <1>1, <1>3
    <2>2. ASSUME NEW i \in 1..(n + 1)
          PROVE  next[i] = next[i - 1] + longer[i].data_length
      <3>1. CASE i = n + 1
        BY <1>1, <1>3, <3>1
      <3>2. CASE i # n + 1
        <4>1. i \in 1..n /\ i \in 0..(n + 1) /\ i - 1 \in 0..(n + 1) /\ i - 1 # n + 1
          BY <1>1, <3>2
        <4>2. next[i] = total[i] /\ next[i - 1] = total[i - 1]
          BY <3>2, <4>1
        <4>3. longer[i] = flist.frames[i]
          BY <1>1, <4>1
        <4> HIDE DEF next
        <4> QED BY <1>3, <4>1, <4>2, <4>3
      <3> QED BY <3>1, <3>2
    <2>3. ASSUME NEW i \in 0..(n + 1), NEW j \in 0..(n + 1), i <= j
          PROVE  next[i] <= next[j]
      <3>1. ASSUME NEW k \in 0..n
            PROVE  next[k] = total[k] /\ total[k] \in Nat /\ total[k] <= total[n]
        BY <1>1, <1>3, <3>1
      <3>2. next[n + 1] = total[n] + frame.data_length /\ total[n] \in Nat
        BY <1>1, <1>3
      <3> HIDE DEF next
      <3>3. CASE j = n + 1
        BY <1>1, <2>3, <3>1, <3>2, <3>3
      <3>4. CASE j # n + 1
        BY <1>1, <1>3, <2>3, <3>1, <3>4
      <3> QED BY <3>3, <3>4
    <2> HIDE DEF next
    <2> QED BY <1>1, <2>1, <2>2, <2>3 DEF RunningTotal
  <1>5. next[Len(longer)] = flist.estimated_memory_usage + frame.data_length
    BY <1>1, <1>2
  <1>6. /\ FlistAdd(flist, frame).frames = longer
        /\ FlistAdd(flist, frame).estimated_memory_usage
              = flist.estimated_memory_usage + frame.data_length
    BY DEF FlistAdd, longer
  <1>7. FlistAdd(flist, frame) \in Flist(Frame)
    BY <1>1 DEF FlistAdd, Flist, longer
  <1> HIDE DEF next
  <1> QED BY <1>4, <1>5, <1>6, <1>7 DEF Accounted

\* ... and so does synccom_flist_remove_frame on a list that is not empty.
LEMMA RemoveAccounted ==
  ASSUME NEW flist \in Flist(Frame), Accounted(flist), flist.frames # << >>
  PROVE  /\ Head(flist.frames) \in Frame
         /\ FlistRemove(flist) \in Flist(Frame)
         /\ Accounted(FlistRemove(flist))
  <1> DEFINE n == Len(flist.frames)
             rest == Tail(flist.frames)
             first == Head(flist.frames)
  <1>1. /\ n \in Nat /\ n > 0
        /\ rest \in Seq(Frame)
        /\ Len(rest) = n - 1
        /\ \A i \in 1..(n - 1) : rest[i] = flist.frames[i + 1]
        /\ first = flist.frames[1]
        /\ first \in Frame
        /\ first.data_length \in Nat
        /\ flist.estimated_memory_usage \in Int
    <2>1. flist.frames \in Seq(Frame) /\ flist.estimated_memory_usage \in Int
      BY DEF Flist
    <2>2. n \in Nat /\ n > 0
      BY <2>1, EmptySeq
    <2>3. /\ first = flist.frames[1]
          /\ first \in Frame
          /\ rest \in Seq(Frame)
          /\ Len(rest) = n - 1
          /\ \A i \in 1..(n - 1) : rest[i] = flist.frames[i + 1]
      BY <2>1, <2>2, HeadTailProperties
    <2>4. first.data_length \in Nat
      BY <2>3 DEF Frame
    <2> QED BY <2>1, <2>2, <2>3, <2>4
  <1>2. PICK total : /\ RunningTotal(total, flist.frames)
                     /\ flist.estimated_memory_usage = total[n]
    BY DEF Accounted
  <1>3. /\ total \in [0..n -> Nat]
        /\ total[0] = 0
        /\ \A i \in 1..n : total[i] = total[i - 1] + flist.frames[i].data_length
        /\ \A i, j \in 0..n : i <= j => total[i] <= total[j]
    BY <1>2 DEF RunningTotal
  <1> DEFINE next == [i \in 0..(n - 1) |-> total[i + 1] - first.data_length]
  <1> HIDE DEF n, rest, first
  <1>4. total[1] = first.data_length /\ 1 \in 0..n
    <2>1. 1 \in 1..n /\ 1 - 1 = 0
      BY <1>1
    <2>2. total[1] = total[1 - 1] + flist.frames[1].data_length
      BY <1>3, <2>1
    <2> QED BY <1>1, <1>3, <2>1, <2>2
  <1>5. RunningTotal(next, rest)
    <2>1. ASSUME NEW i \in 0..(n - 1)
          PROVE  /\ i + 1 \in 0..n
                 /\ total[i + 1] \in Nat
                 /\ first.data_length <= total[i + 1]
                 /\ next[i] = total[i + 1] - first.data_length
      <3>1. i + 1 \in 0..n /\ 1 <= i + 1
        BY <1>1
      <3> QED BY <1>3, <1>4, <3>1
    <2>2. next \in [0..(n - 1) -> Nat] /\ next[0] = 0
      BY <1>1, <1>4, <2>1
    <2>3. ASSUME NEW i \in 1..(n - 1)
          PROVE  next[i] = next[i - 1] + rest[i].data_length
      <3>1. /\ i \in 0..(n - 1) /\ i - 1 \in 0..(n - 1) /\ (i - 1) + 1 = i
            /\ i + 1 \in 1..n /\ (i + 1) - 1 = i /\ i \in 0..n
        BY <1>1
      <3>2. total[i + 1] = total[i] + flist.frames[i + 1].data_length
        <4>1. total[i + 1] = total[(i + 1) - 1] + flist.frames[i + 1].data_length
          BY <1>3, <3>1
        <4> QED BY <3>1, <4>1
      <3>3. /\ next[i] = total[i + 1] - first.data_length
            /\ next[i - 1] = total[i] - first.data_length
        <4>1. next[i - 1] = total[(i - 1) + 1] - first.data_length
          BY <2>1, <3>1
        <4> QED BY <2>1, <3>1, <4>1
      <3>4. rest[i] = flist.frames[i + 1] /\ rest[i].data_length \in Nat
        <4>1. rest[i] = flist.frames[i + 1]
          BY <1>1
        <4>2. rest[i] \in Frame
          BY <1>1
        <4> QED BY <4>1, <4>2 DEF Frame
      <3>5. total[i] \in Nat
        BY <1>3, <3>1
      <3> HIDE DEF next
      <3> QED BY <1>1, <3>2, <3>3, <3>4, <3>5
    <2>4. ASSUME NEW i \in 0..(n - 1), NEW j \in 0..(n - 1), i <= j
          PROVE  next[i] <= next[j]
      <3>1. total[i + 1] <= total[j + 1]
        BY <1>1, <1>3, <2>1, <2>4
      <3> HIDE DEF next
      <3> QED BY <1>1, <2>1, <3>1
    <2> HIDE DEF next
    <2> QED BY <1>1, <2>2, <2>3, <2>4 DEF RunningTotal
  <1>6. next[Len(rest)] = flist.estimated_memory_usage - first.data_length
    BY <1>1, <1>2
  <1>7. /\ FlistRemove(flist).frames = rest
        /\ FlistRemove(flist).estimated_memory_usage
              = flist.estimated_memory_usage - first.data_length
    BY DEF FlistRemove, rest, first
  <1>8. FlistRemove(flist) \in Flist(Frame)
    BY <1>1 DEF FlistRemove, Flist, rest, first
  <1> HIDE DEF next
  <1> QED BY <1>1, <1>5, <1>6, <1>7, <1>8 DEF Accounted, first

\* The sum over a set of positions, from the last position down.
SumDown(sum, frames, places) ==
  sum = [s \in SUBSET places |->
           IF s = {} THEN 0
           ELSE sum[s \ {Max(s)}] + frames[Max(s)].data_length]

\* There is such a sum.
LEMMA SumDownExists ==
  ASSUME NEW frames, NEW n \in Nat
  PROVE  \E sum : SumDown(sum, frames, 1..n)
  <1> DEFINE S == {k \in Nat : \E sum : SumDown(sum, frames, 1..k)}
  <1>1. 0 \in S
    <2> DEFINE zero == [s \in SUBSET (1..0) |-> 0]
    <2>1. 1..0 = {}
      OBVIOUS
    <2>2. \A s \in SUBSET (1..0) : s = {}
      BY <2>1
    <2>3. SumDown(zero, frames, 1..0)
      BY <2>2 DEF SumDown
    <2> QED BY <2>3
  <1>2. ASSUME NEW k \in Nat, k \in S
        PROVE  k + 1 \in S
    <2>1. PICK sum : SumDown(sum, frames, 1..k)
      BY <1>2
    <2> DEFINE next == [s \in SUBSET (1..(k + 1)) |->
                 IF k + 1 \in s THEN sum[s \ {k + 1}] + frames[k + 1].data_length ELSE sum[s]]
    <2>2. ASSUME NEW s \in SUBSET (1..(k + 1))
          PROVE  next[s] = IF s = {} THEN 0 ELSE next[s \ {Max(s)}] + frames[Max(s)].data_length
      <3>1. CASE k + 1 \in s
        <4>1. Max(s) \in s /\ \A i \in s : i <= Max(s)
          <5>1. k + 1 \in Nat /\ s # {}
            BY <3>1
          <5> QED BY <5>1, LastPosition
        <4>2. Max(s) = k + 1
          <5>1. Max(s) \in 1..(k + 1) /\ k + 1 <= Max(s)
            BY <3>1, <4>1
          <5> QED BY <5>1
        <4>3. s \ {k + 1} \in SUBSET (1..k) /\ s \ {k + 1} \in SUBSET (1..(k + 1))
          OBVIOUS
        <4>4. next[s \ {k + 1}] = sum[s \ {k + 1}]
          BY <4>3
        <4>5. next[s] = sum[s \ {k + 1}] + frames[k + 1].data_length
          BY <3>1
        <4> HIDE DEF next
        <4> QED BY <3>1, <4>2, <4>4, <4>5
      <3>2. CASE k + 1 \notin s
        <4>1. s \in SUBSET (1..k)
          BY <3>2
        <4>2. sum[s] = IF s = {} THEN 0 ELSE sum[s \ {Max(s)}] + frames[Max(s)].data_length
          BY <2>1, <4>1 DEF SumDown
        <4>3. next[s] = sum[s]
          BY <3>2
        <4>4. /\ s \ {Max(s)} \in SUBSET (1..(k + 1))
              /\ k + 1 \notin s \ {Max(s)}
          BY <3>2
        <4>5. next[s \ {Max(s)}] = sum[s \ {Max(s)}]
          BY <4>4
        <4> HIDE DEF next
        <4> QED BY <4>2, <4>3, <4>5
      <3> QED BY <3>1, <3>2
    <2>3. SumDown(next, frames, 1..(k + 1))
      <3>1. next = [s \in SUBSET (1..(k + 1)) |-> next[s]]
        OBVIOUS
      <3> HIDE DEF next
      <3> QED BY <2>2, <3>1 DEF SumDown
    <2> QED BY <2>3
  <1> HIDE DEF S
  <1>3. n \in S
    BY <1>1, <1>2, Induction
  <1> QED BY <1>3 DEF S

\* What synccom_flist_calculate_memory_usage computes is the last of the running
\* totals: there is one number of bytes in a list.
LEMMA UsageIsTotal ==
  ASSUME NEW flist \in Flist(Frame), NEW total, RunningTotal(total, flist.frames)
  PROVE  CalculateMemoryUsage(flist) = total[Len(flist.frames)]
  <1> DEFINE n == Len(flist.frames)
             sum == CHOOSE sum : SumDown(sum, flist.frames, DOMAIN flist.frames)
  <1>1. /\ flist.frames \in Seq(Frame)
        /\ n \in Nat
        /\ DOMAIN flist.frames = 1..n
    BY DEF Flist
  <1>2. CalculateMemoryUsage(flist) = sum[1..n]
    <2>1. CalculateMemoryUsage(flist) = sum[DOMAIN flist.frames]
      BY Zenon DEF CalculateMemoryUsage, FoldLeft, MapThenFoldSet, SumDown
    <2> HIDE DEF sum
    <2> QED BY <1>1, <2>1
  <1>3. SumDown(sum, flist.frames, 1..n)
    BY <1>1, SumDownExists
  <1> DEFINE S == {k \in Nat : k <= n => sum[1..k] = total[k]}
  <1> HIDE DEF sum
  <1>4. 0 \in S
    <2>1. 1..0 = {} /\ {} \in SUBSET (1..n)
      OBVIOUS
    <2>2. sum[{}] = 0
      BY <1>3, <2>1 DEF SumDown
    <2> QED BY <2>1, <2>2 DEF RunningTotal
  <1>5. ASSUME NEW k \in Nat, k \in S
        PROVE  k + 1 \in S
    <2> SUFFICES ASSUME k + 1 <= n PROVE sum[1..(k + 1)] = total[k + 1]
      OBVIOUS
    <2>1. 1..(k + 1) \in SUBSET (1..n) /\ k + 1 \in 1..(k + 1)
      BY <1>1
    <2>2. Max(1..(k + 1)) = k + 1
      <3>1. Max(1..(k + 1)) \in 1..(k + 1) /\ k + 1 <= Max(1..(k + 1))
        <4>1. 1..(k + 1) # {}
          BY <2>1
        <4> QED BY <1>1, <2>1, <4>1, LastPosition
      <3> QED BY <3>1
    <2>3. sum[1..(k + 1)] = sum[(1..(k + 1)) \ {k + 1}] + flist.frames[k + 1].data_length
      <3> QED BY <1>3, <2>1, <2>2 DEF SumDown
    <2>4. (1..(k + 1)) \ {k + 1} = 1..k
      OBVIOUS
    <2>5. sum[1..k] = total[k]
      BY <1>1, <1>5
    <2>6. k + 1 \in 1..n /\ (k + 1) - 1 = k
      BY <1>1
    <2>7. total[k + 1] = total[k] + flist.frames[k + 1].data_length
      <3>1. total[k + 1] = total[(k + 1) - 1] + flist.frames[k + 1].data_length
        BY <2>6 DEF RunningTotal
      <3> QED BY <2>6, <3>1
    <2> QED BY <2>3, <2>4, <2>5, <2>6, <2>7
  <1> HIDE DEF S
  <1>6. n \in S
    BY <1>1, <1>4, <1>5, Induction
  <1> QED BY <1>1, <1>2, <1>6 DEF S

\* So an estimate that is accounted for is the sum it stands for.
LEMMA AccountedIsExact ==
  ASSUME NEW flist \in Flist(Frame), Accounted(flist)
  PROVE  flist.estimated_memory_usage = CalculateMemoryUsage(flist)
  BY UsageIsTotal DEF Accounted

-----------------------------------------------------------------------------
(* The frames of a list                                                    *)

\* An empty list has no frames.
LEMMA EmptyFrames == EmptyFlist.frames = << >> /\ Len(EmptyFlist.frames) = 0
  BY DEF EmptyFlist

\* A frame is added behind the frames there are.
LEMMA AddedFrames ==
  ASSUME NEW flist \in Flist(Frame), NEW frame \in Frame
  PROVE  LET longer == FlistAdd(flist, frame).frames
         IN  /\ Len(flist.frames) \in Nat
             /\ Len(longer) = Len(flist.frames) + 1
             /\ \A i \in 1..Len(flist.frames) : longer[i] = flist.frames[i]
             /\ longer[Len(flist.frames) + 1] = frame
  <1>1. flist.frames \in Seq(Frame)
    BY DEF Flist
  <1> QED BY <1>1, AppendProperties DEF FlistAdd

\* The first frame is removed and the others move up.
LEMMA RemovedFrames ==
  ASSUME NEW flist \in Flist(Frame), flist.frames # << >>
  PROVE  LET rest == FlistRemove(flist).frames
         IN  /\ Len(flist.frames) \in Nat \ {0}
             /\ Len(rest) = Len(flist.frames) - 1
             /\ Head(flist.frames) = flist.frames[1]
             /\ \A i \in 1..Len(rest) :
                   /\ rest[i] = flist.frames[i + 1]
                   /\ i + 1 \in 1..Len(flist.frames)
  <1>1. flist.frames \in Seq(Frame)
    BY DEF Flist
  <1>2. Len(flist.frames) \in Nat \ {0}
    BY <1>1, EmptySeq
  <1>3. FlistRemove(flist).frames = Tail(flist.frames)
    BY DEF FlistRemove
  <1> QED BY <1>1, <1>2, <1>3, HeadTailProperties
=============================================================================
