------------------------------- MODULE Frames -------------------------------
(***************************************************************************)
(* struct synccom_frame (frame.c) and struct synccom_flist (flist.c).      *)
(*                                                                         *)
(* A frame is a growable byte buffer.  What the driver's correctness turns *)
(* on is how many bytes it holds (data_length), how many bytes its         *)
(* allocation has (buffer_size), how large the frame was announced to be   *)
(* (frame_size) and which frame it is (number); the bytes themselves are   *)
(* left out.  A list of frames carries a running estimate of its bytes,    *)
(* which the memory caps are tested against.                               *)
(***************************************************************************)
EXTENDS Integers, Sequences, SequencesExt

Frame == [number : Nat, data_length : Nat, buffer_size : Nat, frame_size : Nat]

\* Sizes are padded to a multiple of four, both when a buffer is allocated and
\* when a frame is handed to the card's 32-bit FIFO.
FourAligned(n) == IF n % 4 = 0 THEN n ELSE n + (4 - (n % 4))

Smaller(a, b) == IF a <= b THEN a ELSE b

FrameNew(n) ==
  [number |-> n, data_length |-> 0, buffer_size |-> 0, frame_size |-> 0]

-----------------------------------------------------------------------------
(* synccom_frame_update_buffer_size when the allocation succeeds; when it  *)
(* fails the frame is left as it was.                                      *)

MutUpdateBufferSizeUnaligned(frame, size) ==
  [frame EXCEPT !.buffer_size = size,
                !.data_length = Smaller(frame.data_length, size)]

UpdateBufferSize(frame, size) ==
  IF size = 0
  THEN [frame EXCEPT !.buffer_size = 0, !.data_length = 0]
  ELSE [frame EXCEPT !.buffer_size = FourAligned(size),
                     !.data_length = Smaller(frame.data_length, size)]

\* The buffer grows only when the new bytes do not fit what is allocated.
MakeRoom(frame, length) ==
  IF frame.data_length + length > frame.buffer_size
  THEN UpdateBufferSize(frame, frame.data_length + length)
  ELSE frame

AddData(frame, length) ==
  IF length = 0
  THEN frame
  ELSE [MakeRoom(frame, length) EXCEPT !.data_length = @ + length]

MutRemoveDataUnbounded(frame, length) ==
  [frame EXCEPT !.data_length = @ - length]

\* synccom_frame_remove_data: at most what the frame holds is removed.
RemoveData(frame, length) ==
  [frame EXCEPT !.data_length = @ - Smaller(length, @)]

-----------------------------------------------------------------------------
Flist(F) == [frames : Seq(F), estimated_memory_usage : Int]

EmptyFlist == [frames |-> << >>, estimated_memory_usage |-> 0]

MutFlistAddFront(flist, frame) ==
  [frames |-> << frame >> \o flist.frames,
   estimated_memory_usage |-> flist.estimated_memory_usage + frame.data_length]

FlistAdd(flist, frame) ==
  [frames |-> Append(flist.frames, frame),
   estimated_memory_usage |-> flist.estimated_memory_usage + frame.data_length]

MutFlistRemoveKeepsEstimate(flist) ==
  [flist EXCEPT !.frames = Tail(flist.frames)]

\* synccom_flist_remove_frame on a list that is not empty; the frame it
\* returns is Head(flist.frames).
FlistRemove(flist) ==
  [frames |-> Tail(flist.frames),
   estimated_memory_usage |->
      flist.estimated_memory_usage - Head(flist.frames).data_length]

\* synccom_flist_calculate_memory_usage, the sum the estimate stands for.
CalculateMemoryUsage(flist) ==
  FoldLeft(LAMBDA sum, frame : sum + frame.data_length, 0, flist.frames)
=============================================================================
