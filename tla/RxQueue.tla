------------------------------ MODULE RxQueue ------------------------------
(***************************************************************************)
(* What the receive path of a port promises to its readers: the frames of  *)
(* the line form one FIFO queue.  A reader takes the oldest frame whole,   *)
(* its bytes go behind those it already has in this call, and the next     *)
(* call begins with none.  After a disturbance - an overflow, a purge, a   *)
(* failed copy, a changed append_status - nothing is promised.             *)
(***************************************************************************)
EXTENDS Integers, Sequences

CONSTANTS
  Readers,
  FrameSizes

VARIABLES
  frames,         \* [number, size] of the frames not yet read, oldest first
  newest,         \* the number of the last frame of the line
  copied,         \* the bytes each reader has got in its present call
  append_status,  \* the two status bytes of a frame are given to the reader
  disturbed

vars == << frames, newest, copied, append_status, disturbed >>

\* The bytes of a frame that a reader is given.
Data(frame) ==
  [i \in 1..(frame.size - (IF append_status THEN 0 ELSE 2)) |->
     [frame |-> frame.number, at |-> i]]

Init ==
  /\ frames = << >>
  /\ newest = 0
  /\ copied = [r \in Readers |-> << >>]

Arrive(n) ==
  /\ newest' = newest + 1
  /\ frames' = Append(frames, [number |-> newest', size |-> n])
  /\ UNCHANGED copied

Take(r) ==
  /\ frames # << >>
  /\ frames' = Tail(frames)
  /\ copied' = [copied EXCEPT ![r] = @ \o Data(Head(frames))]
  /\ UNCHANGED newest

Return(r) ==
  /\ copied' = [copied EXCEPT ![r] = << >>]
  /\ UNCHANGED << frames, newest >>

Next ==
  \/ disturbed'
  \/ /\ UNCHANGED << append_status, disturbed >>
     /\ \/ \E n \in FrameSizes : Arrive(n)
        \/ \E r \in Readers : Take(r) \/ Return(r)

Spec == Init /\ [][Next]_vars
=============================================================================
