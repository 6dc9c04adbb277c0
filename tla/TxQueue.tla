------------------------------ MODULE TxQueue ------------------------------
(***************************************************************************)
(* What the transmit side of a port promises, without its locks, its       *)
(* tasklet or its buffers.  The accepted frames form one queue.  Bytes     *)
(* leave it only from its oldest frame, a frame leaves it only when none   *)
(* of its bytes is left, and nothing is dropped unless a purge is under    *)
(* way.                                                                    *)
(***************************************************************************)
EXTENDS Naturals, Sequences

CONSTANTS Purgers,  \* who may purge
          Lengths   \* the lengths a frame can be accepted with

VARIABLES backlog,  \* the accepted frames, oldest first: [number, left]
          newest,   \* the number of the last frame accepted
          purging   \* the purges under way

vars == << backlog, newest, purging >>

Init ==
  /\ backlog = << >>
  /\ newest = 0
  /\ purging = {}

\* A write is accepted behind everything accepted before it.
Accept(n) ==
  /\ newest' = newest + 1
  /\ backlog' = Append(backlog, [number |-> newest', left |-> n])
  /\ UNCHANGED purging

\* k bytes of the oldest frame go to the card.
Transmit(k) ==
  /\ backlog # << >>
  /\ backlog' = [backlog EXCEPT ![1].left = @ - k]
  /\ UNCHANGED << newest, purging >>

\* The oldest frame leaves once all of it was handed over.
Retire ==
  /\ backlog # << >>
  /\ Head(backlog).left = 0
  /\ backlog' = Tail(backlog)
  /\ UNCHANGED << newest, purging >>

BeginPurge(p) ==
  /\ p \notin purging
  /\ purging' = purging \cup {p}
  /\ UNCHANGED << backlog, newest >>

\* A purge drops the oldest frame, or everything behind it, or everything.
Drop ==
  /\ purging # {}
  /\ backlog # << >>
  /\ backlog' \in {Tail(backlog), SubSeq(backlog, 1, 1), << >>}
  /\ UNCHANGED << newest, purging >>

EndPurge(p) ==
  /\ p \in purging
  /\ purging' = purging \ {p}
  /\ UNCHANGED << backlog, newest >>

Next ==
  \/ \E n \in Lengths : Accept(n)
  \/ backlog # << >> /\ \E k \in 1..Head(backlog).left : Transmit(k)
  \/ Retire
  \/ Drop
  \/ \E p \in Purgers : BeginPurge(p) \/ EndPurge(p)

Spec == Init /\ [][Next]_vars
=============================================================================
