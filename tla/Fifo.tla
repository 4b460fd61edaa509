-------------------------------- MODULE Fifo --------------------------------
(***************************************************************************)
(* What the firmware expects of a byte queue between an interrupt handler  *)
(* and a thread: bytes leave in the order in which they came, each once.   *)
(* Bytes are numbered as they are accepted.                                *)
(***************************************************************************)
EXTENDS Integers, Sequences

CONSTANT Capacity

VARIABLES
    queue,    \* the accepted bytes the reader has not taken
    accepted  \* how many bytes were ever accepted

Init == queue = <<>> /\ accepted = 0

\* Some bytes are accepted, as many as fit at most.
Put == \E n \in 1..(Capacity - Len(queue)) :
          /\ queue' = queue \o [i \in 1..n |-> accepted + i]
          /\ accepted' = accepted + n

\* The reader takes some of the oldest bytes.
Take == \E n \in 1..Len(queue) :
          /\ queue' = SubSeq(queue, n + 1, Len(queue))
          /\ UNCHANGED accepted

Next == Put \/ Take

Spec == Init /\ [][Next]_<<queue, accepted>>
=============================================================================
