-------------------------------- MODULE Fifo --------------------------------
(***************************************************************************)
(* What a copy through a connection promises: bytes leave the queue in the *)
(* order they entered it, none lost and none doubled, until the receiver   *)
(* closes it.                                                              *)
(***************************************************************************)
EXTENDS Sequences, SequencesExt

VARIABLES
  queue,         \* what the sender took and the receiver did not store
  stored,        \* what the receiver stored
  open           \* the receiver is there

Init == queue = << >> /\ stored = << >> /\ open = TRUE

Enqueue ==
  /\ open
  /\ IsPrefix(queue, queue')
  /\ UNCHANGED <<stored, open>>

Dequeue ==
  /\ open
  /\ IsPrefix(stored, stored')
  /\ stored' \o queue' = stored \o queue
  /\ UNCHANGED open

Close ==
  /\ open
  /\ ~open' /\ queue' = << >>
  /\ UNCHANGED stored

Next == Enqueue \/ Dequeue \/ Close

Spec == Init /\ [][Next]_<<queue, stored, open>>
=============================================================================
