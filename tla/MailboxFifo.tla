----------------------------- MODULE MailboxFifo -----------------------------
(***************************************************************************)
(* What the transmit side of a mailbox channel promises a client: a queue  *)
(* of at most Capacity messages, sent in the order they were accepted, one *)
(* at a time.                                                              *)
(***************************************************************************)
EXTENDS Naturals, Sequences

CONSTANTS Msgs, NULL, Capacity

VARIABLES queue, active

Init ==
  /\ queue = <<>>
  /\ active = NULL

(* A message is accepted while there is room.                              *)
Enqueue(m) ==
  /\ Len(queue) < Capacity
  /\ queue' = Append(queue, m)
  /\ UNCHANGED active

(* The oldest message becomes the active one once the last is out.         *)
Submit ==
  /\ queue # <<>> /\ active = NULL
  /\ active' = Head(queue)
  /\ queue' = Tail(queue)

(* The active message is done with.                                        *)
Complete ==
  /\ active # NULL
  /\ active' = NULL
  /\ UNCHANGED queue

(* A new owner starts with an empty channel.                               *)
Clear ==
  /\ queue' = <<>>
  /\ active' = NULL

Next ==
  \/ \E m \in Msgs : Enqueue(m)
  \/ Submit
  \/ Complete
  \/ Clear

Spec == Init /\ [][Next]_<<queue, active>>
=============================================================================
