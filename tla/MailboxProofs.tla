---------------------------- MODULE MailboxProofs ----------------------------
(***************************************************************************)
(* Type correctness of Mailbox and its refinement of MailboxFifo, for any  *)
(* ring length, any messages, clients and threads.                         *)
(***************************************************************************)
EXTENDS Mailbox, TLAPS

(* The refinement is of messages that are not the null pointer, which the  *)
(* code also uses for "no active request" (see EveryMessageNotified).      *)
NonNullMessages == NULL \notin Msgs

L == MBOX_TX_QUEUE_LEN

(* What msg_submit() reads from the ring is a message.                     *)
QueueHoldsMessages == \A j \in 1 .. msg_count : Queue[j] \in Msgs

Ring ==
  /\ msg_data \in [Slots -> Msgs \cup {NULL}]
  /\ msg_free \in Slots
  /\ msg_count \in 0 .. L
  /\ QueueHoldsMessages

-----------------------------------------------------------------------------
(* Sequences.                                                              *)
LEMMA AppendFacts ==
  ASSUME NEW S, NEW s \in Seq(S), NEW m \in S
  PROVE  /\ Append(s, m) \in Seq(S) /\ Len(Append(s, m)) = Len(s) + 1
         /\ \A j \in 1 .. Len(s) : Append(s, m)[j] = s[j]
         /\ Append(s, m)[Len(s) + 1] = m
  OBVIOUS

LEMMA TailFacts ==
  ASSUME NEW S, NEW s \in Seq(S), s # <<>>
  PROVE  /\ Head(s) \in S /\ Head(s) = s[1]
         /\ Tail(s) \in Seq(S) /\ Len(Tail(s)) = Len(s) - 1
         /\ \A j \in 1 .. Len(s) - 1 : Tail(s)[j] = s[j + 1]
  OBVIOUS

LEMMA SameSequence ==
  ASSUME NEW S, NEW s \in Seq(S), NEW t \in Seq(S), Len(s) = Len(t),
         \A j \in 1 .. Len(s) : s[j] = t[j]
  PROVE  s = t
  OBVIOUS

LEMMA EmptyFacts ==
  ASSUME NEW S
  PROVE  <<>> \in Seq(S) /\ \A s \in Seq(S) : Len(s) = 0 <=> s = <<>>
  OBVIOUS

-----------------------------------------------------------------------------
(* The ring arithmetic of add_to_rbuf() and msg_submit().                  *)

(* Every queued message is in a slot of the array.                         *)
LEMMA SlotInRange ==
  ASSUME NEW f \in Slots, NEW c \in 0 .. L, NEW j \in 1 .. c
  PROVE  SlotAt(f, c, j) \in Slots
  BY MailboxAssumption DEF SlotAt, OldestSlot, Slots, L

(* The slot add_to_rbuf() writes is free, becomes the last of the queue,   *)
(* and the others keep their place.                                        *)
LEMMA SlotsAfterAdd ==
  ASSUME NEW f \in Slots, NEW c \in 0 .. L, c # L
  PROVE  /\ NextSlot(f) \in Slots
         /\ SlotAt(NextSlot(f), c + 1, c + 1) = f
         /\ \A j \in 1 .. c : /\ SlotAt(NextSlot(f), c + 1, j) = SlotAt(f, c, j)
                              /\ SlotAt(f, c, j) # f
  BY MailboxAssumption DEF SlotAt, OldestSlot, NextSlot, Slots, L

(* The slot msg_submit() reads is the first of the queue, and dropping it  *)
(* moves every other message one place forward.                            *)
LEMMA SlotsAfterSubmit ==
  ASSUME NEW f \in Slots, NEW c \in 0 .. L, c # 0
  PROVE  /\ OldestSlot(f, c) = SlotAt(f, c, 1)
         /\ \A j \in 1 .. c - 1 : SlotAt(f, c - 1, j) = SlotAt(f, c, j + 1)
  BY MailboxAssumption DEF SlotAt, OldestSlot, Slots, L

(* add_to_rbuf() appends to the queue.                                     *)
LEMMA AddAppends ==
  ASSUME Ring, ~RingFull, NEW m \in Msgs, add_to_rbuf(m)
  PROVE  /\ Ring'
         /\ Queue \in Seq(Msgs) /\ Len(Queue) = msg_count
         /\ Queue' = Append(Queue, m)
<1>1. /\ msg_count \in 0 .. L /\ msg_count # L /\ msg_free \in Slots
      /\ msg_count' = msg_count + 1 /\ msg_free' = NextSlot(msg_free)
      /\ msg_data' = [msg_data EXCEPT ![msg_free] = m]
      /\ msg_data \in [Slots -> Msgs \cup {NULL}]
  BY Zenon DEF Ring, RingFull, add_to_rbuf, L
<1>2. L \in Nat \ {0}
  BY MailboxAssumption, Zenon DEF L
<1>3. msg_count' \in 0 .. L /\ msg_free' \in Slots
      /\ msg_data' \in [Slots -> Msgs \cup {NULL}]
  BY <1>1, <1>2, SlotsAfterAdd
<1>4. Queue \in Seq(Msgs) /\ Len(Queue) = msg_count
  BY <1>1, <1>2 DEF Ring, QueueHoldsMessages, Queue
<1>5. \A j \in 1 .. msg_count : Queue'[j] = Queue[j]
  <2>1. TAKE j \in 1 .. msg_count
  <2>2. Queue'[j] = msg_data'[SlotAt(msg_free', msg_count', j)]
    BY <1>1, <1>2, <2>1 DEF Queue
  <2>3. SlotAt(msg_free', msg_count', j) = SlotAt(msg_free, msg_count, j)
        /\ SlotAt(msg_free, msg_count, j) # msg_free
    BY <1>1, <2>1, SlotsAfterAdd, Zenon
  <2>4. SlotAt(msg_free, msg_count, j) \in Slots
    BY <1>1, <2>1, SlotInRange, Zenon
  <2>5. QED
    BY <1>1, <2>1, <2>2, <2>3, <2>4, Zenon DEF Queue
<1>6. Queue'[msg_count + 1] = m
  <2>1. Queue'[msg_count + 1] = msg_data'[SlotAt(msg_free', msg_count', msg_count + 1)]
    BY <1>1, <1>2 DEF Queue
  <2>2. QED
    BY <1>1, <2>1, SlotsAfterAdd, Zenon
<1>7. QueueHoldsMessages'
  BY <1>1, <1>2, <1>5, <1>6 DEF Ring, QueueHoldsMessages
<1>8. Queue' = Append(Queue, m)
  <2>1. Queue' \in Seq(Msgs) /\ Len(Queue') = msg_count + 1
    BY <1>1, <1>2, <1>7 DEF QueueHoldsMessages, Queue
  <2>2. /\ Append(Queue, m) \in Seq(Msgs) /\ Len(Append(Queue, m)) = msg_count + 1
        /\ \A j \in 1 .. msg_count : Append(Queue, m)[j] = Queue[j]
        /\ Append(Queue, m)[msg_count + 1] = m
    BY <1>4, AppendFacts
  <2>3. \A j \in 1 .. Len(Queue') : Queue'[j] = Append(Queue, m)[j]
    BY <1>1, <1>2, <1>5, <1>6, <2>1, <2>2
  <2>4. QED
    BY <2>1, <2>2, <2>3, SameSequence, Zenon
<1>9. QED
  BY <1>3, <1>4, <1>7, <1>8, Zenon DEF Ring

(* What msg_submit() hands to the controller is the head of the queue, and *)
(* the queue that is left is the tail.                                     *)
LEMMA SubmitTakesHead ==
  ASSUME Ring, msg_count # 0, msg_count' = msg_count - 1,
         UNCHANGED <<msg_data, msg_free>>
  PROVE  /\ Ring'
         /\ Queue \in Seq(Msgs) /\ Queue # <<>>
         /\ msg_data[OldestSlot(msg_free, msg_count)] = Head(Queue)
         /\ Head(Queue) \in Msgs
         /\ Queue' = Tail(Queue)
<1>1. /\ msg_count \in 0 .. L /\ msg_free \in Slots /\ L \in Nat \ {0}
      /\ msg_data \in [Slots -> Msgs \cup {NULL}]
  BY MailboxAssumption, Zenon DEF Ring, L
<1>2. Queue \in Seq(Msgs) /\ Len(Queue) = msg_count
  BY <1>1 DEF Ring, QueueHoldsMessages, Queue
<1>3. Queue # <<>>
  BY <1>1, <1>2
<1>4. Queue[1] = msg_data[OldestSlot(msg_free, msg_count)]
  BY <1>1, SlotsAfterSubmit DEF Queue
<1>5. Head(Queue) = Queue[1] /\ Queue[1] \in Msgs
  BY <1>1, <1>2, <1>3, TailFacts, Zenon
<1>6. \A j \in 1 .. msg_count - 1 : Queue'[j] = Queue[j + 1]
  <2>1. TAKE j \in 1 .. msg_count - 1
  <2>2. Queue'[j] = msg_data[SlotAt(msg_free, msg_count - 1, j)]
    BY <1>1, <2>1, Zenon DEF Queue
  <2>3. Queue[j + 1] = msg_data[SlotAt(msg_free, msg_count, j + 1)]
    BY <1>1, <2>1 DEF Queue
  <2>4. QED
    BY <1>1, <2>1, <2>2, <2>3, SlotsAfterSubmit, Zenon
<1>7. QueueHoldsMessages'
  <2>1. \A j \in 1 .. msg_count - 1 : Queue[j + 1] \in Msgs
    BY <1>1, <1>2
  <2>2. QED
    BY <1>1, <1>6, <2>1, Zenon DEF QueueHoldsMessages
<1>8. Queue' = Tail(Queue)
  <2>1. Queue' \in Seq(Msgs) /\ Len(Queue') = msg_count - 1
    BY <1>1, <1>7 DEF QueueHoldsMessages, Queue
  <2>2. /\ Tail(Queue) \in Seq(Msgs) /\ Len(Tail(Queue)) = msg_count - 1
        /\ \A j \in 1 .. msg_count - 1 : Tail(Queue)[j] = Queue[j + 1]
    BY <1>2, <1>3, TailFacts, Zenon
  <2>3. QED
    BY <1>6, <2>1, <2>2, SameSequence, Zenon
<1>9. QED
  BY <1>1, <1>2, <1>3, <1>4, <1>5, <1>7, <1>8 DEF Ring
-----------------------------------------------------------------------------
(* The inductive invariant: TypeOK alone is not inductive, since what      *)
(* msg_submit() takes from the ring has to be a message.                   *)
IInv == TypeOK /\ QueueHoldsMessages

LEMMA InvInit == Init => IInv
<1> SUFFICES ASSUME Init PROVE IInv
  BY Zenon
<1>1. /\ registered \in BOOLEAN /\ con_mutex \in Contexts \cup {NULL}
      /\ cl \in Clients \cup {NULL} /\ txdone_method \in Methods
      /\ active_req \in Msgs \cup {NULL}
      /\ held \subseteq Clients /\ api \subseteq Msgs
  BY MailboxAssumption, Zenon DEF Init
<1>5. hw \in Seq(Msgs)
  BY DEF Init
<1>2. /\ msg_data \in [Slots -> Msgs \cup {NULL}] /\ msg_free \in Slots
      /\ msg_count \in 0 .. MBOX_TX_QUEUE_LEN
      /\ QueueHoldsMessages
  BY MailboxAssumption DEF Init, Slots, QueueHoldsMessages
<1>3. /\ pc \in [Contexts -> Labels]
      /\ mssg \in [Contexts -> Msgs \cup {NULL}]
      /\ status \in [Contexts -> {"ok", "err"}]
  BY Zenon DEF Init, Labels
<1>4. QED
  BY <1>1, <1>2, <1>3, <1>5, Zenon DEF IInv, TypeOK

LEMMA InvRing == IInv => Ring
  BY Zenon DEF IInv, TypeOK, Ring, L

(* A step that leaves the ring alone keeps the queue.                      *)
LEMMA RingUnchanged ==
  ASSUME IInv, UNCHANGED ring
  PROVE  QueueHoldsMessages' /\ Queue' = Queue
  BY Zenon DEF IInv, QueueHoldsMessages, Queue, ring, SlotAt, OldestSlot

(* tx_tick() preserves the types of what it changes.                       *)
LEMMA TickType ==
  ASSUME IInv, NEW x \in Contexts, NEW r \in {"ok", "err"}, tx_tick(x, r)
  PROVE  /\ mssg' \in [Contexts -> Msgs \cup {NULL}]
         /\ status' \in [Contexts -> {"ok", "err"}]
         /\ active_req' \in Msgs \cup {NULL}
         /\ pc' \in [Contexts -> Labels]
  BY Zenon DEF IInv, TypeOK, tx_tick, Labels

(* msg_submit() either leaves queue and active request alone or moves the  *)
(* head of the queue to the active request.                                *)
LEMMA SubmitMoves ==
  ASSUME IInv, NEW x \in Contexts, NEW next \in Labels, msg_submit(x, next)
  PROVE  /\ IInv'
         /\ \/ UNCHANGED <<Queue, active_req>>
            \/ /\ Queue # <<>> /\ active_req = NULL
               /\ active_req' = Head(Queue) /\ Queue' = Tail(Queue)
<1>1. /\ pc' \in [Contexts -> Labels]
      /\ UNCHANGED <<registered, con_mutex, cl, txdone_method, msg_data, msg_free,
                     mssg, status, held, api>>
  BY Zenon DEF IInv, TypeOK, msg_submit, Labels
<1>2. CASE UNCHANGED <<hw, active_req, msg_count>>
  <2>1. UNCHANGED ring
    BY <1>1, <1>2, Zenon DEF ring
  <2>2. TypeOK'
    BY <1>1, <1>2, Zenon DEF IInv, TypeOK
  <2>3. QED
    BY <1>2, <2>1, <2>2, RingUnchanged, Zenon DEF IInv
<1>3. CASE /\ Idle
           /\ active_req' = msg_data[OldestSlot(msg_free, msg_count)]
           /\ hw' = Append(hw, msg_data[OldestSlot(msg_free, msg_count)])
           /\ msg_count' = msg_count - 1
  <2>1. /\ Ring' /\ Queue # <<>> /\ Queue' = Tail(Queue)
        /\ active_req' = Head(Queue) /\ active_req' \in Msgs
    BY <1>1, <1>3, InvRing, SubmitTakesHead, Zenon DEF Idle
  <2>2. hw' \in Seq(Msgs)
    BY <1>3, <2>1 DEF IInv, TypeOK
  <2>3. TypeOK'
    BY <1>1, <2>1, <2>2, Zenon DEF IInv, TypeOK, Ring, L
  <2>4. QED
    BY <1>3, <2>1, <2>3, Zenon DEF IInv, Ring, Idle
<1>4. QED
  BY <1>2, <1>3, Zenon DEF msg_submit, send_data

-----------------------------------------------------------------------------
(* Every step preserves the invariant and is a step of the abstract queue  *)
(* or leaves it alone.                                                     *)
QueueStep ==
  \/ UNCHANGED <<Queue, active_req>>
  \/ \E m \in Msgs : /\ Len(Queue) < L /\ Queue' = Append(Queue, m)
                     /\ UNCHANGED active_req
  \/ /\ Queue # <<>> /\ active_req = NULL
     /\ active_req' = Head(Queue) /\ Queue' = Tail(Queue)
  \/ active_req # NULL /\ active_req' = NULL /\ UNCHANGED Queue
  \/ Queue' = <<>> /\ active_req' = NULL

(* A step that leaves the ring alone and at most ends the active request.  *)
LEMMA RingUnchangedStep ==
  ASSUME IInv, UNCHANGED ring, active_req' = active_req \/ active_req' = NULL
  PROVE  QueueHoldsMessages' /\ QueueStep
  BY RingUnchanged, Zenon DEF QueueStep

LEMMA StepClient ==
  ASSUME IInv, NEW t \in Threads, ClientStep(t)
  PROVE  IInv' /\ QueueStep
<1>0. t \in Contexts /\ ClientOf[t] \in Clients
  BY MailboxAssumption, Zenon DEF Contexts
<1>1. ASSUME NEW m \in Msgs, mbox_send_message(t, m)
      PROVE  IInv' /\ QueueStep
  <2>1. /\ Ring' /\ Queue \in Seq(Msgs) /\ Len(Queue) = msg_count
        /\ Queue' = Append(Queue, m)
    BY <1>1, InvRing, AddAppends, Zenon DEF mbox_send_message
  <2>2. TypeOK'
    BY <1>0, <1>1, <2>1, Zenon DEF IInv, TypeOK, Ring, L, mbox_send_message, Labels
  <2>3. msg_count < L
    BY <1>1, MailboxAssumption DEF IInv, TypeOK, mbox_send_message, RingFull, L
  <2>4. UNCHANGED active_req
    BY <1>1, Zenon DEF mbox_send_message
  <2>5. QED
    BY <2>1, <2>2, <2>3, <2>4, Zenon DEF IInv, Ring, QueueStep
<1>2. CASE mbox_client_txdone(t)
  <2>1. UNCHANGED ring /\ (active_req' = active_req \/ active_req' = NULL)
    BY <1>2, Zenon DEF mbox_client_txdone, tx_tick
  <2>2. hw' \in Seq(Msgs)
    BY <1>2, TailFacts, Zenon DEF IInv, TypeOK, mbox_client_txdone
  <2>3. TypeOK'
    <3>1. CASE tx_tick(t, "ok")
      BY <1>0, <1>2, <2>1, <2>2, <3>1, TickType, Zenon
      DEF IInv, TypeOK, ring, mbox_client_txdone
    <3>2. CASE UNCHANGED <<mssg, status, active_req, pc>>
      BY <1>2, <2>1, <2>2, <3>2, Zenon DEF IInv, TypeOK, ring, mbox_client_txdone
    <3>3. QED
      BY <1>2, <3>1, <3>2, Zenon DEF mbox_client_txdone
  <2>4. QED
    BY <2>1, <2>3, RingUnchangedStep, Zenon DEF IInv
<1>3. CASE mbox_flush(t)
  <2>1. UNCHANGED ring /\ active_req' = active_req
    BY <1>3, Zenon DEF mbox_flush, chan, ring
  <2>2. TypeOK'
    BY <1>0, <1>3, Zenon DEF IInv, TypeOK, mbox_flush, chan, Labels
  <2>3. QED
    BY <2>1, <2>2, RingUnchangedStep, Zenon DEF IInv
<1>4. CASE mbox_request_channel(t)
  <2>1. msg_count' = 0 /\ msg_free' = 0 /\ msg_data' = msg_data
    BY <1>4, Zenon DEF mbox_request_channel, Reset
  <2>2. Queue' = <<>> /\ QueueHoldsMessages'
    BY <2>1 DEF Queue, QueueHoldsMessages
  <2>3. TypeOK'
    BY <1>0, <1>4, <2>1, MailboxAssumption
    DEF IInv, TypeOK, mbox_request_channel, Slots, Labels, Methods
  <2>4. active_req' = NULL
    BY <1>4, Zenon DEF mbox_request_channel
  <2>5. QED
    BY <2>2, <2>3, <2>4, Zenon DEF IInv, QueueStep
<1>5. CASE mbox_free_channel(t)
  <2>1. UNCHANGED ring /\ active_req' = active_req
    BY <1>5, Zenon DEF mbox_free_channel, chan, ring
  <2>2. pc' \in [Contexts -> Labels] /\ held' \subseteq Clients
    BY <1>0, <1>5, Zenon DEF IInv, TypeOK, mbox_free_channel, Labels
  <2>3. hw' \in Seq(Msgs)
    <3>1. hw' = hw \/ hw' = <<>>
      BY <1>5, Zenon DEF mbox_free_channel
    <3>2. QED
      BY <3>1, EmptyFacts, Zenon DEF IInv, TypeOK
  <2>4. TypeOK'
    BY <1>5, <2>2, <2>3, Zenon DEF IInv, TypeOK, mbox_free_channel, chan
  <2>5. QED
    BY <2>1, <2>4, RingUnchangedStep, Zenon DEF IInv
<1>6. QED
  BY <1>1, <1>2, <1>3, <1>4, <1>5, Zenon DEF ClientStep

LEMMA StepContinue ==
  ASSUME IInv, NEW x \in Contexts, Continue(x)
  PROVE  IInv' /\ QueueStep
<1>1. CASE TickSubmit(x)
  <2>1. (IF mssg[x] = NULL THEN "idle" ELSE "done") \in Labels
    BY Zenon DEF Labels
  <2>2. QED
    BY <1>1, <2>1, SubmitMoves, Zenon DEF TickSubmit, QueueStep
<1>2. CASE TickDone(x)
  <2>1. UNCHANGED ring /\ active_req' = active_req
    BY <1>2, Zenon DEF TickDone, chan, ring
  <2>2. TypeOK'
    BY <1>2, Zenon DEF IInv, TypeOK, TickDone, chan, Labels
  <2>3. QED
    BY <2>1, <2>2, RingUnchangedStep, Zenon DEF IInv
<1>3. CASE FreeChannel(x)
  <2>1. UNCHANGED ring /\ active_req' = NULL
    BY <1>3, Zenon DEF FreeChannel, ring
  <2>2. txdone_method' \in Methods /\ con_mutex' \in Contexts \cup {NULL}
    BY <1>3, Zenon DEF IInv, TypeOK, FreeChannel, FreeMethod, Methods
  <2>3. TypeOK'
    BY <1>3, <2>1, <2>2, Zenon DEF IInv, TypeOK, FreeChannel, ring, Labels
  <2>4. QED
    BY <2>1, <2>3, RingUnchangedStep, Zenon DEF IInv
<1>4. QED
  BY <1>1, <1>2, <1>3, Zenon DEF Continue

LEMMA StepContinueClient ==
  ASSUME IInv, NEW t \in Threads, ContinueClient(t)
  PROVE  IInv' /\ QueueStep
<1>0. t \in Contexts /\ ClientOf[t] \in Clients
  BY MailboxAssumption, Zenon DEF Contexts
<1>1. CASE SendSubmit(t)
  <2>1. "idle" \in Labels
    BY Zenon DEF Labels
  <2>2. QED
    BY <1>0, <1>1, <2>1, SubmitMoves, Zenon DEF SendSubmit, QueueStep
<1>2. CASE FlushTick(t)
  <2>1. UNCHANGED ring /\ active_req' = NULL
    BY <1>2, Zenon DEF FlushTick, tx_tick
  <2>2. TypeOK'
    BY <1>0, <1>2, <2>1, TickType, Zenon DEF IInv, TypeOK, FlushTick, ring
  <2>3. QED
    BY <2>1, <2>2, RingUnchangedStep, Zenon DEF IInv
<1>3. CASE Startup(t)
  <2>1. UNCHANGED ring /\ active_req' = active_req
    BY <1>3, Zenon DEF Startup, chan, ring
  <2>2. /\ pc' \in [Contexts -> Labels] /\ held' \subseteq Clients
        /\ con_mutex' \in Contexts \cup {NULL}
    BY <1>0, <1>3, Zenon DEF IInv, TypeOK, Startup, Labels
  <2>3. hw' \in Seq(Msgs)
    <3>1. hw' = hw \/ hw' = <<>>
      BY <1>3, Zenon DEF Startup
    <3>2. QED
      BY <3>1, EmptyFacts, Zenon DEF IInv, TypeOK
  <2>4. TypeOK'
    BY <1>3, <2>2, <2>3, Zenon DEF IInv, TypeOK, Startup, chan
  <2>5. QED
    BY <2>1, <2>4, RingUnchangedStep, Zenon DEF IInv
<1>4. QED
  BY <1>1, <1>2, <1>3, Zenon DEF ContinueClient

LEMMA StepController ==
  ASSUME IInv,
         \/ mbox_chan_txdone
         \/ mbox_controller_register
         \/ mbox_controller_unregister
  PROVE  IInv' /\ QueueStep
<1>0. Irq \in Contexts /\ Driver \in Contexts
  BY Zenon DEF Contexts
<1>1. CASE mbox_chan_txdone
  <2>1. UNCHANGED ring /\ (active_req' = active_req \/ active_req' = NULL)
    BY <1>1, Zenon DEF mbox_chan_txdone, tx_tick
  <2>2. hw' \in Seq(Msgs)
    BY <1>1, TailFacts, Zenon DEF IInv, TypeOK, mbox_chan_txdone
  <2>3. CASE tx_tick(Irq, "ok")
    <3>1. TypeOK'
      BY <1>0, <1>1, <2>1, <2>2, <2>3, TickType, Zenon
      DEF IInv, TypeOK, ring, mbox_chan_txdone
    <3>2. QED
      BY <2>1, <3>1, RingUnchangedStep, Zenon DEF IInv
  <2>4. CASE UNCHANGED <<mssg, status, active_req, pc>>
    <3>1. TypeOK'
      BY <1>1, <2>1, <2>2, <2>4, Zenon DEF IInv, TypeOK, ring, mbox_chan_txdone
    <3>2. QED
      BY <2>1, <3>1, RingUnchangedStep, Zenon DEF IInv
  <2>5. QED
    BY <1>1, <2>3, <2>4, Zenon DEF mbox_chan_txdone
<1>2. CASE mbox_controller_register
  <2>1. UNCHANGED ring /\ active_req' = active_req
    BY <1>2, Zenon DEF mbox_controller_register
  <2>2. TypeOK'
    BY <1>2, MailboxAssumption, Zenon DEF IInv, TypeOK, ring, mbox_controller_register
  <2>3. QED
    BY <2>1, <2>2, RingUnchangedStep, Zenon DEF IInv
<1>3. CASE mbox_controller_unregister
  <2>1. UNCHANGED ring /\ active_req' = active_req
    BY <1>3, Zenon DEF mbox_controller_unregister, chan, ring
  <2>2. /\ pc' \in [Contexts -> Labels] /\ con_mutex' \in Contexts \cup {NULL}
        /\ registered' \in BOOLEAN
    BY <1>0, <1>3, Zenon DEF IInv, TypeOK, mbox_controller_unregister, Labels
  <2>3. hw' \in Seq(Msgs)
    <3>1. hw' = hw \/ hw' = <<>>
      BY <1>3, Zenon DEF mbox_controller_unregister
    <3>2. QED
      BY <3>1, EmptyFacts, Zenon DEF IInv, TypeOK
  <2>4. TypeOK'
    BY <1>3, <2>2, <2>3, Zenon DEF IInv, TypeOK, mbox_controller_unregister, chan
  <2>5. QED
    BY <2>1, <2>4, RingUnchangedStep, Zenon DEF IInv
<1>4. QED
  BY <1>1, <1>2, <1>3, Zenon

LEMMA StepNext ==
  IInv /\ [Next]_vars => IInv' /\ QueueStep
<1> SUFFICES ASSUME IInv, [Next]_vars PROVE IInv' /\ QueueStep
  BY Zenon
<1>1. CASE UNCHANGED vars
  <2>1. UNCHANGED ring /\ active_req' = active_req
    BY <1>1, Zenon DEF vars, chan, ring
  <2>2. TypeOK'
    BY <1>1, Zenon DEF IInv, TypeOK, vars, chan
  <2>3. QED
    BY <2>1, <2>2, RingUnchangedStep, Zenon DEF IInv
<1>2. CASE Next
  BY <1>2, StepClient, StepContinue, StepContinueClient, StepController, Zenon DEF Next
<1>3. QED
  BY <1>1, <1>2, Zenon

(* Type correctness: in particular msg_free stays an index of msg_data and *)
(* msg_count within the length of the ring, although add_to_rbuf() and     *)
(* msg_submit() run in separate critical sections of several contexts.     *)
THEOREM TypeCorrect == Spec => []TypeOK
<1>1. IInv => TypeOK
  BY Zenon DEF IInv
<1>2. QED
  BY InvInit, StepNext, <1>1, PTL DEF Spec

(* The ring implements the queue of MailboxFifo, for every length of the   *)
(* ring: messages reach the controller in the order mbox_send_message()    *)
(* accepted them and one at a time.                                        *)
THEOREM Refinement == ASSUME NonNullMessages PROVE Spec => ImplementsFifo
<1>1. Init => Fifo!Init
  <2> SUFFICES ASSUME Init PROVE Queue = <<>> /\ active_req = NULL
    BY Zenon DEF Fifo!Init
  <2>1. QED
    BY DEF Init, Queue
<1>2. QueueStep => [Fifo!Next]_<<Queue, active_req>>
  BY Zenon DEF QueueStep, L, Fifo!Next, Fifo!Enqueue, Fifo!Submit, Fifo!Complete, Fifo!Clear
<1>3. QED
  BY InvInit, StepNext, <1>1, <1>2, PTL DEF Spec, ImplementsFifo, Fifo!Spec

-----------------------------------------------------------------------------
(* Mailbox's contexts never fault, keep each message once and report only   *)
(* what was sent, for any ring length, any messages and threads.            *)

(* What follows is about a channel that one client uses at a time.  The    *)
(* test of mbox_request_channel() for an owner is compiled out, so this is *)
(* a duty of the callers: with two clients the statements fail (see        *)
(* ExclusiveOwner).                                                        *)
SingleClient == \A t, u \in Threads : ClientOf[t] = ClientOf[u]

(* A context that is taking or giving back the channel is alone in the     *)
(* framework's code, and without a client nobody is in it: the order of    *)
(* shutdown(), the critical sections and con_mutex leaves no ticker behind.*)
Entering == {"startup", "free"}

Turns ==
  /\ cl = NULL => /\ hw = <<>> /\ api = {}
                  /\ \A x \in Contexts : pc[x] = "idle"
  /\ \A x \in Contexts : pc[x] \in Entering =>
       /\ cl # NULL /\ hw = <<>>
       /\ \A y \in Contexts \ {x} : pc[y] = "idle"
       /\ x \in Threads => ClientOf[x] \notin held
       /\ pc[x] = "startup" => x \in Threads /\ con_mutex = x
       /\ x = Driver => con_mutex = Driver
       /\ x # Irq
  /\ cl # NULL => \/ \E t \in Threads : ClientOf[t] \in held
                  \/ \E x \in Contexts : pc[x] \in Entering
  /\ ~registered => /\ con_mutex \notin Threads
                    /\ con_mutex = NULL => cl = NULL
  /\ pc[Driver] \in {"idle", "free"}
  /\ NoFault

(* The context x has taken a message from active_req and not reported it.  *)
Ticking(x) == pc[x] \in {"tick", "done"} /\ mssg[x] # NULL

(* MessageKeptOnce without counting: the queue, the active request and the *)
(* tickers share no message, and together they have those of api.          *)
Kept ==
  cl # NULL =>
    /\ \A j, k \in 1 .. msg_count : Queue[j] = Queue[k] => j = k
    /\ \A j \in 1 .. msg_count : Queue[j] # active_req
    /\ \A x, y \in Contexts :
         Ticking(x) /\ Ticking(y) /\ mssg[x] = mssg[y] => x = y
    /\ \A x \in Contexts : Ticking(x) =>
         /\ mssg[x] # active_req
         /\ \A j \in 1 .. msg_count : Queue[j] # mssg[x]
    /\ \A m \in Msgs :
         m \in api <=> \/ \E j \in 1 .. msg_count : Queue[j] = m
                       \/ active_req = m
                       \/ \E x \in Contexts : Ticking(x) /\ mssg[x] = m

(* How much a controller that polls, or one with an interrupt and no       *)
(* flush(), transmits at once.                                             *)
OneInFlight ==
  /\ TxDone = "poll" => Len(hw) <= 1 /\ txdone_method # "irq"
  /\ TxDone = "irq" => txdone_method = "irq"
  /\ ~CanFlush => \A x \in Contexts : pc[x] # "flush"
  /\ TxDone = "irq" /\ ~CanFlush => hw = <<>> \/ hw = <<active_req>>

-----------------------------------------------------------------------------
LEMMA TurnsInit == Init => Turns
<1> SUFFICES ASSUME Init PROVE Turns
  BY Zenon
<1>1. \A x \in Contexts : pc[x] = "idle"
  BY Zenon DEF Init
<1>2. cl = NULL /\ hw = <<>> /\ api = {} /\ con_mutex = NULL
      /\ NULL \notin Threads /\ Driver \in Contexts
  BY MailboxAssumption, Zenon DEF Init, Contexts
<1>3. QED
  BY <1>1, <1>2, Zenon DEF Turns, NoFault, Entering

(* A context in the middle of its work, a transmission, or a client that   *)
(* may call exclude that the channel is changing hands.                    *)
LEMMA NobodyEnters ==
  ASSUME Turns, SingleClient,
         NEW x \in Contexts, pc[x] \notin Entering,
         pc[x] # "idle" \/ hw # <<>> \/ (x \in Threads /\ Callable(x))
  PROVE  \A y \in Contexts : pc[y] \notin Entering
<1> SUFFICES ASSUME NEW y \in Contexts, pc[y] \in Entering PROVE FALSE
  BY Zenon
<1>1. x # y /\ pc[x] = "idle" /\ hw = <<>>
  BY Zenon DEF Turns
<1>2. x \in Threads /\ ClientOf[x] \in held /\ con_mutex # Driver
  BY <1>1, Zenon DEF Callable
<1>3. y \in Threads /\ ClientOf[y] \notin held
  BY <1>2, Zenon DEF Turns, Contexts
<1>4. QED
  BY <1>2, <1>3, Zenon DEF SingleClient

(* Steps while the channel has a client and stays with it.                 *)
LEMMA TurnsWork ==
  ASSUME IInv, Turns, cl # NULL, \A y \in Contexts : pc[y] \notin Entering,
         NEW x \in Contexts \ {Driver},
         NEW l \in Labels, l \notin Entering, l # "fault",
         pc' = pc \/ pc' = [pc EXCEPT ![x] = l],
         UNCHANGED <<registered, con_mutex, cl, held>>
  PROVE  Turns'
<1>1. /\ \A y \in Contexts : pc'[y] \notin Entering /\ pc'[y] # "fault"
      /\ pc'[Driver] = pc[Driver]
  BY Zenon DEF IInv, TypeOK, Turns, NoFault, Contexts
<1>2. \E t \in Threads : ClientOf[t] \in held
  BY Zenon DEF Turns
<1>3. QED
  BY <1>1, <1>2, Zenon DEF Turns, NoFault

LEMMA TurnsSubmit ==
  ASSUME IInv, Turns, SingleClient,
         NEW x \in Contexts, NEW l \in {"idle", "done"},
         pc[x] \in {"submit", "tick"}, msg_submit(x, l)
  PROVE  Turns' /\ cl # NULL /\ pc' = [pc EXCEPT ![x] = l]
<1>1. cl # NULL /\ x # Driver
  BY Zenon DEF Turns
<1>2. pc' = [pc EXCEPT ![x] = l] /\ UNCHANGED <<registered, con_mutex, cl, held>>
  BY <1>1, Zenon DEF msg_submit
<1>3. \A y \in Contexts : pc[y] \notin Entering
  BY NobodyEnters, Zenon DEF Entering
<1>4. l \in Labels /\ l \notin Entering /\ l # "fault"
  BY Zenon DEF Labels, Entering
<1>5. Turns'
  BY <1>1, <1>2, <1>3, <1>4, TurnsWork, Zenon
<1>6. QED
  BY <1>1, <1>2, <1>5, Zenon

(* With one client, mbox_request_channel() finds a channel without owner,  *)
(* although it does not look.                                              *)
LEMMA RequestFindsNone ==
  ASSUME Turns, SingleClient, NEW t \in Threads, mbox_request_channel(t)
  PROVE  cl = NULL
<1>1. /\ ClientOf[t] \notin held /\ Quiet(ClientOf[t]) /\ con_mutex = NULL
  BY Zenon DEF mbox_request_channel
<1>2. \A u \in Threads : pc[u] = "idle" /\ ClientOf[u] \notin held
  BY <1>1, Zenon DEF Quiet, SingleClient
<1>3. QED
  BY <1>1, <1>2, MailboxAssumption, Zenon DEF Turns, Contexts, Entering

LEMMA TurnsClient ==
  ASSUME IInv, Turns, SingleClient, NEW t \in Threads, ClientStep(t)
  PROVE  Turns'
<1>0. t \in Contexts /\ t # Driver /\ t # Irq /\ ClientOf[t] # NULL /\ t # NULL
  BY MailboxAssumption, Zenon DEF Contexts
<1>1. \A l \in {"submit", "tick", "flush"} : l \in Labels /\ l \notin Entering /\ l # "fault"
  BY Zenon DEF Labels, Entering
<1>2. Callable(t) => \A y \in Contexts : pc[y] \notin Entering
  BY <1>0, NobodyEnters, Zenon DEF Callable, Entering
<1>3. hw # <<>> => cl # NULL
  BY Zenon DEF Turns
<1>4. ASSUME NEW m \in Msgs, mbox_send_message(t, m) PROVE Turns'
  <2>1. /\ Callable(t) /\ cl # NULL /\ pc' = [pc EXCEPT ![t] = "submit"]
        /\ UNCHANGED <<registered, con_mutex, cl, held>>
    BY <1>4, Zenon DEF mbox_send_message
  <2>2. QED
    BY <1>0, <1>1, <1>2, <2>1, TurnsWork, Zenon
<1>5. CASE mbox_client_txdone(t)
  <2>1. /\ Callable(t) /\ hw # <<>>
        /\ pc' = pc \/ pc' = [pc EXCEPT ![t] = "tick"]
        /\ UNCHANGED <<registered, con_mutex, cl, held>>
    BY <1>5, Zenon DEF mbox_client_txdone, tx_tick
  <2>2. QED
    BY <1>0, <1>1, <1>2, <1>3, <2>1, TurnsWork, Zenon
<1>6. CASE mbox_flush(t)
  <2>1. /\ Callable(t) /\ hw # <<>> /\ pc' = [pc EXCEPT ![t] = "flush"]
        /\ UNCHANGED <<registered, con_mutex, cl, held>>
    BY <1>6, Zenon DEF mbox_flush, chan
  <2>2. QED
    BY <1>0, <1>1, <1>2, <1>3, <2>1, TurnsWork, Zenon
<1>7. CASE mbox_request_channel(t)
  <2>1. /\ con_mutex = NULL /\ registered /\ registered' /\ ClientOf[t] \notin held
        /\ con_mutex' = t /\ cl' = ClientOf[t] /\ pc' = [pc EXCEPT ![t] = "startup"]
        /\ UNCHANGED <<hw, held>>
    BY <1>7, Zenon DEF mbox_request_channel
  <2>4. cl = NULL
    BY <1>7, RequestFindsNone, Zenon
  <2>5. hw = <<>> /\ \A y \in Contexts : pc[y] = "idle"
    BY <2>4, Zenon DEF Turns
  <2>6. pc'[t] = "startup" /\ \A y \in Contexts \ {t} : pc'[y] = "idle"
    BY <1>0, <2>1, <2>5, Zenon DEF IInv, TypeOK
  <2>7. QED
    BY <1>0, <2>1, <2>5, <2>6, Zenon DEF Turns, NoFault, Entering, Contexts
<1>8. CASE mbox_free_channel(t)
  <2>1. /\ Callable(t) /\ \A u \in Threads : pc[u] = "idle"
        /\ held' = held \ {ClientOf[t]}
        /\ UNCHANGED <<registered, con_mutex, cl, api>>
    BY <1>8, Zenon DEF mbox_free_channel, Quiet, SingleClient, chan
  <2>2. CASE cl = NULL
    <3>1. UNCHANGED <<hw, pc>>
      BY <1>8, <2>2, Zenon DEF mbox_free_channel
    <3>2. QED
      BY <2>1, <2>2, <3>1, Zenon DEF Turns, NoFault, Entering
  <2>3. CASE cl # NULL
    <3>1. pc[Irq] = "idle" /\ hw' = <<>> /\ pc' = [pc EXCEPT ![t] = "free"]
      BY <1>8, <2>3, Zenon DEF mbox_free_channel
    <3>2. pc[Driver] = "idle"
      BY <1>2, <2>1, Zenon DEF Turns, Contexts, Entering
    <3>3. pc'[t] = "free" /\ \A y \in Contexts \ {t} : pc'[y] = "idle"
      BY <1>0, <2>1, <3>1, <3>2, Zenon DEF IInv, TypeOK, Contexts
    <3>4. QED
      BY <1>0, <2>1, <2>3, <3>1, <3>3, Zenon DEF Turns, NoFault, Entering, Contexts
  <2>4. QED
    BY <2>2, <2>3, Zenon
<1>9. QED
  BY <1>4, <1>5, <1>6, <1>7, <1>8, Zenon DEF ClientStep

LEMMA TurnsContinue ==
  ASSUME IInv, Turns, SingleClient, NEW x \in Contexts, Continue(x)
  PROVE  Turns'
<1>1. CASE TickSubmit(x)
  <2>1. (IF mssg[x] = NULL THEN "idle" ELSE "done") \in {"idle", "done"}
    BY Zenon
  <2>2. QED
    BY <1>1, <2>1, TurnsSubmit, Zenon DEF TickSubmit
<1>2. CASE TickDone(x)
  <2>1. /\ pc[x] = "done" /\ pc' = [pc EXCEPT ![x] = "idle"]
        /\ UNCHANGED <<registered, con_mutex, cl, held>>
    BY <1>2, Zenon DEF TickDone, chan
  <2>2. cl # NULL /\ x # Driver
    BY <2>1, Zenon DEF Turns
  <2>3. \A y \in Contexts : pc[y] \notin Entering
    BY <2>1, NobodyEnters, Zenon DEF Entering
  <2>4. "idle" \in Labels /\ "idle" \notin Entering
    BY Zenon DEF Labels, Entering
  <2>5. QED
    BY <2>1, <2>2, <2>3, <2>4, TurnsWork, Zenon
<1>3. CASE FreeChannel(x)
  <2>1. /\ pc[x] \in Entering
        /\ cl' = NULL /\ api' = {} /\ pc' = [pc EXCEPT ![x] = "idle"]
        /\ con_mutex' = (IF con_mutex = x THEN NULL ELSE con_mutex)
        /\ UNCHANGED <<registered, hw, held>>
    BY <1>3, Zenon DEF FreeChannel, Entering
  <2>2. hw = <<>> /\ \A y \in Contexts \ {x} : pc[y] = "idle"
    BY <2>1, Zenon DEF Turns
  <2>3. \A y \in Contexts : pc'[y] = "idle"
    BY <2>1, <2>2, Zenon DEF IInv, TypeOK
  <2>4. Driver \in Contexts /\ NULL \notin Threads
    BY MailboxAssumption, Zenon DEF Contexts
  <2>5. QED
    BY <2>1, <2>2, <2>3, <2>4, Zenon DEF Turns, NoFault, Entering
<1>4. QED
  BY <1>1, <1>2, <1>3, Zenon DEF Continue

LEMMA TurnsContinueClient ==
  ASSUME IInv, Turns, SingleClient, NEW t \in Threads, ContinueClient(t)
  PROVE  Turns'
<1>0. t \in Contexts /\ t # Driver /\ Driver \in Contexts
  BY MailboxAssumption, Zenon DEF Contexts
<1>1. CASE SendSubmit(t)
  BY <1>0, <1>1, TurnsSubmit, Zenon DEF SendSubmit
<1>2. CASE FlushTick(t)
  <2>1. /\ pc[t] = "flush" /\ pc' = [pc EXCEPT ![t] = "tick"]
        /\ UNCHANGED <<registered, con_mutex, cl, held>>
    BY <1>2, Zenon DEF FlushTick, tx_tick
  <2>2. cl # NULL
    BY <1>0, <2>1, Zenon DEF Turns
  <2>3. \A y \in Contexts : pc[y] \notin Entering
    BY <1>0, <2>1, NobodyEnters, Zenon DEF Entering
  <2>4. "tick" \in Labels /\ "tick" \notin Entering
    BY Zenon DEF Labels, Entering
  <2>5. QED
    BY <1>0, <2>1, <2>2, <2>3, <2>4, TurnsWork, Zenon
<1>3. CASE Startup(t)
  <2>1. pc[t] = "startup" /\ UNCHANGED <<registered, cl>>
    BY <1>3, Zenon DEF Startup, chan
  <2>2. /\ cl # NULL /\ hw = <<>> /\ con_mutex = t /\ ClientOf[t] \notin held
        /\ \A y \in Contexts \ {t} : pc[y] = "idle"
    BY <1>0, <2>1, Zenon DEF Turns, Entering
  <2>3. registered
    BY <2>2, Zenon DEF Turns
  <2>4. CASE /\ pc' = [pc EXCEPT ![t] = "idle"]
             /\ held' = held \cup {ClientOf[t]} /\ con_mutex' = NULL
             /\ UNCHANGED hw
    <3>1. \A y \in Contexts : pc'[y] = "idle"
      BY <2>2, <2>4, Zenon DEF IInv, TypeOK
    <3>2. QED
      BY <1>0, <2>1, <2>2, <2>3, <2>4, <3>1, Zenon DEF Turns, NoFault, Entering
  <2>5. CASE /\ hw' = <<>> /\ pc' = [pc EXCEPT ![t] = "free"]
             /\ UNCHANGED <<held, con_mutex>>
    <3>1. pc'[t] = "free" /\ \A y \in Contexts \ {t} : pc'[y] = "idle"
      BY <1>0, <2>2, <2>5, Zenon DEF IInv, TypeOK
    <3>2. t # Irq
      BY MailboxAssumption, Zenon
    <3>3. QED
      BY <1>0, <2>1, <2>2, <2>3, <2>5, <3>1, <3>2, Zenon DEF Turns, NoFault, Entering
  <2>6. QED
    BY <1>3, <2>4, <2>5, Zenon DEF Startup
<1>4. QED
  BY <1>1, <1>2, <1>3, Zenon DEF ContinueClient

LEMMA TurnsController ==
  ASSUME IInv, Turns, SingleClient,
         \/ mbox_chan_txdone
         \/ mbox_controller_register
         \/ mbox_controller_unregister
  PROVE  Turns'
<1>0. /\ Irq \in Contexts \ {Driver} /\ Driver \in Contexts
      /\ Driver \notin Threads /\ NULL \notin Threads /\ NULL # Driver
  BY MailboxAssumption, Zenon DEF Contexts
<1>1. CASE mbox_chan_txdone
  <2>1. /\ pc[Irq] = "idle" /\ hw # <<>>
        /\ pc' = pc \/ pc' = [pc EXCEPT ![Irq] = "tick"]
        /\ UNCHANGED <<registered, con_mutex, cl, held>>
    BY <1>1, Zenon DEF mbox_chan_txdone, tx_tick
  <2>2. cl # NULL
    BY <2>1, Zenon DEF Turns
  <2>3. \A y \in Contexts : pc[y] \notin Entering
    BY <1>0, <2>1, NobodyEnters, Zenon DEF Entering
  <2>4. "tick" \in Labels /\ "tick" \notin Entering
    BY Zenon DEF Labels, Entering
  <2>5. QED
    BY <1>0, <2>1, <2>2, <2>3, <2>4, TurnsWork, Zenon
<1>2. CASE mbox_controller_register
  <2>1. /\ ~registered /\ con_mutex = NULL /\ registered' /\ cl' = NULL
        /\ UNCHANGED <<con_mutex, hw, pc, held, api>>
    BY <1>2, Zenon DEF mbox_controller_register
  <2>2. cl = NULL
    BY <2>1, Zenon DEF Turns
  <2>3. QED
    BY <1>0, <2>1, <2>2, Zenon DEF Turns, NoFault, Entering
<1>3. CASE mbox_controller_unregister
  <2>1. /\ con_mutex = NULL /\ \A t \in Threads : pc[t] = "idle"
        /\ UNCHANGED <<cl, held, api>>
    BY <1>3, Zenon DEF mbox_controller_unregister, chan
  <2>2. CASE cl = NULL
    <3>1. UNCHANGED <<con_mutex, hw, pc>>
      BY <1>3, <2>2, Zenon DEF mbox_controller_unregister
    <3>2. QED
      BY <1>0, <2>1, <2>2, <3>1, Zenon DEF Turns, NoFault, Entering
  <2>3. CASE cl # NULL
    <3>1. /\ pc[Irq] = "idle" /\ con_mutex' = Driver /\ hw' = <<>>
          /\ pc' = [pc EXCEPT ![Driver] = "free"]
      BY <1>3, <2>3, Zenon DEF mbox_controller_unregister
    <3>2. pc'[Driver] = "free" /\ \A y \in Contexts \ {Driver} : pc'[y] = "idle"
      BY <1>0, <2>1, <3>1, Zenon DEF IInv, TypeOK, Contexts
    <3>3. QED
      BY <1>0, <2>1, <2>3, <3>1, <3>2, Zenon DEF Turns, NoFault, Entering
  <2>4. QED
    BY <2>2, <2>3, Zenon
<1>4. QED
  BY <1>1, <1>2, <1>3, Zenon

-----------------------------------------------------------------------------
(* The message that a step moves has one place before it and one after it. *)

(* Steps that move no message, or that end with no client.                 *)
LEMMA KeptUnchanged ==
  ASSUME IInv, Kept, UNCHANGED <<ring, active_req, mssg, api>>,
         cl' = cl \/ cl' = NULL,
         \A y \in Contexts : Ticking(y)' <=> Ticking(y)
  PROVE  Kept'
<1>1. Queue' = Queue /\ msg_count' = msg_count
  BY RingUnchanged, Zenon DEF ring
<1>2. QED
  BY <1>1, Zenon DEF Kept

(* tx_tick() moves the active request to the context that ticks.           *)
LEMMA KeptTick ==
  ASSUME IInv, Kept, NonNullMessages, NEW x \in Contexts, NEW r,
         ~Ticking(x), tx_tick(x, r), UNCHANGED <<cl, ring, api>>
  PROVE  Kept'
<1>1. Queue' = Queue /\ msg_count' = msg_count
  BY RingUnchanged, Zenon DEF ring
<1>2. /\ mssg'[x] = active_req /\ \A y \in Contexts \ {x} : mssg'[y] = mssg[y]
      /\ active_req' = NULL /\ active_req \in Msgs \cup {NULL}
  BY Zenon DEF IInv, TypeOK, tx_tick
<1>3. /\ Ticking(x)' <=> active_req # NULL
      /\ \A y \in Contexts \ {x} : Ticking(y)' <=> Ticking(y)
  BY Zenon DEF IInv, TypeOK, tx_tick, Ticking
<1>4. \A j \in 1 .. msg_count : Queue[j] # NULL
  BY Zenon DEF IInv, QueueHoldsMessages, NonNullMessages
<1>5. \A y \in Contexts : Ticking(y)' => mssg'[y] # NULL
  BY Zenon DEF Ticking
<1>6. CASE cl = NULL
  BY <1>6, Zenon DEF Kept
<1>7. CASE cl # NULL
  <2>1. /\ \A y, z \in Contexts :
             Ticking(y)' /\ Ticking(z)' /\ mssg'[y] = mssg'[z] => y = z
        /\ \A y \in Contexts : Ticking(y)' =>
             \A j \in 1 .. msg_count : Queue[j] # mssg'[y]
    BY <1>2, <1>3, <1>7, Zenon DEF Kept
  <2>2. \A m \in Msgs :
          (\E y \in Contexts : Ticking(y)' /\ mssg'[y] = m)
            <=> (active_req = m \/ \E y \in Contexts : Ticking(y) /\ mssg[y] = m)
    BY <1>2, <1>3, Zenon DEF NonNullMessages
  <2>3. \A m \in Msgs :
          m \in api <=> \/ \E j \in 1 .. msg_count : Queue[j] = m
                        \/ active_req = m
                        \/ \E y \in Contexts : Ticking(y) /\ mssg[y] = m
    BY <1>7, Zenon DEF Kept
  <2>4. \A j, k \in 1 .. msg_count : Queue[j] = Queue[k] => j = k
    BY <1>7, Zenon DEF Kept
  <2>5. \A m \in Msgs :
          m \in api <=> \/ \E j \in 1 .. msg_count : Queue[j] = m
                        \/ active_req' = m
                        \/ \E y \in Contexts : Ticking(y)' /\ mssg'[y] = m
    BY <1>2, <2>2, <2>3, Zenon DEF NonNullMessages
  <2>6. QED
    BY <1>1, <1>2, <1>4, <1>5, <1>7, <2>1, <2>4, <2>5, Zenon DEF Kept
<1>8. QED
  BY <1>6, <1>7, Zenon

(* msg_submit() moves the head of the queue to the active request.         *)
LEMMA KeptSubmit ==
  ASSUME IInv, Kept, NonNullMessages, NEW x \in Contexts, NEW l \in {"idle", "done"},
         cl # NULL, msg_submit(x, l),
         \/ pc[x] = "submit" /\ l = "idle"
         \/ pc[x] = "tick" /\ l = IF mssg[x] = NULL THEN "idle" ELSE "done"
  PROVE  Kept'
<1>1. /\ pc' = [pc EXCEPT ![x] = l]
      /\ UNCHANGED <<cl, msg_data, msg_free, mssg, api>>
  BY Zenon DEF msg_submit
<1>2. \A y \in Contexts : Ticking(y)' <=> Ticking(y)
  BY <1>1, Zenon DEF IInv, TypeOK, Ticking
<1>3. CASE UNCHANGED <<hw, active_req, msg_count>>
  BY <1>1, <1>2, <1>3, KeptUnchanged, Zenon DEF ring
<1>4. CASE /\ Idle
           /\ active_req' = msg_data[OldestSlot(msg_free, msg_count)]
           /\ msg_count' = msg_count - 1
  <2>1. /\ Queue \in Seq(Msgs) /\ Queue # <<>> /\ Queue' = Tail(Queue)
        /\ active_req' = Head(Queue) /\ active_req = NULL
    BY <1>1, <1>4, InvRing, SubmitTakesHead, Zenon DEF Idle
  <2>2. Len(Queue) = msg_count /\ msg_count \in Nat /\ msg_count' \in Nat
    BY <2>1, MailboxAssumption, <1>4 DEF Queue, IInv, TypeOK, Idle
  <2>3. /\ active_req' = Queue[1] /\ Queue[1] \in Msgs
        /\ \A j \in 1 .. msg_count' : Queue'[j] = Queue[j + 1] /\ j + 1 \in 1 .. msg_count
    BY <1>4, <2>1, <2>2, TailFacts
  <2>4. \A j \in 1 .. msg_count : j = 1 \/ (j - 1 \in 1 .. msg_count' /\ Queue'[j - 1] = Queue[j])
    BY <1>4, <2>2, <2>3
  <2>5. 1 \in 1 .. msg_count
    BY <1>4, <2>2 DEF Idle
  <2>6. /\ \A j, k \in 1 .. msg_count' : Queue'[j] = Queue'[k] => j = k
        /\ \A j \in 1 .. msg_count' : Queue'[j] # active_req'
    BY <2>2, <2>3, <2>5 DEF Kept
  <2>7. \A y \in Contexts : Ticking(y)' =>
          /\ mssg'[y] # active_req'
          /\ \A j \in 1 .. msg_count' : Queue'[j] # mssg'[y]
    BY <1>1, <1>2, <2>3, <2>5 DEF Kept
  <2>8. \A m \in Msgs : (\E j \in 1 .. msg_count : Queue[j] = m)
                          <=> active_req' = m \/ \E j \in 1 .. msg_count' : Queue'[j] = m
    BY <2>3, <2>4, <2>5
  <2>9. QED
    BY <1>1, <1>2, <2>1, <2>6, <2>7, <2>8, Zenon DEF Kept, NonNullMessages
<1>5. QED
  BY <1>3, <1>4, Zenon DEF msg_submit, send_data

(* mbox_send_message() takes a message the framework does not hold.        *)
LEMMA KeptSend ==
  ASSUME IInv, Kept, NonNullMessages, NEW t \in Contexts, NEW m \in Msgs,
         mbox_send_message(t, m)
  PROVE  Kept'
<1>1. /\ Queue \in Seq(Msgs) /\ Len(Queue) = msg_count /\ Queue' = Append(Queue, m)
      /\ msg_count' = msg_count + 1 /\ msg_count \in Nat
  <2>1. add_to_rbuf(m) /\ ~RingFull /\ Ring
    BY InvRing, Zenon DEF mbox_send_message
  <2>2. msg_count' = msg_count + 1 /\ msg_count \in Nat
    BY <2>1, MailboxAssumption DEF add_to_rbuf, IInv, TypeOK
  <2>3. QED
    BY <2>1, <2>2, AddAppends, Zenon
<1>2. /\ m \notin api /\ cl # NULL /\ api' = api \cup {m}
      /\ pc[t] = "idle" /\ pc' = [pc EXCEPT ![t] = "submit"]
      /\ UNCHANGED <<cl, active_req, mssg>>
  BY Zenon DEF mbox_send_message, Callable
<1>3. \A y \in Contexts : Ticking(y)' <=> Ticking(y)
  BY <1>2, Zenon DEF IInv, TypeOK, Ticking
<1>4. /\ \A j \in 1 .. msg_count : Queue'[j] = Queue[j]
      /\ Queue'[msg_count + 1] = m
      /\ 1 .. msg_count' = (1 .. msg_count) \cup {msg_count + 1}
      /\ msg_count + 1 \notin 1 .. msg_count
  BY <1>1, AppendFacts
<1>5. /\ \A j \in 1 .. msg_count : Queue[j] # m
      /\ active_req # m
      /\ \A y \in Contexts : Ticking(y) => mssg[y] # m
  BY <1>2, Zenon DEF Kept
<1>6. /\ \A j, k \in 1 .. msg_count' : Queue'[j] = Queue'[k] => j = k
      /\ \A j \in 1 .. msg_count' : Queue'[j] # active_req
      /\ \A y \in Contexts : Ticking(y) => \A j \in 1 .. msg_count' : Queue'[j] # mssg[y]
  BY <1>2, <1>4, <1>5, Zenon DEF Kept
<1>7. \A n \in Msgs : (\E j \in 1 .. msg_count' : Queue'[j] = n)
                        <=> n = m \/ \E j \in 1 .. msg_count : Queue[j] = n
  BY <1>4, Zenon
<1>8. QED
  BY <1>2, <1>3, <1>6, <1>7, Zenon DEF Kept

(* The client's tx_done() ends the framework's hold on the message.        *)
LEMMA KeptDone ==
  ASSUME IInv, Kept, NonNullMessages, NEW x \in Contexts, TickDone(x)
  PROVE  Kept'
<1>1. /\ pc[x] = "done" /\ pc' = [pc EXCEPT ![x] = "idle"]
      /\ api' = api \ {mssg[x]} /\ mssg' = [mssg EXCEPT ![x] = NULL]
      /\ UNCHANGED <<cl, ring, active_req>>
  BY Zenon DEF TickDone, chan, ring
<1>2. Queue' = Queue /\ msg_count' = msg_count
  BY <1>1, RingUnchanged, Zenon DEF ring
<1>3. /\ ~Ticking(x)'
      /\ \A y \in Contexts \ {x} : (Ticking(y)' <=> Ticking(y)) /\ mssg'[y] = mssg[y]
  BY <1>1, Zenon DEF IInv, TypeOK, Ticking
<1>4. mssg[x] # NULL => Ticking(x)
  BY <1>1, Zenon DEF Ticking
<1>5. CASE cl = NULL
  BY <1>1, <1>5, Zenon DEF Kept
<1>6. CASE cl # NULL
  <2>1. \A m \in Msgs : m # mssg[x] =>
          ((\E y \in Contexts : Ticking(y)' /\ mssg'[y] = m)
             <=> \E y \in Contexts : Ticking(y) /\ mssg[y] = m)
    BY <1>3, Zenon
  <2>2. ~(\E y \in Contexts : Ticking(y)' /\ mssg'[y] = mssg[x] /\ mssg[x] # NULL)
    BY <1>3, <1>4, <1>6, Zenon DEF Kept
  <2>3. \A m \in Msgs :
          m \in api' <=> \/ \E j \in 1 .. msg_count : Queue[j] = m
                         \/ active_req = m
                         \/ \E y \in Contexts : Ticking(y)' /\ mssg'[y] = m
    BY <1>1, <1>4, <1>6, <2>1, <2>2, Zenon DEF Kept, NonNullMessages
  <2>4. \A y, z \in Contexts :
          Ticking(y)' /\ Ticking(z)' /\ mssg'[y] = mssg'[z] => y = z
    BY <1>3, <1>6, Zenon DEF Kept
  <2>5. \A y \in Contexts : Ticking(y)' =>
          mssg'[y] # active_req /\ \A j \in 1 .. msg_count : Queue[j] # mssg'[y]
    BY <1>3, <1>6, Zenon DEF Kept
  <2>6. QED
    BY <1>1, <1>2, <1>6, <2>3, <2>4, <2>5, Zenon DEF Kept
<1>7. QED
  BY <1>5, <1>6, Zenon

LEMMA KeptStep ==
  ASSUME IInv, Turns, Kept, SingleClient, NonNullMessages, [Next]_vars, Turns'
  PROVE  Kept'
<1>0. /\ Irq \in Contexts /\ Driver \in Contexts
      /\ \A t \in Threads : t \in Contexts /\ ClientOf[t] # NULL
  BY MailboxAssumption, Zenon DEF Contexts
<1>1. ASSUME NEW t \in Threads, ClientStep(t) PROVE Kept'
  <2>1. ASSUME NEW m \in Msgs, mbox_send_message(t, m) PROVE Kept'
    BY <1>0, <2>1, KeptSend, Zenon
  <2>2. CASE mbox_client_txdone(t)
    <3>1. ~Ticking(t) /\ UNCHANGED <<cl, ring, api>>
      BY <2>2, Zenon DEF mbox_client_txdone, Callable, Ticking
    <3>2. CASE tx_tick(t, "ok")
      BY <1>0, <3>1, <3>2, KeptTick, Zenon
    <3>3. CASE UNCHANGED <<mssg, status, active_req, pc>>
      BY <3>1, <3>3, KeptUnchanged, Zenon DEF Ticking
    <3>4. QED
      BY <2>2, <3>2, <3>3, Zenon DEF mbox_client_txdone
  <2>3. CASE mbox_flush(t)
    <3>1. /\ pc[t] = "idle" /\ pc' = [pc EXCEPT ![t] = "flush"]
          /\ UNCHANGED <<cl, ring, active_req, mssg, api>>
      BY <2>3, Zenon DEF mbox_flush, Callable, chan, ring
    <3>2. \A y \in Contexts : Ticking(y)' <=> Ticking(y)
      BY <3>1, Zenon DEF IInv, TypeOK, Ticking
    <3>3. QED
      BY <3>1, <3>2, KeptUnchanged, Zenon
  <2>4. CASE mbox_request_channel(t)
    <3>1. /\ msg_count' = 0 /\ active_req' = NULL /\ pc'[t] = "startup"
          /\ UNCHANGED api
      BY <1>0, <2>4, Zenon DEF mbox_request_channel, Reset, IInv, TypeOK
    <3>2. \A y \in Contexts : ~Ticking(y)'
      BY <1>0, <3>1, Zenon DEF Turns, Entering, Ticking
    <3>3. cl = NULL
      BY <2>4, RequestFindsNone, Zenon
    <3>4. api' = {}
      BY <3>1, <3>3, Zenon DEF Turns
    <3>5. QED
      BY <3>1, <3>2, <3>4 DEF Kept, NonNullMessages
  <2>5. CASE mbox_free_channel(t)
    <3>1. /\ pc[t] = "idle"
          /\ pc' = pc \/ pc' = [pc EXCEPT ![t] = "free"]
          /\ UNCHANGED <<cl, ring, active_req, mssg, api>>
      BY <2>5, Zenon DEF mbox_free_channel, Callable, chan, ring
    <3>2. \A y \in Contexts : Ticking(y)' <=> Ticking(y)
      BY <3>1, Zenon DEF IInv, TypeOK, Ticking
    <3>3. QED
      BY <3>1, <3>2, KeptUnchanged, Zenon
  <2>6. QED
    BY <1>1, <2>1, <2>2, <2>3, <2>4, <2>5, Zenon DEF ClientStep
<1>2. ASSUME NEW x \in Contexts, Continue(x) PROVE Kept'
  <2>1. CASE TickSubmit(x)
    <3>1. (IF mssg[x] = NULL THEN "idle" ELSE "done") \in {"idle", "done"} /\ cl # NULL
      BY <2>1, Zenon DEF Turns, TickSubmit
    <3>2. QED
      BY <2>1, <3>1, KeptSubmit, Zenon DEF TickSubmit
  <2>2. CASE TickDone(x)
    BY <2>2, KeptDone, Zenon
  <2>3. CASE FreeChannel(x)
    BY <2>3, Zenon DEF FreeChannel, Kept
  <2>4. QED
    BY <1>2, <2>1, <2>2, <2>3, Zenon DEF Continue
<1>3. ASSUME NEW t \in Threads, ContinueClient(t) PROVE Kept'
  <2>1. CASE SendSubmit(t)
    <3>1. cl # NULL
      BY <1>0, <2>1, Zenon DEF Turns, SendSubmit
    <3>2. QED
      BY <1>0, <2>1, <3>1, KeptSubmit, Zenon DEF SendSubmit
  <2>2. CASE FlushTick(t)
    <3>1. ~Ticking(t) /\ tx_tick(t, "err") /\ UNCHANGED <<cl, ring, api>>
      BY <2>2, Zenon DEF FlushTick, Ticking
    <3>2. QED
      BY <1>0, <3>1, KeptTick, Zenon
  <2>3. CASE Startup(t)
    <3>1. /\ pc[t] = "startup"
          /\ pc' = [pc EXCEPT ![t] = "idle"] \/ pc' = [pc EXCEPT ![t] = "free"]
          /\ UNCHANGED <<cl, ring, active_req, mssg, api>>
      BY <2>3, Zenon DEF Startup, chan, ring
    <3>2. \A y \in Contexts : Ticking(y)' <=> Ticking(y)
      BY <3>1, Zenon DEF IInv, TypeOK, Ticking
    <3>3. QED
      BY <3>1, <3>2, KeptUnchanged, Zenon
  <2>4. QED
    BY <1>3, <2>1, <2>2, <2>3, Zenon DEF ContinueClient
<1>4. CASE mbox_chan_txdone
  <2>1. ~Ticking(Irq) /\ UNCHANGED <<cl, ring, api>>
    BY <1>4, Zenon DEF mbox_chan_txdone, Ticking
  <2>2. CASE tx_tick(Irq, "ok")
    BY <1>0, <2>1, <2>2, KeptTick, Zenon
  <2>3. CASE UNCHANGED <<mssg, status, active_req, pc>>
    BY <2>1, <2>3, KeptUnchanged, Zenon DEF Ticking
  <2>4. QED
    BY <1>4, <2>2, <2>3, Zenon DEF mbox_chan_txdone
<1>5. CASE mbox_controller_register
  BY <1>5, Zenon DEF mbox_controller_register, Kept
<1>6. CASE mbox_controller_unregister
  <2>1. /\ pc' = pc \/ pc' = [pc EXCEPT ![Driver] = "free"]
        /\ UNCHANGED <<cl, ring, active_req, mssg, api>>
    BY <1>6, Zenon DEF mbox_controller_unregister, chan, ring
  <2>2. pc[Driver] \in {"idle", "free"}
    BY Zenon DEF Turns
  <2>3. \A y \in Contexts : Ticking(y)' <=> Ticking(y)
    BY <2>1, <2>2, Zenon DEF IInv, TypeOK, Ticking
  <2>4. QED
    BY <2>1, <2>3, KeptUnchanged, Zenon
<1>7. CASE UNCHANGED vars
  BY <1>7, KeptUnchanged, Zenon DEF vars, chan, ring, Ticking
<1>8. QED
  BY <1>1, <1>2, <1>3, <1>4, <1>5, <1>6, <1>7, Zenon DEF Next

-----------------------------------------------------------------------------
(* The controllers of DoneMeansSent: they have one message in transmission *)
(* at a time.  An interrupt that follows a flush() that gave up completes  *)
(* the message submitted after it, so such a controller is not one of them.*)
OneAtATime == TxDone = "poll" \/ (TxDone = "irq" /\ ~CanFlush)

(* Steps that hand nothing to the controller and take nothing to report.   *)
LEMMA SentUnchanged ==
  ASSUME DoneMeansSent, hw' = hw \/ hw' = <<>>,
         \A y \in Contexts : pc'[y] \in {"tick", "done"} =>
           \/ status'[y] = "err"
           \/ /\ pc[y] \in {"tick", "done"}
              /\ mssg'[y] = mssg[y] /\ status'[y] = status[y]
  PROVE  DoneMeansSent'
  BY DEF DoneMeansSent

(* Steps that leave nothing in transmission.                               *)
LEMMA SentNothing ==
  ASSUME hw' = <<>> PROVE DoneMeansSent'
  BY DEF DoneMeansSent

(* A message that is reported leaves the controller idle.                  *)
LEMMA TailEmpty ==
  ASSUME NEW s \in Seq(Msgs), s # <<>>, Len(s) <= 1
  PROVE  Tail(s) = <<>>
  BY TailFacts, EmptyFacts

LEMMA FlightInit == Init => OneInFlight /\ DoneMeansSent
<1> SUFFICES ASSUME Init PROVE OneInFlight /\ DoneMeansSent
  BY Zenon
<1>1. hw = <<>> /\ txdone_method = TxDone /\ \A x \in Contexts : pc[x] = "idle"
  BY Zenon DEF Init
<1>2. QED
  BY <1>1 DEF OneInFlight, DoneMeansSent

(* msg_submit() starts a transmission only when there is none, and what it *)
(* sends no context is about to report.                                    *)
LEMMA FlightSubmit ==
  ASSUME IInv, Kept, Kept', NonNullMessages, OneAtATime, OneInFlight, DoneMeansSent,
         NEW x \in Contexts, NEW l \in {"idle", "done"}, cl # NULL,
         pc[x] = "tick" \/ (pc[x] = "submit" /\ l = "idle"), msg_submit(x, l)
  PROVE  OneInFlight' /\ DoneMeansSent'
<1>1. /\ pc' = [pc EXCEPT ![x] = l]
      /\ UNCHANGED <<cl, txdone_method, msg_data, msg_free, mssg, status>>
  BY Zenon DEF msg_submit
<1>2. \A y \in Contexts : /\ pc'[y] # "flush" \/ pc[y] = "flush"
                          /\ pc'[y] \in {"tick", "done"} => pc[y] \in {"tick", "done"}
  BY <1>1, Zenon DEF IInv, TypeOK
<1>3. CASE UNCHANGED <<hw, active_req, msg_count>>
  <2>1. DoneMeansSent'
    BY <1>1, <1>2, <1>3, SentUnchanged, Zenon
  <2>2. QED
    BY <1>1, <1>2, <1>3, <2>1, Zenon DEF OneInFlight
<1>4. CASE /\ Idle /\ ~Busy
           /\ active_req' = msg_data[OldestSlot(msg_free, msg_count)]
           /\ hw' = Append(hw, msg_data[OldestSlot(msg_free, msg_count)])
           /\ msg_count' = msg_count - 1
  <2>1. active_req' \in Msgs /\ active_req = NULL
    BY <1>1, <1>4, InvRing, SubmitTakesHead, Zenon DEF Idle
  <2>2. hw = <<>>
    <3>1. CASE TxDone = "poll"
      BY <1>4, <3>1, Zenon DEF Busy
    <3>2. CASE TxDone = "irq" /\ ~CanFlush
      <4>1. hw = <<>> \/ hw = <<NULL>>
        BY <2>1, <3>2, Zenon DEF OneInFlight
      <4>2. hw # <<NULL>>
        <5>1. hw \in Seq(Msgs)
          BY Zenon DEF IInv, TypeOK
        <5>2. QED
          BY <5>1 DEF NonNullMessages
      <4>3. QED
        BY <4>1, <4>2, Zenon
    <3>3. QED
      BY <3>1, <3>2, Zenon DEF OneAtATime
  <2>3. hw' = <<active_req'>>
    BY <1>4, <2>2
  <2>4. Len(hw') = 1 /\ \A i \in 1 .. Len(hw') : hw'[i] = active_req'
    BY <2>3
  <2>5. \A y \in Contexts : pc'[y] \in {"tick", "done"} => mssg'[y] # active_req'
    BY <1>1, <2>1 DEF Kept, Ticking, NonNullMessages
  <2>6. DoneMeansSent'
    BY <2>4, <2>5, Zenon DEF DoneMeansSent
  <2>7. QED
    BY <1>1, <1>2, <2>3, <2>4, <2>6 DEF OneInFlight
<1>5. QED
  BY <1>3, <1>4, Zenon DEF msg_submit, send_data

LEMMA FlightStep ==
  ASSUME IInv, Turns, SingleClient, Kept, Kept', NonNullMessages, OneAtATime, OneInFlight,
         DoneMeansSent, [Next]_vars
  PROVE  OneInFlight' /\ DoneMeansSent'
<1>0. /\ Irq \in Contexts /\ Driver \in Contexts
      /\ \A t \in Threads : t \in Contexts
      /\ hw \in Seq(Msgs)
  BY Zenon DEF Contexts, IInv, TypeOK
<1>1. hw # <<>> => Tail(hw) = <<>>
  <2>1. CASE TxDone = "poll"
    BY <1>0, <2>1, TailEmpty, Zenon DEF OneInFlight
  <2>2. CASE TxDone = "irq" /\ ~CanFlush
    <3>1. hw # <<>> => hw = <<active_req>>
      BY <2>2, Zenon DEF OneInFlight
    <3>2. Tail(<<active_req>>) = <<>>
      OBVIOUS
    <3>3. QED
      BY <3>1, <3>2, Zenon
  <2>3. QED
    BY <2>1, <2>2, Zenon DEF OneAtATime
<1>2. ASSUME hw' = <<>>, UNCHANGED txdone_method,
             \A y \in Contexts : pc'[y] # "flush" \/ pc[y] = "flush"
      PROVE  OneInFlight' /\ DoneMeansSent'
  <2>1. Len(hw') = 0
    BY <1>2, Zenon
  <2>2. QED
    BY <1>2, <2>1, SentNothing DEF OneInFlight
<1>3. ASSUME UNCHANGED <<hw, active_req>>,
             txdone_method' = txdone_method \/ (TxDone # "irq" /\ txdone_method' # "irq"),
             \A y \in Contexts : pc'[y] = "flush" => CanFlush \/ pc[y] = "flush",
             \A y \in Contexts : pc'[y] \in {"tick", "done"} =>
               /\ pc[y] \in {"tick", "done"}
               /\ mssg'[y] = mssg[y] /\ status'[y] = status[y]
      PROVE  OneInFlight' /\ DoneMeansSent'
  <2>1. DoneMeansSent'
    BY <1>3, SentUnchanged, Zenon
  <2>2. QED
    BY <1>3, <2>1, Zenon DEF OneInFlight
<1>4. ASSUME NEW t \in Threads, ClientStep(t) PROVE OneInFlight' /\ DoneMeansSent'
  <2>1. ASSUME NEW m \in Msgs, mbox_send_message(t, m) PROVE OneInFlight' /\ DoneMeansSent'
    <3>1. /\ pc' = [pc EXCEPT ![t] = "submit"]
          /\ UNCHANGED <<hw, active_req, txdone_method, mssg, status>>
      BY <2>1, Zenon DEF mbox_send_message
    <3>2. QED
      BY <1>0, <1>3, <3>1, Zenon DEF IInv, TypeOK
  <2>2. CASE mbox_client_txdone(t)
    <3>1. /\ hw' = <<>> /\ UNCHANGED txdone_method
          /\ pc' = pc \/ pc' = [pc EXCEPT ![t] = "tick"]
      BY <1>1, <2>2, Zenon DEF mbox_client_txdone, tx_tick
    <3>2. QED
      BY <1>0, <1>2, <3>1, Zenon DEF IInv, TypeOK
  <2>3. CASE mbox_flush(t)
    <3>1. /\ CanFlush /\ pc' = [pc EXCEPT ![t] = "flush"]
          /\ UNCHANGED <<hw, active_req, txdone_method, mssg, status>>
      BY <2>3, Zenon DEF mbox_flush, chan
    <3>2. QED
      BY <1>0, <1>3, <3>1, Zenon DEF IInv, TypeOK
  <2>4. CASE mbox_request_channel(t)
    <3>1. /\ pc' = [pc EXCEPT ![t] = "startup"] /\ active_req' = NULL
          /\ UNCHANGED <<hw, mssg, status>>
          /\ txdone_method' = txdone_method
               \/ (txdone_method = "poll" /\ txdone_method' = "ack")
      BY <2>4, Zenon DEF mbox_request_channel
    <3>2. txdone_method' = txdone_method \/ (TxDone # "irq" /\ txdone_method' # "irq")
      BY <3>1, Zenon DEF OneInFlight
    <3>3. hw = <<>>
      BY <2>4, RequestFindsNone, Zenon DEF Turns
    <3>4. DoneMeansSent' /\ Len(hw') = 0
      BY <3>1, <3>3, SentNothing, Zenon
    <3>5. QED
      BY <1>0, <3>1, <3>2, <3>3, <3>4, Zenon DEF OneInFlight, IInv, TypeOK
  <2>5. CASE mbox_free_channel(t)
    <3>1. /\ UNCHANGED <<active_req, txdone_method, mssg, status>>
          /\ \/ UNCHANGED <<hw, pc>>
             \/ hw' = <<>> /\ pc' = [pc EXCEPT ![t] = "free"]
      BY <2>5, Zenon DEF mbox_free_channel, chan
    <3>2. QED
      BY <1>0, <1>2, <1>3, <3>1, Zenon DEF IInv, TypeOK
  <2>6. QED
    BY <1>4, <2>1, <2>2, <2>3, <2>4, <2>5, Zenon DEF ClientStep
<1>5. ASSUME NEW x \in Contexts, Continue(x) PROVE OneInFlight' /\ DoneMeansSent'
  <2>1. CASE TickSubmit(x)
    <3>1. (IF mssg[x] = NULL THEN "idle" ELSE "done") \in {"idle", "done"} /\ cl # NULL
      BY <2>1, Zenon DEF Turns, TickSubmit
    <3>2. QED
      BY <2>1, <3>1, FlightSubmit, Zenon DEF TickSubmit
  <2>2. CASE TickDone(x)
    <3>1. /\ pc' = [pc EXCEPT ![x] = "idle"]
          /\ mssg' = [mssg EXCEPT ![x] = NULL] /\ status' = [status EXCEPT ![x] = "ok"]
          /\ UNCHANGED <<hw, active_req, txdone_method>>
      BY <2>2, Zenon DEF TickDone, chan
    <3>2. QED
      BY <1>3, <3>1, Zenon DEF IInv, TypeOK
  <2>3. CASE FreeChannel(x)
    <3>1. /\ hw = <<>> /\ UNCHANGED hw /\ pc' = [pc EXCEPT ![x] = "idle"]
          /\ txdone_method' = FreeMethod
      BY <2>3, Zenon DEF FreeChannel, Turns, Entering
    <3>2. Len(hw') = 0 /\ DoneMeansSent'
      BY <3>1, SentNothing, Zenon
    <3>3. \A y \in Contexts : pc'[y] # "flush" \/ pc[y] = "flush"
      BY <3>1, Zenon DEF IInv, TypeOK
    <3>4. QED
      BY <3>1, <3>2, <3>3, Zenon DEF OneInFlight, FreeMethod
  <2>4. QED
    BY <1>5, <2>1, <2>2, <2>3, Zenon DEF Continue
<1>6. ASSUME NEW t \in Threads, ContinueClient(t) PROVE OneInFlight' /\ DoneMeansSent'
  <2>1. CASE SendSubmit(t)
    <3>1. cl # NULL
      BY <1>0, <2>1, Zenon DEF Turns, SendSubmit
    <3>2. QED
      BY <1>0, <2>1, <3>1, FlightSubmit, Zenon DEF SendSubmit
  <2>2. CASE FlushTick(t)
    <3>1. /\ pc[t] = "flush" /\ pc' = [pc EXCEPT ![t] = "tick"]
          /\ mssg' = [mssg EXCEPT ![t] = active_req] /\ status' = [status EXCEPT ![t] = "err"]
          /\ UNCHANGED <<hw, txdone_method>>
      BY <2>2, Zenon DEF FlushTick, tx_tick
    <3>2. TxDone = "poll" /\ CanFlush
      BY <1>0, <3>1, Zenon DEF OneAtATime, OneInFlight
    <3>3. DoneMeansSent'
      <4>1. \A y \in Contexts \ {t} : /\ pc'[y] = pc[y] /\ mssg'[y] = mssg[y]
                                      /\ status'[y] = status[y]
        BY <1>0, <3>1, Zenon DEF IInv, TypeOK
      <4>2. status'[t] = "err"
        BY <1>0, <3>1, Zenon DEF IInv, TypeOK
      <4>3. QED
        BY <3>1, <4>1, <4>2, SentUnchanged, Zenon
    <3>4. QED
      BY <3>1, <3>2, <3>3, Zenon DEF OneInFlight
  <2>3. CASE Startup(t)
    <3>1. /\ UNCHANGED <<active_req, txdone_method, mssg, status>>
          /\ \/ UNCHANGED hw /\ pc' = [pc EXCEPT ![t] = "idle"]
             \/ hw' = <<>> /\ pc' = [pc EXCEPT ![t] = "free"]
      BY <2>3, Zenon DEF Startup, chan
    <3>2. QED
      BY <1>0, <1>2, <1>3, <3>1, Zenon DEF IInv, TypeOK
  <2>4. QED
    BY <1>6, <2>1, <2>2, <2>3, Zenon DEF ContinueClient
<1>7. CASE mbox_chan_txdone
  <2>1. /\ hw' = <<>> /\ UNCHANGED txdone_method
        /\ pc' = pc \/ pc' = [pc EXCEPT ![Irq] = "tick"]
    BY <1>1, <1>7, Zenon DEF mbox_chan_txdone, tx_tick
  <2>2. QED
    BY <1>0, <1>2, <2>1, Zenon DEF IInv, TypeOK
<1>8. CASE mbox_controller_register
  <2>1. UNCHANGED <<hw, active_req, pc, mssg, status>> /\ txdone_method' = TxDone
    BY <1>8, Zenon DEF mbox_controller_register
  <2>2. txdone_method' = txdone_method \/ (TxDone # "irq" /\ txdone_method' # "irq")
    BY <2>1, Zenon DEF OneInFlight
  <2>3. QED
    BY <1>3, <2>1, <2>2, Zenon
<1>9. CASE mbox_controller_unregister
  <2>1. /\ UNCHANGED <<active_req, txdone_method, mssg, status>>
        /\ \/ UNCHANGED <<hw, pc>>
           \/ hw' = <<>> /\ pc' = [pc EXCEPT ![Driver] = "free"]
    BY <1>9, Zenon DEF mbox_controller_unregister, chan
  <2>2. QED
    BY <1>0, <1>2, <1>3, <2>1, Zenon DEF IInv, TypeOK
<1>10. CASE UNCHANGED vars
  BY <1>3, <1>10, Zenon DEF vars, chan
<1>11. QED
  BY <1>4, <1>5, <1>6, <1>7, <1>8, <1>9, <1>10, Zenon DEF Next

-----------------------------------------------------------------------------
(* Kept says what MessageKeptOnce says: a message of api has one place, any*)
(* other has none.                                                         *)
LEMMA KeptMeansOnce ==
  ASSUME Kept, NonNullMessages
  PROVE  MessageKeptOnce
<1> SUFFICES ASSUME cl # NULL, NEW m \in Msgs
             PROVE  /\ m \in api <=> Places(m) # {}
                    /\ \A p, q \in Places(m) : p = q
  BY Zenon DEF MessageKeptOnce
<1>1. m # NULL
  BY Zenon DEF NonNullMessages
<1> DEFINE Q == {j \in 1 .. msg_count : Queue[j] = m}
           A == IF active_req = m THEN {<<"active", 0>>} ELSE {}
           X == {x \in Contexts : pc[x] \in {"tick", "done"} /\ mssg[x] = m}
<1>2. Places(m) = {<<"queue", j>> : j \in Q} \cup A \cup {<<"tick", x>> : x \in X}
  BY Zenon DEF Places
<1>3. (A # {} <=> active_req = m) /\ (A # {} => A = {<<"active", 0>>})
  BY Zenon
<1>4. \A x \in X : x \in Contexts /\ Ticking(x) /\ mssg[x] = m
  BY <1>1, Zenon DEF Ticking
<1>5. \A x \in Contexts : Ticking(x) /\ mssg[x] = m => x \in X
  BY Zenon DEF Ticking
<1>6. \A j \in Q : j \in 1 .. msg_count /\ Queue[j] = m
  BY Zenon
<1>7. \A j \in 1 .. msg_count : Queue[j] = m => j \in Q
  BY Zenon
<1> HIDE DEF Q, A, X
<1>8. /\ \A j, k \in Q : j = k
      /\ \A x, y \in X : x = y
      /\ Q # {} => active_req # m /\ X = {}
      /\ X # {} => active_req # m
  BY <1>4, <1>6 DEF Kept
<1>9. m \in api <=> Q # {} \/ active_req = m \/ X # {}
  BY <1>4, <1>5, <1>6, <1>7, Zenon DEF Kept
<1>10. QED
  BY <1>2, <1>3, <1>8, <1>9, Zenon

LEMMA TurnsStep ==
  ASSUME SingleClient, IInv, Turns, [Next]_vars
  PROVE  Turns'
<1>1. CASE UNCHANGED vars
  BY <1>1, Zenon DEF vars, chan, Turns, NoFault
<1>2. CASE Next
  BY <1>2, TurnsClient, TurnsContinue, TurnsContinueClient, TurnsController, Zenon DEF Next
<1>3. QED
  BY <1>1, <1>2, Zenon

(* msg_submit() never goes through a cleared chan->cl, although            *)
(* mbox_free_channel() leaves messages in the ring: with one client at a   *)
(* time, and a shutdown() that waits for the interrupt, for any number of  *)
(* threads and messages.                                                   *)
THEOREM NeverFaults == ASSUME SingleClient PROVE Spec => []NoFault
<1>1. Turns => NoFault
  BY Zenon DEF Turns
<1>2. IInv /\ Turns /\ [Next]_vars => Turns'
  BY TurnsStep, Zenon
<1>3. QED
  BY InvInit, TurnsInit, StepNext, <1>1, <1>2, PTL DEF Spec

(* With one client mbox_request_channel() keeps what its comment promises, *)
(* "The channel is exclusively allocated", without the test for an owner.  *)
THEOREM Exclusive == ASSUME SingleClient PROVE Spec => ExclusiveOwner
<1>1. Turns /\ [Next]_vars => [cl # NULL => cl' \in {cl, NULL}]_vars
  <2> SUFFICES ASSUME Turns, Next, cl # NULL PROVE cl' \in {cl, NULL}
    BY Zenon
  <2>1. ASSUME NEW t \in Threads, ClientStep(t) PROVE cl' = cl
    <3>1. ~mbox_request_channel(t)
      BY RequestFindsNone, Zenon
    <3>2. QED
      BY <2>1, <3>1, Zenon DEF ClientStep, mbox_send_message, mbox_client_txdone, mbox_flush,
                        mbox_free_channel, chan
  <2>2. ASSUME NEW x \in Contexts, Continue(x) PROVE cl' \in {cl, NULL}
    BY <2>2, Zenon DEF Continue, TickSubmit, msg_submit, TickDone, FreeChannel, chan
  <2>3. ASSUME NEW t \in Threads, ContinueClient(t) PROVE cl' = cl
    BY <2>3, Zenon DEF ContinueClient, SendSubmit, msg_submit, FlushTick, Startup, chan
  <2>4. CASE \/ mbox_chan_txdone
             \/ mbox_controller_register
             \/ mbox_controller_unregister
    BY <2>4, Zenon DEF mbox_chan_txdone, mbox_controller_register,
                mbox_controller_unregister, chan
  <2>5. QED
    BY <2>1, <2>2, <2>3, <2>4, Zenon DEF Next
<1>2. IInv /\ Turns /\ [Next]_vars => Turns'
  BY TurnsStep, Zenon
<1>3. QED
  BY InvInit, TurnsInit, StepNext, <1>1, <1>2, PTL DEF Spec, ExclusiveOwner

LEMMA KeptInit == ASSUME NonNullMessages PROVE Init => Kept
  BY Zenon DEF Init, Kept

(* A message the framework accepted is in one place until tx_done(), so it *)
(* is neither lost nor notified twice, whatever add_to_rbuf(), msg_submit()*)
(* and tx_tick() of any number of contexts do between each other's critical*)
(* sections.                                                               *)
THEOREM KeptOnce ==
  ASSUME SingleClient, NonNullMessages
  PROVE  Spec => []MessageKeptOnce
<1>1. IInv /\ Turns /\ Kept /\ [Next]_vars => Turns' /\ Kept'
  BY TurnsStep, KeptStep, Zenon
<1>2. Kept => MessageKeptOnce
  BY KeptMeansOnce, Zenon
<1>3. QED
  BY InvInit, TurnsInit, KeptInit, StepNext, <1>1, <1>2, PTL DEF Spec

(* When a controller has one transmission at a time, tx_done() reports     *)
(* success only for a message whose transmission is over, with the polling *)
(* client's and the interrupt's ticks racing the senders.                  *)
THEOREM SentBeforeDone ==
  ASSUME SingleClient, NonNullMessages, OneAtATime
  PROVE  Spec => []DoneMeansSent
<1>1. IInv /\ Turns /\ Kept /\ [Next]_vars => Turns' /\ Kept'
  BY TurnsStep, KeptStep, Zenon
<1>2. /\ IInv /\ Turns /\ Kept /\ Kept' /\ OneInFlight /\ DoneMeansSent /\ [Next]_vars
      => OneInFlight' /\ DoneMeansSent'
  BY FlightStep, Zenon
<1>3. QED
  BY InvInit, TurnsInit, KeptInit, FlightInit, StepNext, <1>1, <1>2, PTL DEF Spec

=============================================================================
