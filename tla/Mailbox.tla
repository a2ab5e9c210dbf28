------------------------------- MODULE Mailbox -------------------------------
(***************************************************************************)
(* The mailbox framework, kernel/src/driver/common/mailbox/mailbox.c: one  *)
(* controller with one channel, the clients that own the channel in turn   *)
(* and the contexts that run the framework's code on it.                   *)
(*                                                                         *)
(* A step is one critical section of chan->lock together with the code     *)
(* around it up to the next one, so the contexts interleave wherever the   *)
(* code has released the lock: between add_to_rbuf() and msg_submit(), and *)
(* between the three parts of tx_tick().  con_mutex is held across steps   *)
(* where the code holds it.                                                *)
(***************************************************************************)
EXTENDS Integers, Sequences

CONSTANTS
  Clients,            \* the mbox_client structures
  Threads,            \* contexts that run client code
  ClientOf,           \* the client a thread works for
  Irq,                \* the context of the controller's TX-done interrupt
  Driver,             \* the context of the controller driver's bind and unbind
  Msgs,               \* the message pointers that clients send
  NULL,               \* the null pointer
  MBOX_TX_QUEUE_LEN,  \* length of the ring msg_data
  TxDone,             \* how the controller detects TX done: "irq", "poll", "ack"
  KnowsTxdone,        \* the clients that set knows_txdone
  CanFlush,           \* whether the controller has a flush() operation
  MaxInFlight         \* bound: a flush() gives up only with fewer messages in
                      \* transmission

Contexts == Threads \cup {Irq, Driver}

Methods == {"irq", "poll", "ack"}

ASSUME MailboxAssumption ==
  /\ MBOX_TX_QUEUE_LEN \in Nat \ {0}
  /\ ClientOf \in [Threads -> Clients]
  /\ NULL \notin Clients /\ NULL \notin Contexts
  /\ Irq \notin Threads /\ Driver \notin Threads /\ Irq # Driver
  /\ TxDone \in Methods
  /\ KnowsTxdone \subseteq Clients
  /\ CanFlush \in BOOLEAN
  /\ MaxInFlight \in Nat

VARIABLES
  registered,     \* the controller is on mbox_cons
  con_mutex,      \* the context that holds con_mutex
  cl,             \* chan->cl
  txdone_method,  \* chan->txdone_method
  msg_data,       \* chan->msg_data
  msg_free,       \* chan->msg_free
  msg_count,      \* chan->msg_count
  active_req,     \* chan->active_req
  hw,             \* the messages the controller is transmitting (external)
  pc,             \* where each context is in the framework's code
  mssg,           \* tx_tick()'s local mssg, of each context
  status,         \* tx_tick()'s argument r, of each context
  held,           \* the clients that hold the channel pointer
  api             \* the messages whose pointer the framework still holds

chan == <<cl, txdone_method, msg_data, msg_free, msg_count, active_req>>
ring == <<msg_data, msg_free, msg_count>>
vars == <<registered, con_mutex, chan, hw, pc, mssg, status, held, api>>

Slots == 0 .. MBOX_TX_QUEUE_LEN - 1
Labels == {"idle", "submit", "tick", "done", "flush", "startup",
           "free", "fault"}

Init ==
  /\ registered = FALSE
  /\ con_mutex = NULL
  /\ cl = NULL
  /\ txdone_method = TxDone
  /\ msg_data = [i \in Slots |-> NULL]
  /\ msg_free = 0
  /\ msg_count = 0
  /\ active_req = NULL
  /\ hw = <<>>
  /\ pc = [x \in Contexts |-> "idle"]
  /\ mssg = [x \in Contexts |-> NULL]
  /\ status = [x \in Contexts |-> "ok"]
  /\ held = {}
  /\ api = {}

-----------------------------------------------------------------------------
(* The ring.                                                               *)

(* The index after idx: the wrap at the end of the array.                  *)
NextSlot_NoWrap(idx) ==
  IF idx = MBOX_TX_QUEUE_LEN - 1 THEN idx ELSE idx + 1

NextSlot(idx) ==
  IF idx = MBOX_TX_QUEUE_LEN - 1 THEN 0 ELSE idx + 1

(* The index of the oldest of count messages that end before idx.          *)
OldestSlot_Newest(idx, count) ==
  IF idx >= 1 THEN idx - 1 ELSE idx + MBOX_TX_QUEUE_LEN - 1

OldestSlot(idx, count) ==
  IF idx >= count THEN idx - count ELSE idx + MBOX_TX_QUEUE_LEN - count

RingFull == msg_count = MBOX_TX_QUEUE_LEN

(* add_to_rbuf() once the ring is known to have room.                      *)
add_to_rbuf(m) ==
  /\ msg_data' = [msg_data EXCEPT ![msg_free] = m]
  /\ msg_count' = msg_count + 1
  /\ msg_free' = NextSlot(msg_free)

-----------------------------------------------------------------------------
(* msg_submit(): the context x hands the oldest message to send_data() if  *)
(* there is one and none is active, and goes on at label next.  send_data  *)
(* accepts, but that of a polled controller is busy while it transmits     *)
(* (mailbox_controller.h: "only in polling mode").  The call goes through  *)
(* chan->cl: without a client it is a null dereference.                    *)
Idle == msg_count # 0 /\ active_req = NULL

Busy == TxDone = "poll" /\ hw # <<>>

send_data(m) ==
  \/ /\ ~Busy
     /\ hw' = Append(hw, m)
     /\ active_req' = m
     /\ msg_count' = msg_count - 1
  \/ /\ Busy
     /\ UNCHANGED <<hw, active_req, msg_count>>

msg_submit(x, next) ==
  /\ \/ /\ ~Idle
        /\ pc' = [pc EXCEPT ![x] = next]
        /\ UNCHANGED <<hw, active_req, msg_count>>
     \/ /\ Idle /\ cl # NULL
        /\ send_data(msg_data[OldestSlot(msg_free, msg_count)])
        /\ pc' = [pc EXCEPT ![x] = next]
     \/ /\ Idle /\ cl = NULL
        /\ pc' = [pc EXCEPT ![x] = "fault"]
        /\ UNCHANGED <<hw, active_req, msg_count>>
  /\ UNCHANGED <<registered, con_mutex, cl, txdone_method, msg_data, msg_free,
                 mssg, status, held, api>>

-----------------------------------------------------------------------------
(* tx_tick(), in its three parts: take the active request, submit the next *)
(* message, tell the client.                                               *)
tx_tick_Keep(x, r) ==
  /\ mssg' = [mssg EXCEPT ![x] = active_req]
  /\ status' = [status EXCEPT ![x] = r]
  /\ UNCHANGED active_req
  /\ pc' = [pc EXCEPT ![x] = "tick"]

tx_tick(x, r) ==
  /\ mssg' = [mssg EXCEPT ![x] = active_req]
  /\ status' = [status EXCEPT ![x] = r]
  /\ active_req' = NULL
  /\ pc' = [pc EXCEPT ![x] = "tick"]

TickSubmit(x) ==
  /\ pc[x] = "tick"
  /\ msg_submit(x, IF mssg[x] = NULL THEN "idle" ELSE "done")

(* The client's tx_done() callback; what it may do next, a send included,  *)
(* it does as an idle context.                                             *)
TickDone(x) ==
  /\ pc[x] = "done"
  /\ api' = api \ {mssg[x]}
  /\ mssg' = [mssg EXCEPT ![x] = NULL]
  /\ status' = [status EXCEPT ![x] = "ok"]
  /\ pc' = [pc EXCEPT ![x] = "idle"]
  /\ UNCHANGED <<registered, con_mutex, chan, hw, held>>

-----------------------------------------------------------------------------
(* A thread of a client that holds the channel may call the framework.     *)
(* The platform unbinds a controller only while its clients make no calls, *)
(* so no call starts while the controller driver holds con_mutex.          *)
Callable(t) ==
  /\ pc[t] = "idle" /\ ClientOf[t] \in held /\ con_mutex # Driver

(* A client requests and frees the channel while none of its threads is in *)
(* the framework's code.                                                   *)
Quiet(c) == \A t \in Threads : ClientOf[t] = c => pc[t] = "idle"

(* What the controller does (external, from how mailbox.c uses its ops).   *)

(* The controller's interrupt: transmission is over, mbox_chan_txdone().   *)
mbox_chan_txdone ==
  /\ pc[Irq] = "idle" /\ hw # <<>>
  /\ hw' = Tail(hw)
  /\ IF txdone_method = "irq"
     THEN tx_tick(Irq, "ok")
     ELSE UNCHANGED <<mssg, status, active_req, pc>>
  /\ UNCHANGED <<registered, con_mutex, cl, txdone_method, ring, held, api>>

(* A client's thread saw the remote's acknowledgement, mbox_client_txdone()*)
mbox_client_txdone(t) ==
  /\ Callable(t) /\ hw # <<>> /\ TxDone # "irq"
  /\ hw' = Tail(hw)
  /\ IF txdone_method = "ack"
     THEN tx_tick(t, "ok")
     ELSE UNCHANGED <<mssg, status, active_req, pc>>
  /\ UNCHANGED <<registered, con_mutex, cl, txdone_method, ring, held, api>>

(* mbox_flush() with a flush() that gives up while the controller still    *)
(* transmits; the TX state machine is ticked with the error afterwards, by *)
(* which time the transmission may be over.  A flush() that succeeds has   *)
(* called mbox_chan_txdone(), which is that action.                        *)
mbox_flush(t) ==
  /\ CanFlush /\ Callable(t) /\ hw # <<>> /\ Len(hw) < MaxInFlight
  /\ pc' = [pc EXCEPT ![t] = "flush"]
  /\ UNCHANGED <<registered, con_mutex, chan, hw, mssg, status, held, api>>

FlushTick_Ok(t) ==
  /\ pc[t] = "flush"
  /\ tx_tick(t, "ok")
  /\ UNCHANGED <<registered, con_mutex, cl, txdone_method, ring, hw, held, api>>

FlushTick(t) ==
  /\ pc[t] = "flush"
  /\ tx_tick(t, "err")
  /\ UNCHANGED <<registered, con_mutex, cl, txdone_method, ring, hw, held, api>>

-----------------------------------------------------------------------------
(* What clients do.                                                        *)

(* mbox_send_message() up to add_to_rbuf(): it returns an error when the   *)
(* channel has no client or the ring is full, and msg_submit() is next     *)
(* otherwise.  A client does not send a pointer the framework still holds. *)
mbox_send_message(t, m) ==
  /\ Callable(t) /\ m \notin api
  /\ cl # NULL
  /\ ~RingFull
  /\ add_to_rbuf(m)
  /\ api' = api \cup {m}
  /\ pc' = [pc EXCEPT ![t] = "submit"]
  /\ UNCHANGED <<registered, con_mutex, cl, txdone_method, active_req, hw,
                 mssg, status, held>>

SendSubmit(t) ==
  /\ pc[t] = "submit"
  /\ msg_submit(t, "idle")

(* mbox_request_channel() up to the call of startup(): the controller must *)
(* be registered (-EPROBE_DEFER), the channel is reset and given to the    *)
(* client.  The test for an owner, chan->cl, is compiled out.              *)
Reset ==
  /\ msg_free' = 0
  /\ msg_count' = 0
  /\ UNCHANGED msg_data

mbox_request_channel(t) ==
  /\ Quiet(ClientOf[t]) /\ ClientOf[t] \notin held
  /\ con_mutex = NULL /\ registered
  /\ con_mutex' = t
  /\ Reset
  /\ active_req' = NULL
  /\ cl' = ClientOf[t]
  /\ txdone_method' = IF txdone_method = "poll" /\ ClientOf[t] \in KnowsTxdone
                      THEN "ack" ELSE txdone_method
  /\ pc' = [pc EXCEPT ![t] = "startup"]
  /\ UNCHANGED <<registered, hw, mssg, status, held, api>>

(* startup() succeeds, and the client has the channel, or fails, and       *)
(* mbox_free_channel() is next, which calls shutdown() first.  shutdown()  *)
(* returns once no interrupt handler runs and silences the controller.     *)
Startup(t) ==
  /\ pc[t] = "startup"
  /\ \/ /\ pc' = [pc EXCEPT ![t] = "idle"]
        /\ held' = held \cup {ClientOf[t]}
        /\ con_mutex' = NULL
        /\ UNCHANGED hw
     \/ /\ pc[Irq] = "idle"
        /\ hw' = <<>>
        /\ pc' = [pc EXCEPT ![t] = "free"]
        /\ UNCHANGED <<held, con_mutex>>
  /\ UNCHANGED <<registered, chan, mssg, status, api>>

(* mbox_free_channel() up to its critical section.  Nothing happens when   *)
(* the channel has lost its client already.                                *)
mbox_free_channel_NoShutdown(t) ==
  /\ Callable(t) /\ Quiet(ClientOf[t])
  /\ held' = held \ {ClientOf[t]}
  /\ pc' = IF cl = NULL THEN pc ELSE [pc EXCEPT ![t] = "free"]
  /\ UNCHANGED <<registered, con_mutex, chan, hw, mssg, status, api>>

mbox_free_channel(t) ==
  /\ Callable(t) /\ Quiet(ClientOf[t])
  /\ held' = held \ {ClientOf[t]}
  /\ \/ /\ cl = NULL
        /\ UNCHANGED <<hw, pc>>
     \/ /\ cl # NULL /\ pc[Irq] = "idle"
        /\ hw' = <<>>
        /\ pc' = [pc EXCEPT ![t] = "free"]
  /\ UNCHANGED <<registered, con_mutex, chan, mssg, status, api>>

FreeMethod == IF txdone_method = "ack" THEN "poll" ELSE txdone_method

(* The critical section of mbox_free_channel(): the queued requests are    *)
(* aborted without callbacks.  con_mutex is released by the callers that   *)
(* hold it.                                                                *)
FreeChannel(x) ==
  /\ pc[x] = "free"
  /\ cl' = NULL
  /\ active_req' = NULL
  /\ txdone_method' = FreeMethod
  /\ api' = {}
  /\ con_mutex' = IF con_mutex = x THEN NULL ELSE con_mutex
  /\ pc' = [pc EXCEPT ![x] = "idle"]
  /\ UNCHANGED <<registered, ring, hw, mssg, status, held>>

-----------------------------------------------------------------------------
(* The controller driver binds and unbinds.                                *)
mbox_controller_register ==
  /\ ~registered /\ con_mutex = NULL
  /\ registered' = TRUE
  /\ cl' = NULL
  /\ txdone_method' = TxDone
  /\ UNCHANGED <<con_mutex, ring, active_req, hw, pc, mssg, status, held,
                 api>>

mbox_controller_unregister ==
  /\ registered /\ con_mutex = NULL
  /\ \A t \in Threads : pc[t] = "idle"
  /\ registered' = FALSE
  /\ \/ /\ cl = NULL
        /\ UNCHANGED <<con_mutex, hw, pc>>
     \/ /\ cl # NULL /\ pc[Irq] = "idle"
        /\ con_mutex' = Driver
        /\ hw' = <<>>
        /\ pc' = [pc EXCEPT ![Driver] = "free"]
  /\ UNCHANGED <<chan, mssg, status, held, api>>

-----------------------------------------------------------------------------
ClientStep(t) ==
  \/ \E m \in Msgs : mbox_send_message(t, m)
  \/ mbox_client_txdone(t)
  \/ mbox_flush(t)
  \/ mbox_request_channel(t)
  \/ mbox_free_channel(t)

(* A context goes on with the call it is in.                               *)
Continue(x) ==
  \/ TickSubmit(x)
  \/ TickDone(x)
  \/ FreeChannel(x)

ContinueClient(t) ==
  \/ SendSubmit(t)
  \/ FlushTick(t)
  \/ Startup(t)

Next ==
  \/ \E t \in Threads : ClientStep(t) \/ ContinueClient(t)
  \/ \E x \in Contexts : Continue(x)
  \/ mbox_chan_txdone
  \/ mbox_controller_register
  \/ mbox_controller_unregister

Spec == Init /\ [][Next]_vars

(* A context that is in the framework's code goes on, and the controller   *)
(* reports the end of a transmission it has accepted.  Nobody has to call. *)
Fairness ==
  /\ \A x \in Contexts : WF_vars(Continue(x))
  /\ \A t \in Threads : WF_vars(ContinueClient(t))
  /\ WF_vars(mbox_chan_txdone)

FairSpec == Spec /\ Fairness

-----------------------------------------------------------------------------
TypeOK ==
  /\ registered \in BOOLEAN
  /\ con_mutex \in Contexts \cup {NULL}
  /\ cl \in Clients \cup {NULL}
  /\ txdone_method \in Methods
  /\ msg_data \in [Slots -> Msgs \cup {NULL}]
  /\ msg_free \in Slots
  /\ msg_count \in 0 .. MBOX_TX_QUEUE_LEN
  /\ active_req \in Msgs \cup {NULL}
  /\ hw \in Seq(Msgs)
  /\ pc \in [Contexts -> Labels]
  /\ mssg \in [Contexts -> Msgs \cup {NULL}]
  /\ status \in [Contexts -> {"ok", "err"}]
  /\ held \subseteq Clients
  /\ api \subseteq Msgs

(* The index of the j-th oldest of count messages that end before idx.     *)
SlotAt(idx, count, j) ==
  LET i == OldestSlot(idx, count) + j - 1
  IN IF i < MBOX_TX_QUEUE_LEN THEN i ELSE i - MBOX_TX_QUEUE_LEN

(* The messages in the ring, oldest first.                                 *)
Queue == [j \in 1 .. msg_count |-> msg_data[SlotAt(msg_free, msg_count, j)]]

(* The ring with msg_free, msg_count and active_req implements the queue   *)
(* of MailboxFifo: messages go to the controller in the order of           *)
(* mbox_send_message(), one at a time, and never more than the ring holds. *)
Fifo == INSTANCE MailboxFifo
          WITH queue <- Queue, active <- active_req, Capacity <- MBOX_TX_QUEUE_LEN

ImplementsFifo == Fifo!Spec

(* Where the framework has the pointer m.                                  *)
Places(m) ==
  {<<"queue", j>> : j \in {j \in 1 .. msg_count : Queue[j] = m}}
    \cup (IF active_req = m THEN {<<"active", 0>>} ELSE {})
    \cup {<<"tick", x>> : x \in {x \in Contexts : pc[x] \in {"tick", "done"} /\ mssg[x] = m}}

(* The framework keeps a message it has accepted in exactly one place from *)
(* add_to_rbuf() to tx_done(), so each is notified once and none is lost,  *)
(* whichever contexts add, submit and tick at once.                        *)
MessageKeptOnce ==
  cl # NULL =>
    \A m \in Msgs : /\ m \in api <=> Places(m) # {}
                     /\ \A p, q \in Places(m) : p = q

(* No context reaches a call through chan->cl in msg_submit() after        *)
(* mbox_free_channel() has cleared it, although the ring is not emptied.   *)
NoFault == \A x \in Contexts : pc[x] # "fault"

(* "The pointer to message should be preserved until it is sent over the   *)
(* chan, i.e, tx_done() is made" (mailbox.c:238): when tx_done() is about  *)
(* to report success for a message, the controller has transmitted it.     *)
DoneMeansSent ==
  \A x \in Contexts :
    pc[x] \in {"tick", "done"} /\ status[x] = "ok" =>
      \A i \in 1 .. Len(hw) : hw[i] # mssg[x]

(* Every accepted message is notified or aborted in the end: no message    *)
(* stays in the ring because sender and ticker each left it to the other.  *)
EveryMessageNotified == \A m \in Msgs : m \in api ~> m \notin api

(* "The channel is exclusively allocated and can't be used by another      *)
(* client before the owner calls mbox_free_channel" (mailbox.c:319).       *)
ExclusiveOwner == [][cl # NULL => cl' \in {cl, NULL}]_vars

=============================================================================
