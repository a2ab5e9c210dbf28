------------------------------ MODULE VirtQueue ------------------------------
(***************************************************************************)
(* What a virtqueue promises its driver, whatever the layout of its ring   *)
(* (src/kernel/src/driver/common/virtio/virtio_ring.c): a buffer handed    *)
(* over with virtqueue_add_*() reaches the device once, in the order of    *)
(* the calls; the device gives its buffers back in any order; and          *)
(* virtqueue_get_buf() returns the token of every buffer given back once,  *)
(* in the order the device used them.  After a device reset the buffers    *)
(* not yet returned come back through virtqueue_detach_unused_buf().       *)
(***************************************************************************)
EXTENDS Sequences, SequencesExt

CONSTANT Bufs          \* the data tokens of the driver

VARIABLES
    offered,           \* buffers made available, not yet fetched by the device
    fetched,           \* buffers the device works on
    used,              \* buffers given back, not yet returned to the driver
    down               \* the device has been reset

vqVars == <<offered, fetched, used, down>>

\* The buffers the driver has handed over and not got back.
Outstanding == ToSet(offered) \cup fetched \cup ToSet(used)

VQInit ==
    /\ offered = << >> /\ fetched = {} /\ used = << >>
    /\ down = FALSE

Offer(b) ==
    /\ ~down /\ b \notin Outstanding
    /\ offered' = Append(offered, b)
    /\ UNCHANGED <<fetched, used, down>>

Fetch ==
    /\ ~down /\ offered # << >>
    /\ offered' = Tail(offered)
    /\ fetched' = fetched \cup {Head(offered)}
    /\ UNCHANGED <<used, down>>

GiveBack(b) ==
    /\ ~down /\ b \in fetched
    /\ fetched' = fetched \ {b}
    /\ used' = Append(used, b)
    /\ UNCHANGED <<offered, down>>

Return ==
    /\ ~down /\ used # << >>
    /\ used' = Tail(used)
    /\ UNCHANGED <<offered, fetched, down>>

\* The reset forgets the queues; the buffers are still the driver's to reclaim.
Reset ==
    /\ ~down /\ down' = TRUE
    /\ offered' = << >> /\ used' = << >>
    /\ fetched' = Outstanding

Reclaim(b) ==
    /\ down /\ b \in fetched
    /\ fetched' = fetched \ {b}
    /\ UNCHANGED <<offered, used, down>>

VQNext ==
    \/ \E b \in Bufs : Offer(b) \/ GiveBack(b) \/ Reclaim(b)
    \/ Fetch \/ Return \/ Reset

VQSpec == VQInit /\ [][VQNext]_vqVars
==============================================================================
