----------------------------- MODULE VringSplit ------------------------------
(***************************************************************************)
(* A split virtqueue (src/kernel/src/driver/common/virtio/virtio_ring.c):  *)
(* descriptors chained through a free list, the avail ring the driver      *)
(* fills, the used ring the device fills, and the suppression of kicks and *)
(* interrupts by flags or by event indexes.  The calls of the driver are   *)
(* serialised as their comments demand, except virtqueue_disable_cb() and  *)
(* vring_interrupt(), which may fall between any two steps of another      *)
(* call.  A call is split where the device can see the difference: at its  *)
(* store to avail->idx, at its read of what the device wrote, at notify(). *)
(* The ring indexes are u16 and wrap; Word stands for 2^16.  The device is *)
(* not under src/: it follows the protocol the driver's code relies on.    *)
(***************************************************************************)
EXTENDS Integers, Sequences, FiniteSets, Functions

CONSTANTS
    Bufs,              \* data tokens of the driver's buffers
    NoBuf,             \* desc_state[].data = NULL
    TotalSg,           \* scatterlist entries of each buffer: total_sg
    Num,               \* vring.num, a power of two
    Indirect,          \* vq->indirect: VIRTIO_RING_F_INDIRECT_DESC was negotiated
    EventIdx,          \* values of vq->event considered
    Calls,             \* what a driver and its device may do besides moving buffers
    Word               \* 2^16 in the code: the indexes wrap here

ASSUME SplitAssumption ==
    /\ NoBuf \notin Bufs
    /\ \A b \in Bufs : TotalSg[b] \in Nat \ {0}
    /\ Indirect \in BOOLEAN /\ EventIdx \subseteq BOOLEAN
    /\ Calls \subseteq {"batch", "disable_cb", "enable_cb", "enable_cb_delayed", "break", "bad_id", "reset"}
    /\ Num \in Nat \ {0} /\ Word \in Nat
    /\ Word % Num = 0 /\ Word > Num

VARIABLES
    event,                   \* vq->event: VIRTIO_RING_F_EVENT_IDX was negotiated
    free_head, num_free,     \* free list of descriptors
    extra_next,              \* desc_extra[].next
    data, indir_desc,        \* desc_state[].data, desc_state[].indir_desc # NULL
    avail_idx_shadow, num_added, last_used_idx,
    no_int_shadow,           \* avail_flags_shadow & VRING_AVAIL_F_NO_INTERRUPT
    event_triggered, broken,
    desc,                    \* shared: descriptors
    avail_ring, avail_idx,   \* shared: avail->ring, avail->idx
    no_interrupt,            \* shared: avail->flags
    used_event,              \* shared: vring_used_event
    used_ring, used_idx,     \* shared: used->ring[].id, used->idx
    no_notify,               \* shared: used->flags
    avail_event,             \* shared: vring_avail_event
    pc, bufs,                \* the driver's call in progress; enable_cb_delayed's bufs
    wanted, armed,           \* the driver wants callbacks; used index whose use must call back
    dev, last_avail, fetched, signalled,   \* the device
    notified, irq            \* a kick and an interrupt on their way

listVars == <<free_head, num_free, extra_next, data, indir_desc, desc>>
availVars == <<avail_ring, avail_idx, avail_idx_shadow, num_added>>
cbVars == <<no_int_shadow, no_interrupt, used_event, event_triggered, wanted, armed>>
usedVars == <<used_ring, used_idx, signalled>>
devVars == <<dev, last_avail, fetched, no_notify, avail_event>>
vars == <<event, listVars, availVars, cbVars, usedVars, devVars,
          last_used_idx, broken, pc, bufs, notified, irq>>

Descs == 0 .. Num - 1
Idx == 0 .. Word - 1
NoDesc == Num               \* no VRING_DESC_F_NEXT: the chain ends here; also a slot of
                            \* a ring whose entry has been read, to catch a second read
NoIdx == Word               \* no used index is waited for
BadId == Num + 1            \* an id out of range, written by a faulty device

Inc(i) == (i + 1) % Word

Minus(i, j) == (i - j) % Word

\* include/uapi/linux/virtio_ring.h: did the index cross event_idx on its way
\* from old to new?
vring_need_event(event_idx, new, old) ==
    Minus(new, event_idx + 1) < Minus(new, old)

Unmapped == [segs |-> << >>, next |-> NoDesc]

SplitInit ==
    /\ event \in EventIdx
    /\ free_head = 0 /\ num_free = Num
    /\ extra_next = [i \in Descs |-> IF i = Num - 1 THEN 0 ELSE i + 1]
    /\ data = [i \in Descs |-> NoBuf] /\ indir_desc = [i \in Descs |-> FALSE]
    /\ desc = [i \in Descs |-> Unmapped]
    /\ avail_idx_shadow = 0 /\ num_added = 0 /\ last_used_idx = 0
    /\ no_int_shadow = FALSE /\ event_triggered = FALSE /\ broken = FALSE
    /\ avail_ring = [i \in Descs |-> NoDesc] /\ avail_idx = 0
    /\ no_interrupt = FALSE /\ used_event = 0
    /\ used_ring = [i \in Descs |-> NoDesc] /\ used_idx = 0
    /\ no_notify = FALSE /\ avail_event = 0
    /\ pc = "idle" /\ bufs = 0 /\ wanted = TRUE /\ armed = 0
    /\ dev = "asleep" /\ last_avail = 0 /\ fetched = {} /\ signalled = 0
    /\ notified = FALSE /\ irq = FALSE

------------------------------------------------------------------------------
(* Descriptor chains *)

\* The first n descriptors of the list that starts at h.
FreeChain(h, n) ==
    LET c[k \in 1 .. n] == IF k = 1 THEN h ELSE extra_next[c[k - 1]]
    IN  c

\* The descriptors a reader of the shared table meets from h on.
ChainOf(h) ==
    LET c[k \in 1 .. Num] ==
            IF k = 1 THEN h
            ELSE LET i == c[k - 1] IN IF i = NoDesc THEN NoDesc ELSE desc[i].next
    IN  SubSeq(c, 1, Cardinality({k \in 1 .. Num : c[k] # NoDesc}))

\* The scatterlist entries a buffer consists of.
SegsOf(b) == [k \in 1 .. TotalSg[b] |-> <<b, k>>]

\* virtqueue_use_indirect
virtqueue_use_indirect(b) == Indirect /\ TotalSg[b] > 1 /\ num_free > 0

\* virtqueue_add_desc_split, and "last one doesn't continue".
NextOf_Flagged(chain, k) == extra_next[chain[k]]

NextOf(chain, k) == IF k = Len(chain) THEN NoDesc ELSE extra_next[chain[k]]

\* Where the next head goes in the avail ring.
AvailSlot == avail_idx_shadow % Num

detach_buf_split_LinkHead(head) ==
    LET chain == ChainOf(head)
    IN  /\ data' = [data EXCEPT ![head] = NoBuf]
        /\ desc' = [i \in Descs |-> IF i \in Range(chain) THEN Unmapped ELSE desc[i]]
        /\ extra_next' = [extra_next EXCEPT ![head] = free_head]
        /\ free_head' = head
        /\ num_free' = num_free + Len(chain)
        /\ indir_desc' = [indir_desc EXCEPT ![head] = FALSE]

\* detach_buf_split: the chain goes back to the head of the free list.
detach_buf_split(head) ==
    LET chain == ChainOf(head)
    IN  /\ data' = [data EXCEPT ![head] = NoBuf]
        /\ desc' = [i \in Descs |-> IF i \in Range(chain) THEN Unmapped ELSE desc[i]]
        /\ extra_next' = [extra_next EXCEPT ![chain[Len(chain)]] = free_head]
        /\ free_head' = head
        /\ num_free' = num_free + Len(chain)
        /\ indir_desc' = [indir_desc EXCEPT ![head] = FALSE]

------------------------------------------------------------------------------
(* Driver: adding buffers and kicking *)

\* virtqueue_add_split up to the barrier; table: alloc_indirect_split succeeded.
virtqueue_add_split(b, table) ==
    LET n == IF table THEN 1 ELSE TotalSg[b]
        chain == FreeChain(free_head, n)
    IN  /\ pc = "idle" /\ dev # "reset" /\ ~broken
        /\ b \notin {data[i] : i \in Descs}
        /\ table => virtqueue_use_indirect(b)
        /\ num_free >= n
        /\ desc' = [i \in Descs |->
              IF \E k \in 1 .. n : chain[k] = i
              THEN LET k == CHOOSE j \in 1 .. n : chain[j] = i
                   IN  [segs |-> IF table THEN SegsOf(b) ELSE << <<b, k>> >>,
                        next |-> NextOf(chain, k)]
              ELSE desc[i]]
        /\ num_free' = num_free - n
        /\ free_head' = extra_next[chain[n]]
        /\ data' = [data EXCEPT ![chain[1]] = b]
        /\ indir_desc' = [indir_desc EXCEPT ![chain[1]] = table]
        /\ avail_ring' = [avail_ring EXCEPT ![AvailSlot] = chain[1]]
        /\ pc' = "publish"
        /\ UNCHANGED <<event, extra_next, avail_idx, avail_idx_shadow, num_added, cbVars,
                       usedVars, devVars, last_used_idx, broken, bufs, notified, irq>>

\* virtqueue_add_split without room: -ENOSPC, and a forced notify if it has
\* outgoing parts (its result is ignored).
AddNoSpace(b, table) ==
    /\ pc = "idle" /\ dev # "reset" /\ ~broken
    /\ b \notin {data[i] : i \in Descs}
    /\ table => virtqueue_use_indirect(b)
    /\ num_free < (IF table THEN 1 ELSE TotalSg[b])
    /\ notified' = TRUE
    /\ UNCHANGED <<event, listVars, availVars, cbVars, usedVars, devVars,
                   last_used_idx, broken, pc, bufs, irq>>

AddPublish_NoForcedKick ==
    /\ pc = "publish"
    /\ avail_idx_shadow' = Inc(avail_idx_shadow)
    /\ avail_idx' = Inc(avail_idx_shadow)
    /\ num_added' = num_added + 1
    /\ pc' = "idle"
    /\ UNCHANGED <<event, listVars, avail_ring, cbVars, usedVars, devVars,
                   last_used_idx, broken, bufs, notified, irq>>

\* virtqueue_add_split after the barrier: the entry becomes visible; a counter
\* about to wrap is kicked at once.
AddPublish ==
    /\ pc = "publish"
    /\ avail_idx_shadow' = Inc(avail_idx_shadow)
    /\ avail_idx' = Inc(avail_idx_shadow)
    /\ num_added' = num_added + 1
    /\ pc' = IF num_added + 1 = Word - 1 \/ "batch" \notin Calls THEN "kick" ELSE "idle"
    /\ UNCHANGED <<event, listVars, avail_ring, cbVars, usedVars, devVars,
                   last_used_idx, broken, bufs, notified, irq>>

\* virtqueue_kick_prepare_split
virtqueue_kick_prepare_split ==
    /\ pc \in {"idle", "kick"} /\ dev # "reset"
    /\ num_added' = 0
    /\ LET old == Minus(avail_idx_shadow, num_added)
           needs_kick == IF event THEN vring_need_event(avail_event, avail_idx_shadow, old)
                                  ELSE ~no_notify
       IN  pc' = IF needs_kick THEN "notify" ELSE "idle"
    /\ UNCHANGED <<event, listVars, avail_ring, avail_idx, avail_idx_shadow, cbVars,
                   usedVars, devVars, last_used_idx, broken, bufs, notified, irq>>

\* virtqueue_notify; ok: the transport's notify().
virtqueue_notify(ok) ==
    /\ pc = "notify"
    /\ notified' = (notified \/ (~broken /\ ok))
    /\ broken' = (broken \/ ~ok)
    /\ pc' = "idle"
    /\ UNCHANGED <<event, listVars, availVars, cbVars, usedVars, devVars,
                   last_used_idx, bufs, irq>>

------------------------------------------------------------------------------
(* Driver: taking used buffers *)

more_used_split == last_used_idx # used_idx

UsedSlot_Newest == (used_idx - 1) % Num

\* The entry of the used ring the driver takes next.
UsedSlot == last_used_idx % Num

\* virtqueue_get_buf_ctx_split finds nothing.  A driver that wants callbacks
\* and has seen the queue empty may now wait for one.
GetBufNone ==
    /\ pc = "idle" /\ dev # "reset" /\ ~broken /\ ~more_used_split
    /\ armed' = IF wanted /\ armed = NoIdx THEN last_used_idx ELSE armed
    /\ UNCHANGED <<event, listVars, availVars, no_int_shadow, no_interrupt, used_event,
                   event_triggered, wanted, usedVars, devVars, last_used_idx, broken, pc,
                   bufs, notified, irq>>

\* virtqueue_get_buf_ctx_split up to its store of the event index.
virtqueue_get_buf_ctx_split ==
    LET i == used_ring[UsedSlot]
        good == i \in Descs /\ data[i] # NoBuf
    IN  /\ pc = "idle" /\ dev # "reset" /\ ~broken /\ more_used_split
        /\ IF good
           THEN /\ detach_buf_split(i)
                /\ used_ring' = [used_ring EXCEPT ![UsedSlot] = NoDesc]
                /\ last_used_idx' = Inc(last_used_idx)
                /\ pc' = "store" /\ armed' = NoIdx
                /\ UNCHANGED broken
           ELSE /\ broken' = TRUE     \* BAD_RING
                /\ UNCHANGED <<listVars, used_ring, last_used_idx, pc, armed>>
        /\ UNCHANGED <<event, availVars, no_int_shadow, no_interrupt, used_event,
                       event_triggered, wanted, used_idx, signalled, devVars, bufs,
                       notified, irq>>

\* The end of virtqueue_get_buf_ctx_split.
GetBufStore ==
    /\ pc = "store"
    /\ used_event' = IF no_int_shadow THEN used_event ELSE last_used_idx
    /\ pc' = "idle"
    /\ UNCHANGED <<event, listVars, availVars, no_int_shadow, no_interrupt,
                   event_triggered, wanted, armed, usedVars, devVars, last_used_idx,
                   broken, bufs, notified, irq>>

------------------------------------------------------------------------------
(* Driver: callbacks *)

\* virtqueue_disable_cb and virtqueue_disable_cb_split: may fall into any call.
virtqueue_disable_cb ==
    /\ "disable_cb" \in Calls /\ dev # "reset"
    /\ wanted' = FALSE /\ armed' = NoIdx
    /\ IF event_triggered \/ no_int_shadow
       THEN UNCHANGED <<no_int_shadow, used_event, no_interrupt>>
       ELSE /\ no_int_shadow' = TRUE
            /\ used_event' = IF event THEN 0 ELSE used_event
            /\ no_interrupt' = (no_interrupt \/ ~event)
    /\ UNCHANGED <<event, listVars, availVars, event_triggered, usedVars, devVars,
                   last_used_idx, broken, pc, bufs, notified, irq>>

\* What the two enabling calls share: the flag cleared, the event index moved.
EnableAt(i) ==
    /\ pc = "idle" /\ dev # "reset"
    /\ event_triggered' = FALSE
    /\ no_int_shadow' = FALSE
    /\ no_interrupt' = (no_interrupt /\ (event \/ ~no_int_shadow))
    /\ used_event' = i
    /\ wanted' = TRUE /\ armed' = NoIdx
    /\ UNCHANGED <<event, listVars, availVars, usedVars, devVars, last_used_idx,
                   broken, notified, irq>>

virtqueue_enable_cb_prepare_Past ==
    /\ "enable_cb" \in Calls
    /\ EnableAt(Minus(last_used_idx, 1))
    /\ bufs' = 0 /\ pc' = "poll"

\* virtqueue_enable_cb_prepare and virtqueue_enable_cb_prepare_split
virtqueue_enable_cb_prepare ==
    /\ "enable_cb" \in Calls
    /\ EnableAt(last_used_idx)
    /\ bufs' = 0 /\ pc' = "poll"

\* virtqueue_enable_cb_delayed_split up to its store of the event index
virtqueue_enable_cb_delayed ==
    LET n == (Minus(avail_idx_shadow, last_used_idx) * 3) \div 4
    IN  /\ "enable_cb_delayed" \in Calls
        /\ EnableAt((last_used_idx + n) % Word)
        /\ bufs' = n /\ pc' = "poll"

\* virtqueue_poll, with which virtqueue_enable_cb ends, and the check at the
\* end of virtqueue_enable_cb_delayed_split (virtqueue_poll is the case bufs = 0).
\* A driver told that nothing is pending may now wait for its callback.
virtqueue_poll ==
    /\ pc = "poll"
    /\ armed' = IF wanted /\ ~(Minus(used_idx, last_used_idx) > bufs)
                THEN (last_used_idx + bufs) % Word ELSE armed
    /\ pc' = "idle" /\ bufs' = 0
    /\ UNCHANGED <<event, listVars, availVars, no_int_shadow, no_interrupt, used_event,
                   event_triggered, wanted, usedVars, devVars, last_used_idx, broken,
                   notified, irq>>

\* vring_interrupt: the callback ends the driver's wait.
vring_interrupt ==
    /\ irq /\ irq' = FALSE
    /\ IF more_used_split /\ ~broken
       THEN /\ event_triggered' = (event_triggered \/ event)
            /\ armed' = NoIdx
       ELSE UNCHANGED <<event_triggered, armed>>
    /\ UNCHANGED <<event, listVars, availVars, no_int_shadow, no_interrupt, used_event,
                   wanted, usedVars, devVars, last_used_idx, broken, pc, bufs, notified>>

\* virtio_break_device
virtio_break_device ==
    /\ "break" \in Calls /\ ~broken /\ broken' = TRUE
    /\ UNCHANGED <<event, listVars, availVars, cbVars, usedVars, devVars, last_used_idx,
                   pc, bufs, notified, irq>>

\* virtqueue_detach_unused_buf_split, after the reset: the first buffer left.
virtqueue_detach_unused_buf_split ==
    /\ dev = "reset"
    /\ \E i \in Descs :
         /\ data[i] # NoBuf
         /\ \A j \in 0 .. i - 1 : data[j] = NoBuf
         /\ detach_buf_split(i)
    /\ avail_idx_shadow' = Minus(avail_idx_shadow, 1)
    /\ avail_idx' = Minus(avail_idx_shadow, 1)
    /\ UNCHANGED <<event, avail_ring, num_added, cbVars, usedVars, devVars,
                   last_used_idx, broken, pc, bufs, notified, irq>>

\* virtqueue_detach_unused_buf_split returns NULL.
DetachNone ==
    /\ dev = "reset" /\ \A i \in Descs : data[i] = NoBuf
    /\ UNCHANGED vars

------------------------------------------------------------------------------
(* Device (external).  It decides on an interrupt at the latest when it has    *)
(* used Num entries since its last decision; a device the driver has given up  *)
(* on (broken) can no longer be noticed and is not followed further.           *)

\* It fetches the next available head.
DevFetch ==
    /\ dev = "awake" /\ ~broken /\ last_avail # avail_idx
    /\ fetched' = fetched \cup {avail_ring[last_avail % Num]}
    /\ avail_ring' = [avail_ring EXCEPT ![last_avail % Num] = NoDesc]
    /\ last_avail' = Inc(last_avail)
    /\ UNCHANGED <<event, listVars, avail_idx, avail_idx_shadow, num_added, cbVars, usedVars, dev, no_notify,
                   avail_event, last_used_idx, broken, pc, bufs, notified, irq>>

\* It has fetched all it saw: it asks for a kick, looks again, and sleeps.
DevAskKick ==
    /\ dev = "awake" /\ ~broken /\ last_avail = avail_idx
    /\ dev' = "asking"
    /\ avail_event' = IF event THEN last_avail ELSE avail_event
    /\ no_notify' = FALSE
    /\ UNCHANGED <<event, listVars, availVars, cbVars, usedVars, last_avail, fetched,
                   last_used_idx, broken, pc, bufs, notified, irq>>

DevSleep ==
    /\ dev = "asking" /\ ~broken
    /\ dev' = IF last_avail = avail_idx THEN "asleep" ELSE "awake"
    /\ UNCHANGED <<event, listVars, availVars, cbVars, usedVars, last_avail, fetched,
                   no_notify, avail_event, last_used_idx, broken, pc, bufs, notified, irq>>

\* The kick arrives; a device that is awake wants no other.
DevWake ==
    /\ notified /\ ~broken /\ notified' = FALSE
    /\ dev' = IF dev = "asleep" THEN "awake" ELSE dev
    /\ no_notify' = (no_notify \/ (dev = "asleep" /\ ~event))
    /\ UNCHANGED <<event, listVars, availVars, cbVars, usedVars, last_avail, fetched,
                   avail_event, last_used_idx, broken, pc, bufs, irq>>

\* It gives back any of its buffers.
DevUse(h) ==
    /\ dev # "reset" /\ ~broken /\ h \in fetched
    /\ Minus(used_idx, signalled) < Num
    /\ fetched' = fetched \ {h}
    /\ used_ring' = [used_ring EXCEPT ![used_idx % Num] = h]
    /\ used_idx' = Inc(used_idx)
    /\ UNCHANGED <<event, listVars, availVars, cbVars, signalled, dev, last_avail,
                   no_notify, avail_event, last_used_idx, broken, pc, bufs, notified, irq>>

\* A faulty device writes an id that is no descriptor, instead of a head.
DevBadUse(h) ==
    /\ "bad_id" \in Calls /\ dev # "reset" /\ ~broken /\ h \in fetched
    /\ Minus(used_idx, signalled) < Num
    /\ fetched' = fetched \ {h}
    /\ used_ring' = [used_ring EXCEPT ![used_idx % Num] = BadId]
    /\ used_idx' = Inc(used_idx)
    /\ UNCHANGED <<event, listVars, availVars, cbVars, signalled, dev, last_avail,
                   no_notify, avail_event, last_used_idx, broken, pc, bufs, notified, irq>>

\* It decides on an interrupt for what it used since the last decision.
DevSignal ==
    /\ dev # "reset" /\ ~broken /\ signalled # used_idx
    /\ signalled' = used_idx
    /\ irq' = (irq \/ IF event THEN vring_need_event(used_event, used_idx, signalled)
                               ELSE ~no_interrupt)
    /\ UNCHANGED <<event, listVars, availVars, cbVars, used_ring, used_idx, devVars,
                   last_used_idx, broken, pc, bufs, notified>>

\* virtio_reset_device: the device stops; the driver is between two calls.
DevReset ==
    /\ "reset" \in Calls /\ dev # "reset" /\ pc = "idle"
    /\ dev' = "reset"
    /\ notified' = FALSE /\ irq' = FALSE
    /\ fetched' = {} /\ last_avail' = 0 /\ signalled' = 0
    /\ no_notify' = FALSE /\ avail_event' = 0
    /\ wanted' = FALSE /\ armed' = NoIdx
    /\ UNCHANGED <<event, listVars, availVars, no_int_shadow, no_interrupt, used_event,
                   event_triggered, used_ring, used_idx, last_used_idx, broken, pc, bufs>>

------------------------------------------------------------------------------
DriverNext ==
    \/ \E b \in Bufs, table \in BOOLEAN : virtqueue_add_split(b, table) \/ AddNoSpace(b, table)
    \/ AddPublish \/ virtqueue_kick_prepare_split
    \/ \E ok \in BOOLEAN : virtqueue_notify(ok)
    \/ GetBufNone \/ virtqueue_get_buf_ctx_split \/ GetBufStore
    \/ virtqueue_disable_cb \/ virtqueue_enable_cb_prepare \/ virtqueue_enable_cb_delayed
    \/ virtqueue_poll \/ vring_interrupt \/ virtio_break_device
    \/ virtqueue_detach_unused_buf_split \/ DetachNone

DeviceNext ==
    \/ DevFetch \/ DevAskKick \/ DevSleep \/ DevWake \/ DevSignal \/ DevReset
    \/ \E h \in fetched : DevUse(h) \/ DevBadUse(h)

SplitNext == DriverNext \/ DeviceNext

SplitSpec == SplitInit /\ [][SplitNext]_vars

------------------------------------------------------------------------------
(* Properties *)

TypeOK ==
    /\ event \in BOOLEAN
    /\ free_head \in Descs /\ num_free \in 0 .. Num /\ extra_next \in [Descs -> Descs]
    /\ data \in [Descs -> Bufs \cup {NoBuf}] /\ indir_desc \in [Descs -> BOOLEAN]
    /\ \A i \in Descs : desc[i].next \in Descs \cup {NoDesc}
    /\ avail_ring \in [Descs -> Descs \cup {NoDesc}]
    /\ used_ring \in [Descs -> Descs \cup {NoDesc, BadId}]
    /\ {avail_idx, avail_idx_shadow, last_used_idx, used_event, used_idx, avail_event,
        last_avail, signalled} \subseteq Idx
    /\ num_added \in 0 .. Word - 1 /\ bufs \in Idx /\ armed \in Idx \cup {NoIdx}
    /\ {no_int_shadow, no_interrupt, no_notify, event_triggered, broken, wanted,
        notified, irq} \subseteq BOOLEAN
    /\ pc \in {"idle", "publish", "kick", "notify", "store", "poll"}
    /\ dev \in {"awake", "asking", "asleep", "reset"} /\ fetched \subseteq Descs

Heads == {i \in Descs : data[i] # NoBuf}

\* The free list and the chains of the buffers partition the descriptors
\* (virtqueue_add_split, detach_buf_split): the num_free descriptors reached from
\* free_head are distinct and unmapped, and every other one is in one chain only.
\* At num_free = Num it is the BUG_ON at the end of detach_unused_buf_split.
\* (Every variable has its type: the indices stay in their width.)
FreeListExact ==
    LET free == FreeChain(free_head, num_free)
    IN  /\ TypeOK
        /\ IsInjective(free)
        /\ \A k \in 1 .. num_free : desc[free[k]] = Unmapped
        /\ \A h \in Heads : Range(ChainOf(h)) \cap Range(free) = {}
        /\ \A i \in Descs \ Range(free) :
              \E h \in Heads : \A g \in Heads : i \in Range(ChainOf(g)) <=> g = h

\* What the device reads through the shared table from a head it may fetch or
\* has fetched is the scatterlist of the buffer whose token will be returned for
\* that head, complete and in order: one entry in each descriptor of its chain, or
\* all of them in one table exactly where one is recorded to be freed
\* (virtqueue_add_desc_split, desc_state[].indir_desc).
ChainsIntact ==
    \A h \in Heads :
        LET chain == ChainOf(h)
            b == data[h]
        IN  /\ [k \in 1 .. Len(chain) |-> desc[chain[k]].segs] =
                  IF indir_desc[h] THEN <<SegsOf(b)>> ELSE [k \in 1 .. TotalSg[b] |-> << <<b, k>> >>]
            /\ indir_desc[h] => TotalSg[b] > 1

\* No kick is lost (virtqueue_kick_prepare_split against the device's request
\* for one): a device asleep with available entries it has not fetched has a
\* notification under way, or the driver has yet to kick for what it added.
NoLostKick ==
    dev = "asleep" /\ last_avail # avail_idx /\ ~broken
        => notified \/ num_added > 0 \/ pc \in {"kick", "notify"}

\* No interrupt is lost (virtqueue_enable_cb, virtqueue_enable_cb_delayed and
\* the event index get_buf stores, against the device's decision): once a driver
\* that was told the queue is empty waits for a callback, the use of the entry it
\* waits for leaves an interrupt pending or a decision of the device to come.
NoLostInterrupt ==
    ~broken /\ dev # "reset" /\ armed # NoIdx /\ vring_need_event(armed, used_idx, last_used_idx)
        => irq \/ signalled # used_idx

==============================================================================
