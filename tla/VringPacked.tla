----------------------------- MODULE VringPacked -----------------------------
(***************************************************************************)
(* A packed virtqueue (src/kernel/src/driver/common/virtio/virtio_ring.c): *)
(* one ring of descriptors that both sides write, in which two flag bits   *)
(* and a wrap counter on each side tell an available descriptor from a     *)
(* used one.  Calls and their steps are those of module VringSplit.  The   *)
(* device is not under src/: it follows the protocol the driver's code     *)
(* relies on.                                                              *)
(***************************************************************************)
EXTENDS Integers, Sequences, SequencesExt, FiniteSets

CONSTANTS
    Bufs,              \* data tokens of the driver's buffers
    NoBuf,             \* desc_state[].data = NULL
    TotalSg,           \* scatterlist entries of each buffer: total_sg
    Num,               \* vring.num
    Indirect,          \* vq->indirect
    EventIdx,          \* values of vq->event considered
    Calls,             \* what a driver and its device may do besides moving buffers
    Callback,          \* vq->vq.callback # NULL
    MaxBatch           \* bound: descriptors added before the driver kicks

ASSUME PackedAssumption ==
    /\ NoBuf \notin Bufs
    /\ \A b \in Bufs : TotalSg[b] \in Nat \ {0}
    /\ Num \in Nat \ {0} /\ MaxBatch \in Nat \ {0}
    /\ Indirect \in BOOLEAN /\ Callback \in BOOLEAN /\ EventIdx \subseteq BOOLEAN
    /\ Calls \subseteq {"sleep", "disable_cb", "enable_cb", "enable_cb_delayed", "bad_id", "reset"}

VARIABLES
    event,                   \* vq->event
    free_head, num_free, extra_next,           \* free list of buffer ids
    data, num, last, indir_desc,               \* desc_state[]
    next_avail_idx, avail_wrap_counter,
    avail_used_flags,        \* its AVAIL bit; the USED bit is the opposite
    num_added, last_used_idx, used_wrap_counter,
    event_flags_shadow, event_triggered, broken,
    desc,                    \* shared: the ring
    driver_flags, driver_off,                  \* shared: vring.driver
    device_flags, device_off,                  \* shared: vring.device
    pc, delay, head,         \* the driver's call in progress
    wanted, armed,           \* the driver wants callbacks; descriptors ahead whose use must call back
    dev, at, fetched, used, unsignalled,       \* the device
    notified, irq            \* a kick and an interrupt on their way

listVars == <<free_head, num_free, extra_next, data, num, last, indir_desc>>
availVars == <<next_avail_idx, avail_wrap_counter, avail_used_flags, num_added>>
takeVars == <<last_used_idx, used_wrap_counter>>
cbVars == <<event_flags_shadow, driver_flags, driver_off, event_triggered, wanted, armed>>
devVars == <<dev, at, fetched, used, unsignalled, device_flags, device_off>>
callVars == <<pc, delay, head>>
vars == <<event, listVars, availVars, takeVars, cbVars, devVars, callVars, desc, broken,
          notified, irq>>

Descs == 0 .. Num - 1
Word == 65536
NoArm == Num + 1            \* no use is waited for
BadId == Num                \* an id out of range, written by a faulty device
NoId == Num + 1             \* the id of a descriptor that has been read

\* A place in the ring with the wrap counter of its round.
Place(i, w) == [idx |-> i, wrap |-> w]

\* The place n on: "if (unlikely(i >= num)) i -= num", and the counter flips.
Forward(p, n) ==
    IF p.idx + n < Num THEN Place(p.idx + n, p.wrap)
                       ELSE Place(p.idx + n - Num, ~p.wrap)

vring_need_event_Late(event_idx, new, old) ==
    (new - event_idx) % Word < (new - old) % Word

\* include/uapi/linux/virtio_ring.h, on u16.
vring_need_event(event_idx, new, old) ==
    (new - event_idx - 1) % Word < (new - old) % Word

\* The test of kick_prepare_packed, which the device makes too: off is the
\* place written by the other side, wrap the own counter, n entries were added.
NeedEvent(off, wrap, new, n) ==
    vring_need_event(IF off.wrap # wrap THEN off.idx - Num ELSE off.idx, new, new - n)

Empty == [avail |-> FALSE, used |-> FALSE, id |-> NoId, segs |-> << >>, next |-> FALSE]

PackedInit ==
    /\ event \in EventIdx
    /\ free_head = 0 /\ num_free = Num
    /\ extra_next = [i \in Descs |-> IF i = Num - 1 THEN 0 ELSE i + 1]
    /\ data = [i \in Descs |-> NoBuf] /\ num = [i \in Descs |-> 0]
    /\ last = [i \in Descs |-> 0] /\ indir_desc = [i \in Descs |-> FALSE]
    /\ next_avail_idx = 0 /\ avail_wrap_counter = TRUE /\ avail_used_flags = TRUE
    /\ num_added = 0 /\ last_used_idx = 0 /\ used_wrap_counter = TRUE
    /\ event_flags_shadow = IF Callback THEN "ENABLE" ELSE "DISABLE"
    /\ event_triggered = FALSE /\ broken = FALSE
    /\ desc = [i \in Descs |-> Empty]
    /\ driver_flags = event_flags_shadow /\ driver_off = Place(0, FALSE)
    /\ device_flags = "DISABLE" /\ device_off = Place(0, FALSE)
    /\ pc = "idle" /\ delay = 0 /\ head = Place(0, FALSE) 
    /\ wanted = Callback /\ armed = IF Callback THEN 0 ELSE NoArm
    /\ dev = "awake" /\ at = Place(0, TRUE) /\ fetched = {} /\ used = Place(0, TRUE)
    /\ unsignalled = 0 /\ notified = FALSE /\ irq = FALSE

SegsOf(b) == [k \in 1 .. TotalSg[b] |-> <<b, k>>]

\* virtqueue_use_indirect
virtqueue_use_indirect(b) == Indirect /\ TotalSg[b] > 1 /\ num_free > 0

\* The first n ids of the free list.
FreeIds(n) ==
    LET c[k \in 1 .. n] == IF k = 1 THEN free_head ELSE extra_next[c[k - 1]]
    IN  c

------------------------------------------------------------------------------
(* Driver: adding buffers and kicking *)

Wrapped_AtEnd(i, h) == i = 0

\* "if (i < head)": the call went round the ring.
Wrapped(i, h) == i < h

MoreDescs_Short(k, n) == k + 1 < n

\* "++c == total_sg ? 0 : VRING_DESC_F_NEXT"
MoreDescs(k, n) == k < n

\* virtqueue_add_packed and virtqueue_add_indirect_packed up to the barrier;
\* table: the indirect table was allocated.  The head's flags stay as they are.
virtqueue_add_packed(b, table) ==
    LET n == IF table THEN 1 ELSE TotalSg[b]
        ids == FreeIds(n)
        place == [k \in 1 .. n |-> Forward(Place(next_avail_idx, avail_used_flags), k - 1)]
        end == Forward(Place(next_avail_idx, avail_used_flags), n)
        Fill(i) ==
            LET k == CHOOSE j \in 1 .. n : place[j].idx = i
            IN  [avail |-> IF k = 1 THEN desc[i].avail ELSE place[k].wrap,
                 used |-> IF k = 1 THEN desc[i].used ELSE ~place[k].wrap,
                 id |-> ids[1],
                 segs |-> IF table THEN SegsOf(b) ELSE << <<b, k>> >>,
                 next |-> MoreDescs(k, n)]
    IN  /\ pc = "idle" /\ dev # "reset" /\ ~broken
        /\ b \notin {data[i] : i \in Descs}
        /\ table => virtqueue_use_indirect(b)
        /\ num_free >= n /\ num_added + n <= MaxBatch
        /\ desc' = [i \in Descs |-> IF \E k \in 1 .. n : place[k].idx = i THEN Fill(i) ELSE desc[i]]
        /\ next_avail_idx' = end.idx
        /\ avail_used_flags' = end.wrap
        /\ avail_wrap_counter' =
              IF table THEN (avail_wrap_counter = (next_avail_idx + 1 < Num))
              ELSE (avail_wrap_counter = ~Wrapped(end.idx, next_avail_idx))
        /\ num_free' = num_free - n
        /\ free_head' = extra_next[ids[n]]
        /\ data' = [data EXCEPT ![ids[1]] = b]
        /\ num' = [num EXCEPT ![ids[1]] = n]
        /\ last' = [last EXCEPT ![ids[1]] = ids[n]]
        /\ indir_desc' = [indir_desc EXCEPT ![ids[1]] = table]
        /\ head' = Place(next_avail_idx, avail_used_flags)
        /\ delay' = n /\ pc' = "publish"
        /\ UNCHANGED <<event, extra_next, num_added, takeVars, cbVars, devVars, broken,
                       notified, irq>>

AddPublish_Late ==
    /\ pc = "publish"
    /\ desc' = [desc EXCEPT ![head.idx].avail = avail_used_flags,
                            ![head.idx].used = ~avail_used_flags]
    /\ num_added' = num_added + delay
    /\ pc' = "idle" /\ delay' = 0 /\ head' = Place(0, FALSE)
    /\ UNCHANGED <<event, listVars, next_avail_idx, avail_wrap_counter, avail_used_flags,
                   takeVars, cbVars, devVars, broken, notified, irq>>

\* The flags of the head make the whole buffer available.
AddPublish ==
    /\ pc = "publish"
    /\ desc' = [desc EXCEPT ![head.idx].avail = head.wrap, ![head.idx].used = ~head.wrap]
    /\ num_added' = num_added + delay
    /\ pc' = "idle" /\ delay' = 0 /\ head' = Place(0, FALSE)
    /\ UNCHANGED <<event, listVars, next_avail_idx, avail_wrap_counter, avail_used_flags,
                   takeVars, cbVars, devVars, broken, notified, irq>>

\* virtqueue_kick_prepare_packed
virtqueue_kick_prepare_packed ==
    /\ pc = "idle" /\ dev # "reset"
    /\ num_added' = 0
    /\ LET needs_kick ==
             IF device_flags = "DESC"
             THEN NeedEvent(device_off, avail_wrap_counter, next_avail_idx, num_added)
             ELSE device_flags # "DISABLE"
       IN  pc' = IF needs_kick THEN "notify" ELSE "idle"
    /\ UNCHANGED <<event, listVars, next_avail_idx, avail_wrap_counter, avail_used_flags,
                   takeVars, cbVars, devVars, delay, head, desc, broken, notified, irq>>

\* virtqueue_notify; ok: the transport's notify().
virtqueue_notify(ok) ==
    /\ pc = "notify"
    /\ notified' = (notified \/ (~broken /\ ok))
    /\ broken' = (broken \/ ~ok)
    /\ pc' = "idle"
    /\ UNCHANGED <<event, listVars, availVars, takeVars, cbVars, devVars, delay, head,
                   desc, irq>>

------------------------------------------------------------------------------
(* Driver: taking used buffers *)

\* is_used_desc_packed
is_used_desc_packed(idx, wrap) == desc[idx].avail = desc[idx].used /\ desc[idx].used = wrap

more_used_packed == is_used_desc_packed(last_used_idx, used_wrap_counter)

detach_buf_packed_LinkHead(id) ==
    /\ data' = [data EXCEPT ![id] = NoBuf]
    /\ extra_next' = [extra_next EXCEPT ![id] = free_head]
    /\ free_head' = id
    /\ num_free' = num_free + num[id]
    /\ indir_desc' = [indir_desc EXCEPT ![id] = FALSE]
    /\ num' = [num EXCEPT ![id] = 0]
    /\ last' = [last EXCEPT ![id] = 0]

\* detach_buf_packed; num and last are dead until the id is used again.
detach_buf_packed(id) ==
    /\ data' = [data EXCEPT ![id] = NoBuf]
    /\ extra_next' = [extra_next EXCEPT ![last[id]] = free_head]
    /\ free_head' = id
    /\ num_free' = num_free + num[id]
    /\ indir_desc' = [indir_desc EXCEPT ![id] = FALSE]
    /\ num' = [num EXCEPT ![id] = 0]
    /\ last' = [last EXCEPT ![id] = 0]

\* virtqueue_get_buf_ctx_packed finds nothing.  A driver that wants callbacks
\* and has seen the queue empty may now wait for one.
GetBufNone ==
    /\ pc = "idle" /\ dev # "reset" /\ ~broken /\ ~more_used_packed
    /\ armed' = IF wanted /\ armed = NoArm THEN 0 ELSE armed
    /\ UNCHANGED <<event, listVars, availVars, takeVars, event_flags_shadow, driver_flags,
                   driver_off, event_triggered, wanted, devVars, callVars, desc, broken,
                   notified, irq>>

\* virtqueue_get_buf_ctx_packed up to the update of the place: last_used_idx and
\* used_wrap_counter are two stores, which an interrupt may fall between.
virtqueue_get_buf_ctx_packed ==
    LET id == desc[last_used_idx].id
        good == id \in Descs /\ data[id] # NoBuf
    IN  /\ pc = "idle" /\ dev # "reset" /\ ~broken /\ more_used_packed
        /\ IF good
           THEN /\ detach_buf_packed(id)
                /\ desc' = [desc EXCEPT ![last_used_idx].id = NoId]
                /\ delay' = num[id] /\ pc' = "advance" /\ armed' = NoArm
                /\ UNCHANGED broken
           ELSE /\ broken' = TRUE     \* BAD_RING
                /\ UNCHANGED <<listVars, desc, delay, pc, armed>>
        /\ UNCHANGED <<event, availVars, takeVars, event_flags_shadow, driver_flags,
                       driver_off, event_triggered, wanted, devVars, head, notified, irq>>

GetBufAdvance ==
    /\ pc = "advance"
    /\ LET to == Forward(Place(last_used_idx, used_wrap_counter), delay)
       IN  last_used_idx' = to.idx /\ used_wrap_counter' = to.wrap
    /\ pc' = "store" /\ delay' = 0
    /\ UNCHANGED <<event, listVars, availVars, cbVars, devVars, head, desc, broken,
                   notified, irq>>

\* The end of virtqueue_get_buf_ctx_packed.
GetBufStore ==
    /\ pc = "store"
    /\ driver_off' = IF event_flags_shadow = "DESC"
                     THEN Place(last_used_idx, used_wrap_counter) ELSE driver_off
    /\ pc' = "idle"
    /\ UNCHANGED <<event, listVars, availVars, takeVars, event_flags_shadow, driver_flags,
                   event_triggered, wanted, armed, devVars, delay, head, desc, broken,
                   notified, irq>>

------------------------------------------------------------------------------
(* Driver: callbacks *)

\* virtqueue_disable_cb and virtqueue_disable_cb_packed: may fall into any call.
virtqueue_disable_cb ==
    /\ "disable_cb" \in Calls /\ dev # "reset"
    /\ wanted' = FALSE /\ armed' = NoArm
    /\ IF event_triggered
       THEN UNCHANGED <<event_flags_shadow, driver_flags>>
       ELSE event_flags_shadow' = "DISABLE" /\ driver_flags' = "DISABLE"
    /\ UNCHANGED <<event, listVars, availVars, takeVars, driver_off, event_triggered,
                   devVars, callVars, desc, broken, notified, irq>>

\* What the two enabling calls share: the event offset n ahead is written first,
\* the flag after the barrier.
EnableAhead(n) ==
    /\ pc = "idle" /\ dev # "reset"
    /\ event_triggered' = FALSE
    /\ driver_off' = IF event THEN Forward(Place(last_used_idx, used_wrap_counter), n)
                              ELSE driver_off
    /\ delay' = n /\ pc' = "enable"
    /\ wanted' = TRUE /\ armed' = NoArm
    /\ UNCHANGED <<event, listVars, availVars, takeVars, event_flags_shadow, driver_flags,
                   devVars, head, desc, broken, notified, irq>>

\* virtqueue_enable_cb_prepare and virtqueue_enable_cb_prepare_packed
virtqueue_enable_cb_prepare ==
    "enable_cb" \in Calls /\ EnableAhead(0)

\* virtqueue_enable_cb_delayed and virtqueue_enable_cb_delayed_packed
virtqueue_enable_cb_delayed ==
    "enable_cb_delayed" \in Calls /\ EnableAhead(((Num - num_free) * 3) \div 4)

EnableFlags ==
    /\ pc = "enable"
    /\ LET on == IF event THEN "DESC" ELSE "ENABLE"
       IN  IF event_flags_shadow = "DISABLE"
           THEN event_flags_shadow' = on /\ driver_flags' = on
           ELSE UNCHANGED <<event_flags_shadow, driver_flags>>
    /\ pc' = "poll"
    /\ UNCHANGED <<event, listVars, availVars, takeVars, driver_off, event_triggered,
                   wanted, armed, devVars, delay, head, desc, broken, notified, irq>>

virtqueue_poll_NoLook ==
    /\ pc = "poll"
    /\ armed' = IF wanted THEN delay ELSE armed
    /\ pc' = "idle" /\ delay' = 0
    /\ UNCHANGED <<event, listVars, availVars, takeVars, event_flags_shadow, driver_flags,
                   driver_off, event_triggered, wanted, devVars, head, desc, broken,
                   notified, irq>>

\* virtqueue_poll, with which virtqueue_enable_cb ends, and the same test at the
\* end of virtqueue_enable_cb_delayed_packed.  A driver told that nothing is
\* pending may now wait for its callback.
virtqueue_poll ==
    /\ pc = "poll"
    /\ armed' = IF wanted /\ ~more_used_packed THEN delay ELSE armed
    /\ pc' = "idle" /\ delay' = 0
    /\ UNCHANGED <<event, listVars, availVars, takeVars, event_flags_shadow, driver_flags,
                   driver_off, event_triggered, wanted, devVars, head, desc, broken,
                   notified, irq>>

\* vring_interrupt: the callback ends the driver's wait.  While get_buf moves
\* last_used_idx and used_wrap_counter, more_used may see any mixture of the two.
vring_interrupt(more) ==
    /\ irq /\ irq' = FALSE
    /\ pc # "advance" => more = more_used_packed
    /\ IF more /\ ~broken
       THEN /\ event_triggered' = (event_triggered \/ event)
            /\ armed' = NoArm
       ELSE UNCHANGED <<event_triggered, armed>>
    /\ UNCHANGED <<event, listVars, availVars, takeVars, event_flags_shadow, driver_flags,
                   driver_off, wanted, devVars, callVars, desc, broken, notified>>

\* virtqueue_detach_unused_buf_packed, after the reset: the first buffer left.
virtqueue_detach_unused_buf_packed ==
    /\ dev = "reset"
    /\ \E i \in Descs :
         /\ data[i] # NoBuf
         /\ \A j \in 0 .. i - 1 : data[j] = NoBuf
         /\ detach_buf_packed(i)
    /\ UNCHANGED <<event, availVars, takeVars, cbVars, devVars, callVars, desc, broken,
                   notified, irq>>

\* virtqueue_detach_unused_buf_packed returns NULL.
DetachNone ==
    /\ dev = "reset" /\ \A i \in Descs : data[i] = NoBuf
    /\ UNCHANGED vars

------------------------------------------------------------------------------
(* Device (external).  It decides on an interrupt at the latest when it has    *)
(* used Num descriptors since its last decision; a device the driver has given *)
(* up on (broken) can no longer be noticed and is not followed further.        *)

Available(p) == desc[p.idx].avail = p.wrap /\ desc[p.idx].used # p.wrap

\* The descriptors of the buffer that starts at p: up to the first without NEXT.
LenAt(p) ==
    CHOOSE n \in 1 .. Num :
        /\ n < Num => ~desc[Forward(p, n - 1).idx].next
        /\ \A k \in 1 .. n - 1 : desc[Forward(p, k - 1).idx].next

\* It fetches the next available buffer.
DevFetch ==
    LET n == LenAt(at)
    IN  /\ dev = "awake" /\ ~broken /\ Available(at)
        /\ fetched' = fetched \cup {[id |-> desc[at.idx].id, n |-> n]}
        /\ desc' = [i \in Descs |->
              IF \E k \in 1 .. n : Forward(at, k - 1).idx = i
              THEN [desc[i] EXCEPT !.id = NoId, !.segs = << >>, !.next = FALSE]
              ELSE desc[i]]
        /\ at' = Forward(at, n)
        /\ UNCHANGED <<event, listVars, availVars, takeVars, cbVars, dev, used, unsignalled,
                       device_flags, device_off, callVars, broken, notified, irq>>

\* It has fetched all it saw: it asks for a kick, looks again, and sleeps.
DevAskKick ==
    /\ "sleep" \in Calls /\ dev = "awake" /\ ~broken /\ ~Available(at)
    /\ dev' = "asking"
    /\ device_off' = IF event THEN at ELSE device_off
    /\ device_flags' = IF event THEN "DESC" ELSE "ENABLE"
    /\ UNCHANGED <<event, listVars, availVars, takeVars, cbVars, at, fetched, used,
                   unsignalled, callVars, desc, broken, notified, irq>>

DevSleep ==
    /\ dev = "asking" /\ ~broken
    /\ dev' = IF Available(at) THEN "awake" ELSE "asleep"
    /\ UNCHANGED <<event, listVars, availVars, takeVars, cbVars, at, fetched, used,
                   unsignalled, device_flags, device_off, callVars, desc, broken, notified,
                   irq>>

\* The kick arrives; a device that is awake wants no other.
DevWake ==
    /\ notified /\ ~broken /\ notified' = FALSE
    /\ dev' = IF dev = "asleep" THEN "awake" ELSE dev
    /\ device_flags' = IF dev = "asleep" /\ ~event THEN "DISABLE" ELSE device_flags
    /\ UNCHANGED <<event, listVars, availVars, takeVars, cbVars, at, fetched, used,
                   unsignalled, device_off, callVars, desc, broken, irq>>

\* It writes a used descriptor with the given id for f, over the oldest place;
\* rest: what it goes on holding of f.
UseAs(f, id, rest) ==
    /\ dev # "reset" /\ ~broken /\ f \in fetched /\ f.n > 0
    /\ unsignalled + f.n <= Num
    /\ fetched' = (fetched \ {f}) \cup rest
    /\ desc' = [desc EXCEPT ![used.idx] =
                  [Empty EXCEPT !.avail = used.wrap, !.used = used.wrap, !.id = id]]
    /\ used' = Forward(used, f.n)
    /\ unsignalled' = unsignalled + f.n
    /\ UNCHANGED <<event, listVars, availVars, takeVars, cbVars, dev, at, device_flags,
                   device_off, callVars, broken, notified, irq>>

\* It gives back any of its buffers.
DevUse(f) == UseAs(f, f.id, {})

\* A faulty device writes an id that is no descriptor, and never gives f back.
DevBadUse(f) == "bad_id" \in Calls /\ UseAs(f, BadId, {[f EXCEPT !.n = 0]})

\* It decides on an interrupt for what it used since the last decision.
DevSignal ==
    /\ dev # "reset" /\ ~broken /\ unsignalled > 0
    /\ unsignalled' = 0
    /\ irq' = (irq \/ IF driver_flags = "DESC"
                      THEN NeedEvent(driver_off, used.wrap, used.idx, unsignalled)
                      ELSE driver_flags = "ENABLE")
    /\ UNCHANGED <<event, listVars, availVars, takeVars, cbVars, dev, at, fetched, used,
                   device_flags, device_off, callVars, desc, broken, notified>>

\* virtio_reset_device: the device stops; the driver is between two calls.
DevReset ==
    /\ "reset" \in Calls /\ dev # "reset" /\ pc = "idle"
    /\ dev' = "reset"
    /\ notified' = FALSE /\ irq' = FALSE /\ wanted' = FALSE /\ armed' = NoArm
    /\ fetched' = {} /\ at' = Place(0, TRUE) /\ used' = Place(0, TRUE) /\ unsignalled' = 0
    /\ device_flags' = "ENABLE" /\ device_off' = Place(0, FALSE)
    /\ UNCHANGED <<event, listVars, availVars, takeVars, event_flags_shadow, driver_flags,
                   driver_off, event_triggered, callVars, desc, broken>>

------------------------------------------------------------------------------
DriverNext ==
    \/ \E b \in Bufs, table \in BOOLEAN : virtqueue_add_packed(b, table)
    \/ AddPublish \/ virtqueue_kick_prepare_packed
    \/ \E ok \in BOOLEAN : virtqueue_notify(ok)
    \/ GetBufNone \/ virtqueue_get_buf_ctx_packed \/ GetBufAdvance \/ GetBufStore
    \/ virtqueue_disable_cb \/ virtqueue_enable_cb_prepare \/ virtqueue_enable_cb_delayed
    \/ EnableFlags \/ virtqueue_poll
    \/ \E more \in BOOLEAN : vring_interrupt(more)
    \/ virtqueue_detach_unused_buf_packed \/ DetachNone

DeviceNext ==
    \/ DevFetch \/ DevAskKick \/ DevSleep \/ DevWake \/ DevSignal \/ DevReset
    \/ \E f \in fetched : DevUse(f) \/ DevBadUse(f)

PackedNext == DriverNext \/ DeviceNext

PackedSpec == PackedInit /\ [][PackedNext]_vars

------------------------------------------------------------------------------
(* Properties *)

TypeOK ==
    /\ event \in BOOLEAN
    /\ free_head \in Descs /\ num_free \in 0 .. Num /\ extra_next \in [Descs -> Descs]
    /\ data \in [Descs -> Bufs \cup {NoBuf}] /\ indir_desc \in [Descs -> BOOLEAN]
    /\ num \in [Descs -> 0 .. Num] /\ last \in [Descs -> Descs]
    /\ {next_avail_idx, last_used_idx, driver_off.idx, device_off.idx, at.idx, used.idx,
        head.idx} \subseteq Descs
    /\ \A i \in Descs : desc[i].id \in Descs \cup {BadId, NoId}
    /\ {avail_wrap_counter, avail_used_flags, used_wrap_counter, event_triggered, broken,
        wanted, notified, irq} \subseteq BOOLEAN
    /\ {event_flags_shadow, driver_flags, device_flags} \subseteq {"ENABLE", "DISABLE", "DESC"}
    /\ num_added \in 0 .. MaxBatch /\ delay \in 0 .. Num /\ armed \in 0 .. NoArm
    /\ pc \in {"idle", "publish", "notify", "advance", "store", "enable", "poll"}
    /\ dev \in {"awake", "asking", "asleep", "reset"} /\ unsignalled \in 0 .. Num

Ids == {i \in Descs : data[i] # NoBuf}

\* Where the driver takes the next used buffer; between the two steps of get_buf
\* the token is already the driver's.
UsedFrom ==
    Forward(Place(last_used_idx, used_wrap_counter), IF pc = "advance" THEN delay ELSE 0)

\* A buffer the device can still fetch starts d places on from where it reads.
OfferedAt(d) ==
    /\ \A k \in 0 .. d : Available(Forward(at, k))
    /\ d > 0 => ~desc[Forward(at, d - 1).idx].next

\* The ids of the free list are distinct, belong to no buffer, and with the ids
\* of the buffers' chains they are all ids (virtqueue_add_packed and
\* detach_buf_packed, which trusts desc_state[].last and desc_state[].num).  At
\* num_free = Num it is the BUG_ON at the end of detach_unused_buf_packed.  (Every
\* variable has its type: no place lies outside the ring.)
FreeListExact ==
    LET free == FreeIds(num_free)
        ChainOf(i) ==
            LET c[k \in 1 .. num[i]] == IF k = 1 THEN i ELSE extra_next[c[k - 1]]
            IN  c
    IN  /\ TypeOK
        /\ IsInjective(free)
        /\ \A i \in Ids : num[i] > 0 /\ ChainOf(i)[num[i]] = last[i]
        /\ \A j \in Descs :
              Cardinality({i \in Ids : j \in ToSet(ChainOf(i))})
                = IF j \in ToSet(free) THEN 0 ELSE 1

\* The buffers the device can fetch are complete and in order, each under the id
\* for which its token is kept, and none runs into its neighbour or into a used
\* entry not yet taken (the flag bits of every descriptor, written by two sides).
RingIntact ==
    dev # "reset" =>
        \A d \in {k \in 0 .. Num - 1 : OfferedAt(k)} :
            LET p == Forward(at, d)
                n == LenAt(p)
                id == desc[p.idx].id
            IN  /\ id \in Ids /\ num[id] = n
                /\ FlattenSeq([j \in 1 .. n |-> desc[Forward(p, j - 1).idx].segs]) = SegsOf(data[id])

\* The three places the driver keeps agree (next_avail_idx with
\* avail_wrap_counter, avail_used_flags, last_used_idx with used_wrap_counter):
\* the next free place lies as far ahead of the next used one as there are ids
\* taken, and the flag bits written next are those of the round it is in.
PlacesAgree ==
    /\ dev # "reset" =>
          Forward(UsedFrom, Num - num_free) = Place(next_avail_idx, avail_wrap_counter)
    /\ avail_used_flags = avail_wrap_counter

\* No kick is lost (virtqueue_kick_prepare_packed against the device's request
\* for one): a device asleep with an available buffer has a notification under
\* way, or the driver has yet to kick for what it added.
NoLostKick ==
    dev = "asleep" /\ Available(at) /\ ~broken
        => notified \/ num_added > 0 \/ pc = "notify"

\* No interrupt is lost (virtqueue_enable_cb, virtqueue_enable_cb_delayed and
\* the event offset get_buf stores, against the device's decision): once a driver
\* that was told the queue is empty waits for a callback, the use of the
\* descriptor it waits for leaves an interrupt pending or a decision to come.
NoLostInterrupt ==
    ~broken /\ dev # "reset" /\ armed # NoArm
        /\ used.idx - last_used_idx + (IF used.wrap = used_wrap_counter THEN 0 ELSE Num) > armed
        => irq \/ unsignalled > 0

------------------------------------------------------------------------------
(* The abstract virtqueue *)

Tokens(row) == SelectSeq(row, LAMBDA t : t # NoBuf)

TokenAt(p) == IF desc[p.idx].id \in Descs THEN data[desc[p.idx].id] ELSE NoBuf

offeredTokens ==
    Tokens([k \in 1 .. Num |-> IF OfferedAt(k - 1) THEN TokenAt(Forward(at, k - 1)) ELSE NoBuf])

usedTokens ==
    LET UsedAt(p) == IF is_used_desc_packed(p.idx, p.wrap) THEN TokenAt(p) ELSE NoBuf
    IN  Tokens([k \in 1 .. Num |-> UsedAt(Forward(UsedFrom, k - 1))])

VQ == INSTANCE VirtQueue WITH
    offered <- IF dev = "reset" THEN << >> ELSE offeredTokens,
    fetched <- IF dev = "reset" THEN {data[i] : i \in Ids} ELSE {data[f.id] : f \in fetched},
    used <- IF dev = "reset" THEN << >> ELSE usedTokens,
    down <- dev = "reset"

\* The packed ring implements the same virtqueue as the split one: every buffer
\* reaches the device once and in order, its token comes back once and in the
\* order of use, and after a reset every buffer not yet returned is reclaimed.
Virtqueue == VQ!VQSpec
==============================================================================
