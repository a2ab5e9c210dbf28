--------------------------- MODULE VringSplitProofs --------------------------
(***************************************************************************)
(* What is proved of a split ring, for every size of the ring, every width *)
(* of the indexes and any number of buffers: the lists of descriptors stay *)
(* exact, and neither a kick nor an interrupt is lost by the suppression   *)
(* of them.  The inductive invariant is Structure, Indices and Counts      *)
(* (VringSplitLists) with Kicks and Ints: these two say what driver and    *)
(* device know of each other's indexes when they leave a kick or an        *)
(* interrupt out.                                                          *)
(***************************************************************************)
EXTENDS VringSplitLists, FiniteSetTheorems

(* A device asleep has asked for a kick at the entry it waits for, and     *)
(* the entries it missed are among those the driver has yet to kick for.   *)
Kicks ==
  /\ dev \in {"asking", "asleep"} => IF event THEN avail_event = last_avail ELSE ~no_notify
  /\ dev = "asleep" /\ ~broken /\ ~notified /\ pc # "notify" =>
       Minus(avail_idx, last_avail) <= num_added

(* The event index is where the driver waits, and of the entries used past *)
(* it the device has yet to decide on an interrupt, or has sent one.       *)
Ints ==
  /\ wanted => ~no_int_shadow
  /\ no_interrupt => no_int_shadow /\ ~event
  /\ armed # NoIdx => wanted /\ pc \notin {"store", "poll"} /\ (event => used_event = armed)
  /\ pc = "poll" /\ wanted /\ event => used_event = (last_used_idx + bufs) % Word
  /\ event /\ wanted /\ pc \notin {"store", "poll"} /\ armed = NoIdx /\ used_idx = last_used_idx
       => used_event = last_used_idx
  /\ ~broken /\ dev # "reset" /\ armed # NoIdx =>
       irq \/ Minus(used_idx, last_used_idx) - Minus(armed, last_used_idx)
                <= Minus(used_idx, signalled)

LEMMA EventsInit == SplitInit => Kicks /\ Ints
<1> SUFFICES ASSUME SplitInit PROVE Kicks /\ Ints
  BY Zenon
<1>1. Minus(0, 0) = 0
  <2>1. 0 \in Idx
    BY Widths DEF Idx
  <2>2. QED
    BY <2>1, MinusInc, Widths, Zenon
<1>2. Kicks
  BY <1>1 DEF SplitInit, Kicks
<1>3. Ints
  BY <1>1 DEF SplitInit, Ints
<1>4. QED
  BY <1>2, <1>3, Zenon

-----------------------------------------------------------------------------
(* virtqueue_kick_prepare_split() finds that the device waits for one of   *)
(* the entries added since the last kick.                                  *)
LEMMA KickNeeded ==
  ASSUME Indices, avail_idx = avail_idx_shadow,
         Minus(avail_idx, last_avail) <= num_added, avail_idx # last_avail
  PROVE  vring_need_event(last_avail, avail_idx_shadow, Minus(avail_idx_shadow, num_added))
<1>1. /\ avail_idx \in Int /\ last_avail \in Int /\ num_added \in Nat /\ Word \in Nat
      /\ 0 <= avail_idx /\ avail_idx < Word /\ 0 <= last_avail /\ last_avail < Word
      /\ num_added < Word /\ num_added \in Idx
  BY Widths DEF Indices, Idx
<1>2. PICK old \in Idx : old = Minus(avail_idx, num_added)
  BY <1>1, MinusIs, Zenon DEF Indices
<1>3. old = IF num_added <= avail_idx THEN avail_idx - num_added ELSE avail_idx - num_added + Word
  BY <1>1, <1>2, MinusIs, Zenon DEF Indices
<1>4. /\ Minus(avail_idx, old) = (IF old <= avail_idx THEN avail_idx - old ELSE avail_idx - old + Word)
      /\ Minus(last_avail, old) = (IF old <= last_avail THEN last_avail - old ELSE last_avail - old + Word)
      /\ Minus(avail_idx, last_avail) = (IF last_avail <= avail_idx THEN avail_idx - last_avail
                                         ELSE avail_idx - last_avail + Word)
  BY <1>2, MinusIs, Zenon DEF Indices
<1>5. old \in Int /\ 0 <= old /\ old < Word
  BY <1>2, Widths DEF Idx
<1>6. Minus(last_avail, old) < Minus(avail_idx, old)
  BY <1>1, <1>3, <1>4, <1>5
<1>7. QED
  BY <1>2, <1>6, NeedEvent, Zenon DEF Indices

LEMMA KicksStep ==
  ASSUME FiniteLaws, Structure, Indices, Counts, Kicks, [SplitNext]_vars
  PROVE  Kicks'
<1>1. CASE AddPublish
  <2>1. /\ avail_idx' = Inc(avail_idx) /\ num_added' = num_added + 1 /\ pc # "notify"
        /\ UNCHANGED <<event, dev, last_avail, no_notify, avail_event, broken, notified>>
    BY <1>1, Zenon DEF AddPublish, Counts, devVars
  <2>2. /\ Minus(avail_idx, last_avail) \in Nat /\ Minus(avail_idx, last_avail)' \in Nat
        /\ Minus(avail_idx, last_avail)' <= Minus(avail_idx, last_avail) + 1
    <3>1. Minus(avail_idx, last_avail)' = Minus(Inc(avail_idx), last_avail)
      BY <2>1, Zenon
    <3>2. /\ Minus(avail_idx, last_avail) \in Idx /\ Minus(Inc(avail_idx), last_avail) \in Idx
          /\ Minus(Inc(avail_idx), last_avail) <= Minus(avail_idx, last_avail) + 1
      BY MinusInc, MinusIs, IncIs, Zenon DEF Indices
    <3>3. \A i \in Idx : i \in Nat
      BY Widths DEF Idx
    <3>4. QED
      BY <3>1, <3>2, <3>3, Zenon
  <2>3. QED
    BY <2>1, <2>2 DEF Kicks, Indices
<1>2. CASE virtqueue_kick_prepare_split
  <2>1. /\ num_added' = 0 /\ pc # "notify"
        /\ UNCHANGED <<event, avail_idx, dev, last_avail, no_notify, avail_event, broken, notified>>
    BY <1>2, Zenon DEF virtqueue_kick_prepare_split, devVars
  <2>2. ASSUME dev = "asleep", ~broken, ~notified, avail_idx # last_avail PROVE pc' = "notify"
    <3>1. Minus(avail_idx, last_avail) <= num_added
      BY <2>1, <2>2, Zenon DEF Kicks
    <3>2. CASE event
      <4>1. avail_event = last_avail
        BY <2>2, <3>2, Zenon DEF Kicks
      <4>2. vring_need_event(avail_event, avail_idx_shadow, Minus(avail_idx_shadow, num_added))
        BY <2>2, <3>1, <4>1, KickNeeded, Zenon DEF Counts
      <4>3. QED
        BY <1>2, <3>2, <4>2, Zenon DEF virtqueue_kick_prepare_split
    <3>3. CASE ~event
      <4>1. ~no_notify
        BY <2>2, <3>3, Zenon DEF Kicks
      <4>2. QED
        BY <1>2, <3>3, <4>1, Zenon DEF virtqueue_kick_prepare_split
    <3>4. QED
      BY <3>2, <3>3, Zenon
  <2>3. avail_idx = last_avail => Minus(avail_idx, last_avail)' <= num_added'
    <3>1. Minus(avail_idx, last_avail) = 0 <=> avail_idx = last_avail
      BY MinusInc, Zenon DEF Indices
    <3>2. Minus(avail_idx, last_avail)' = Minus(avail_idx, last_avail)
      BY <2>1, Zenon DEF Minus
    <3>3. QED
      BY <2>1, <3>1, <3>2
  <2>4. QED
    BY <2>1, <2>2, <2>3, Zenon DEF Kicks
<1>3. CASE \E ok \in BOOLEAN : virtqueue_notify(ok)
  <2>1. PICK ok \in BOOLEAN : virtqueue_notify(ok)
    BY <1>3, Zenon
  <2>2. broken' \/ notified'
    BY <2>1, Zenon DEF virtqueue_notify
  <2>3. UNCHANGED <<event, dev, last_avail, no_notify, avail_event>>
    BY <2>1, Zenon DEF virtqueue_notify, devVars
  <2>4. QED
    BY <2>2, <2>3, Zenon DEF Kicks
<1>4. CASE DevFetch
  BY <1>4, Zenon DEF DevFetch, Kicks
<1>5. CASE DevAskKick
  BY <1>5, Zenon DEF DevAskKick, Kicks
<1>6. CASE DevSleep
  <2>1. /\ dev = "asking" /\ (dev' = "asleep" => last_avail = avail_idx)
        /\ UNCHANGED <<event, avail_idx, last_avail, no_notify, avail_event, num_added>>
    BY <1>6, Zenon DEF DevSleep, availVars
  <2>2. dev' = "asleep" => Minus(avail_idx, last_avail)' = 0
    BY <2>1, MinusInc, Zenon DEF Indices
  <2>3. QED
    BY <2>1, <2>2 DEF Kicks, Indices
<1>7. CASE DevWake
  <2>1. /\ dev' # "asleep" /\ (dev' = "asking" => dev = "asking")
        /\ UNCHANGED <<event, last_avail, avail_event>>
    BY <1>7, Zenon DEF DevWake
  <2>2. dev = "asking" => no_notify' = no_notify
    BY <1>7, Zenon DEF DevWake, Indices
  <2>3. QED
    BY <2>1, <2>2 DEF Kicks
<1>8. CASE DevReset
  BY <1>8, Zenon DEF DevReset, Kicks
<1>9. ASSUME UNCHANGED <<event, dev, last_avail, no_notify, avail_event, avail_idx, num_added>>,
             broken => broken', notified => notified', pc = "notify" => pc' = "notify"
      PROVE  Kicks'
  <2>1. Minus(avail_idx, last_avail)' = Minus(avail_idx, last_avail)
    BY <1>9, Zenon DEF Minus
  <2>2. QED
    BY <1>9, <2>1, Zenon DEF Kicks
<1>10. CASE virtqueue_detach_unused_buf_split
  BY <1>10, Zenon DEF virtqueue_detach_unused_buf_split, devVars, Kicks
<1>11. CASE \E h \in fetched : DevUse(h) \/ DevBadUse(h)
  BY <1>9, <1>11 DEF DevUse, DevBadUse, availVars
<1>12. CASE \E b \in Bufs, table \in BOOLEAN : virtqueue_add_split(b, table)
  BY <1>9, <1>12 DEF virtqueue_add_split, devVars
<1>13. CASE \E b \in Bufs, table \in BOOLEAN : AddNoSpace(b, table)
  BY <1>9, <1>13, Zenon DEF AddNoSpace, availVars, devVars
<1>14. CASE GetBufNone \/ GetBufStore \/ virtqueue_poll
  BY <1>9, <1>14, Zenon DEF GetBufNone, GetBufStore, virtqueue_poll, availVars, devVars
<1>15. CASE virtqueue_get_buf_ctx_split
  BY <1>9, <1>15, Zenon DEF virtqueue_get_buf_ctx_split, availVars, devVars
<1>16. CASE virtqueue_disable_cb \/ vring_interrupt \/ virtio_break_device
  BY <1>9, <1>16, Zenon
     DEF virtqueue_disable_cb, vring_interrupt, virtio_break_device, availVars, devVars
<1>17. CASE virtqueue_enable_cb_prepare \/ virtqueue_enable_cb_delayed
  BY <1>9, <1>17, Zenon
     DEF virtqueue_enable_cb_prepare, virtqueue_enable_cb_delayed, EnableAt, availVars, devVars
<1>18. CASE DevSignal
  BY <1>9, <1>18, Zenon DEF DevSignal, availVars, devVars
<1>19. CASE UNCHANGED vars
  BY <1>9, <1>19, Zenon DEF vars, availVars, devVars
<1>20. QED
  BY <1>1, <1>2, <1>3, <1>4, <1>5, <1>6, <1>7, <1>8, <1>10, <1>11, <1>12, <1>13, <1>14, <1>15,
     <1>16, <1>17, <1>18, <1>19, Zenon DEF SplitNext, DriverNext, DeviceNext, DetachNone

-----------------------------------------------------------------------------
(* A device that decides against an interrupt has not passed the event     *)
(* index with what it used since its last decision.                        *)
LEMMA NotPassed ==
  ASSUME Indices, armed \in Idx,
         Minus(used_idx, last_used_idx) - Minus(armed, last_used_idx) <= Minus(used_idx, signalled),
         ~vring_need_event(armed, used_idx, signalled)
  PROVE  Minus(used_idx, last_used_idx) - Minus(armed, last_used_idx) <= 0
<1>1. /\ used_idx \in Int /\ last_used_idx \in Int /\ armed \in Int /\ signalled \in Int
      /\ 0 <= used_idx /\ used_idx < Word /\ 0 <= last_used_idx /\ last_used_idx < Word
      /\ 0 <= armed /\ armed < Word /\ 0 <= signalled /\ signalled < Word /\ Word \in Nat
  BY Widths DEF Indices, Idx
<1>2. ~(Minus(armed, signalled) < Minus(used_idx, signalled))
  BY NeedEvent, Zenon DEF Indices
<1>3. /\ Minus(used_idx, last_used_idx) = (IF last_used_idx <= used_idx THEN used_idx - last_used_idx
                                           ELSE used_idx - last_used_idx + Word)
      /\ Minus(armed, last_used_idx) = (IF last_used_idx <= armed THEN armed - last_used_idx
                                        ELSE armed - last_used_idx + Word)
      /\ Minus(used_idx, signalled) = (IF signalled <= used_idx THEN used_idx - signalled
                                       ELSE used_idx - signalled + Word)
      /\ Minus(armed, signalled) = (IF signalled <= armed THEN armed - signalled
                                    ELSE armed - signalled + Word)
  BY MinusIs, Zenon DEF Indices
<1>4. QED
  BY <1>1, <1>2, <1>3

(* Steps that leave the used ring and the callbacks alone.                 *)
LEMMA IntsQuiet ==
  ASSUME Ints,
         UNCHANGED <<event, cbVars, used_idx, signalled, last_used_idx, bufs, irq>>,
         broken => broken', dev = "reset" => dev' = "reset",
         \/ pc' = pc
         \/ pc \notin {"store", "poll"} /\ pc' \notin {"store", "poll"}
  PROVE  Ints'
<1>1. /\ Minus(used_idx, last_used_idx)' = Minus(used_idx, last_used_idx)
      /\ Minus(armed, last_used_idx)' = Minus(armed, last_used_idx)
      /\ Minus(used_idx, signalled)' = Minus(used_idx, signalled)
  BY Zenon DEF Minus, cbVars
<1>2. UNCHANGED <<event, no_int_shadow, no_interrupt, used_event, wanted, armed, used_idx,
                  last_used_idx, bufs, irq>>
  BY Zenon DEF cbVars
<1>3. QED
  BY <1>1, <1>2 DEF Ints, NoIdx

LEMMA IntsStep ==
  ASSUME FiniteLaws, Structure, Indices, Counts, Ints, [SplitNext]_vars
  PROVE  Ints'
<1>0. /\ Minus(used_idx, last_used_idx) \in Nat /\ Minus(used_idx, signalled) \in Nat
      /\ \A i \in Idx : Minus(i, last_used_idx) \in Nat
      /\ (Minus(used_idx, last_used_idx) = 0 <=> used_idx = last_used_idx)
      /\ NoIdx \notin Idx
  <2>1. Idx \subseteq Nat /\ NoIdx \notin Idx
    BY Widths DEF Idx
  <2>2. QED
    BY <2>1, MinusIs, MinusInc, Zenon DEF Indices
<1>1. CASE GetBufNone
  <2>1. /\ used_idx = last_used_idx /\ pc = "idle"
        /\ armed' = (IF wanted /\ armed = NoIdx THEN last_used_idx ELSE armed)
        /\ UNCHANGED <<event, no_int_shadow, no_interrupt, used_event, wanted, used_idx, signalled,
                       dev, last_used_idx, broken, pc, bufs, irq>>
    BY <1>1, Zenon DEF GetBufNone, more_used_split, usedVars, devVars
  <2>2. CASE wanted /\ armed = NoIdx
    <3>1. armed' = last_used_idx /\ armed' # NoIdx
      BY <1>0, <2>1, <2>2, Zenon DEF Indices
    <3>2. event => used_event = last_used_idx
      BY <2>1, <2>2, Zenon DEF Ints
    <3>3. Minus(used_idx, last_used_idx)' - Minus(armed, last_used_idx)' <= Minus(used_idx, signalled)'
      <4>1. /\ Minus(used_idx, last_used_idx)' = 0 /\ Minus(armed, last_used_idx)' = 0
            /\ Minus(used_idx, signalled)' = Minus(used_idx, signalled)
        BY <1>0, <2>1, <3>1, Zenon DEF Minus
      <4>2. QED
        BY <1>0, <4>1
    <3>4. QED
      BY <2>1, <2>2, <3>1, <3>2, <3>3, Zenon DEF Ints
  <2>3. CASE ~(wanted /\ armed = NoIdx)
    BY <2>1, <2>3, IntsQuiet, <1>1, Zenon DEF GetBufNone, cbVars
  <2>4. QED
    BY <2>2, <2>3, Zenon
<1>2. CASE virtqueue_get_buf_ctx_split
  <2>1. CASE pc' = "store" /\ armed' = NoIdx
    <3>1. UNCHANGED <<event, no_int_shadow, no_interrupt, wanted>>
      BY <1>2, Zenon DEF virtqueue_get_buf_ctx_split
    <3>2. QED
      BY <2>1, <3>1, Zenon DEF Ints, NoIdx
  <2>2. CASE ~(pc' = "store" /\ armed' = NoIdx)
    <3>1. /\ broken' = TRUE
          /\ UNCHANGED <<event, cbVars, used_idx, signalled, last_used_idx, bufs, irq, dev, pc>>
      BY <1>2, <2>2, Zenon DEF virtqueue_get_buf_ctx_split, cbVars, devVars
    <3>2. QED
      BY <3>1, IntsQuiet, Zenon
  <2>3. QED
    BY <2>1, <2>2, Zenon
<1>3. CASE GetBufStore
  <2>1. /\ pc = "store" /\ pc' = "idle"
        /\ used_event' = (IF no_int_shadow THEN used_event ELSE last_used_idx)
        /\ UNCHANGED <<event, no_int_shadow, no_interrupt, wanted, armed, last_used_idx>>
    BY <1>3, Zenon DEF GetBufStore
  <2>2. armed = NoIdx
    BY <2>1, Zenon DEF Ints
  <2>3. QED
    BY <2>1, <2>2, Zenon DEF Ints, NoIdx
<1>4. CASE virtqueue_disable_cb
  <2>1. wanted' = FALSE /\ armed' = NoIdx /\ UNCHANGED event
    BY <1>4, Zenon DEF virtqueue_disable_cb
  <2>2. no_interrupt' => no_int_shadow' /\ ~event
    BY <1>4, Zenon DEF virtqueue_disable_cb, Ints
  <2>3. QED
    BY <2>1, <2>2, Zenon DEF Ints, NoIdx
<1>5. CASE virtqueue_enable_cb_prepare
  <2>1. /\ wanted' = TRUE /\ armed' = NoIdx /\ no_int_shadow' = FALSE /\ pc' = "poll" /\ bufs' = 0
        /\ used_event' = last_used_idx /\ UNCHANGED <<event, last_used_idx>>
    BY <1>5, Zenon DEF virtqueue_enable_cb_prepare, EnableAt
  <2>2. ~no_interrupt'
    BY <1>5, Zenon DEF virtqueue_enable_cb_prepare, EnableAt, Ints
  <2>3. used_event' = (last_used_idx' + bufs') % Word
    <3>1. last_used_idx + 0 = last_used_idx /\ last_used_idx % Word = last_used_idx
      BY InWidth DEF Indices, Idx
    <3>2. QED
      BY <2>1, <3>1, Zenon
  <2>4. QED
    BY <2>1, <2>2, <2>3, Zenon DEF Ints, NoIdx
<1>6. CASE virtqueue_enable_cb_delayed
  <2>1. /\ wanted' = TRUE /\ armed' = NoIdx /\ no_int_shadow' = FALSE /\ pc' = "poll"
        /\ used_event' = (last_used_idx + bufs') % Word /\ UNCHANGED <<event, last_used_idx>>
    BY <1>6, Zenon DEF virtqueue_enable_cb_delayed, EnableAt
  <2>2. ~no_interrupt'
    BY <1>6, Zenon DEF virtqueue_enable_cb_delayed, EnableAt, Ints
  <2>3. QED
    BY <2>1, <2>2, Zenon DEF Ints, NoIdx
<1>7. CASE virtqueue_poll
  <2>1. /\ pc = "poll" /\ pc' = "idle" /\ armed = NoIdx
        /\ UNCHANGED <<event, no_int_shadow, no_interrupt, used_event, wanted, used_idx, signalled,
                       dev, last_used_idx, broken, irq>>
    BY <1>7, Zenon DEF virtqueue_poll, usedVars, devVars, Ints
  <2>2. CASE wanted /\ ~(Minus(used_idx, last_used_idx) > bufs)
    <3>1. armed' = (last_used_idx + bufs) % Word
      BY <1>7, <2>2, Zenon DEF virtqueue_poll
    <3>2. event => used_event = armed'
      BY <2>1, <2>2, <3>1, Zenon DEF Ints
    <3>3. armed' \in Idx /\ Minus(armed, last_used_idx)' = bufs
      <4>1. /\ last_used_idx \in Int /\ 0 <= last_used_idx /\ last_used_idx < Word
            /\ bufs \in Int /\ 0 <= bufs /\ bufs < Word /\ Word \in Nat \ {0}
        BY Widths DEF Indices, Idx
      <4>2. CASE last_used_idx + bufs < Word
        <5>1. last_used_idx + bufs \in Idx
          BY <4>1, <4>2 DEF Idx
        <5>2. armed' = last_used_idx + bufs /\ armed' \in Idx
          BY <3>1, <5>1, InWidth, Zenon
        <5>3. Minus(armed, last_used_idx)' = bufs
          BY <2>1, <4>1, <5>2, MinusIs DEF Indices
        <5>4. QED
          BY <5>2, <5>3, Zenon
      <4>3. CASE last_used_idx + bufs >= Word
        <5>1. last_used_idx + bufs \in Word .. 2 * Word - 1
          BY <4>1, <4>3
        <5>2. (last_used_idx + bufs) % Word = last_used_idx + bufs - Word
          BY <4>1, <5>1
        <5>3. armed' = last_used_idx + bufs - Word /\ armed' \in Idx
          BY <3>1, <4>1, <4>3, <5>2 DEF Idx
        <5>4. Minus(armed, last_used_idx)' = bufs
          BY <2>1, <4>1, <5>3, MinusIs DEF Indices
        <5>5. QED
          BY <5>3, <5>4, Zenon
      <4>4. QED
        BY <4>1, <4>2, <4>3
    <3>4. Minus(used_idx, last_used_idx)' - Minus(armed, last_used_idx)' <= Minus(used_idx, signalled)'
      <4>1. /\ Minus(used_idx, last_used_idx)' = Minus(used_idx, last_used_idx)
            /\ Minus(used_idx, signalled)' = Minus(used_idx, signalled)
        BY <2>1, Zenon DEF Minus
      <4>2. bufs \in Int
        BY DEF Indices, Idx
      <4>3. QED
        BY <1>0, <2>2, <3>3, <4>1, <4>2
    <3>5. QED
      BY <1>0, <2>1, <2>2, <3>2, <3>3, <3>4, Zenon DEF Ints, NoIdx
  <2>3. CASE ~(wanted /\ ~(Minus(used_idx, last_used_idx) > bufs))
    <3>1. armed' = NoIdx
      BY <1>7, <2>1, <2>3, Zenon DEF virtqueue_poll
    <3>2. wanted => used_idx # last_used_idx
      <4>1. bufs \in Nat
        BY DEF Indices, Idx
      <4>2. QED
        BY <1>0, <2>3, <4>1
    <3>3. QED
      BY <2>1, <3>1, <3>2, Zenon DEF Ints, NoIdx
  <2>4. QED
    BY <2>2, <2>3, Zenon
<1>8. CASE vring_interrupt
  <2>1. UNCHANGED <<event, no_int_shadow, no_interrupt, used_event, wanted, used_idx, signalled,
                    dev, last_used_idx, broken, pc, bufs>>
    BY <1>8, Zenon DEF vring_interrupt, usedVars, devVars
  <2>2. CASE used_idx # last_used_idx /\ ~broken
    <3>1. armed' = NoIdx
      BY <1>8, <2>2, Zenon DEF vring_interrupt, more_used_split
    <3>2. QED
      BY <2>1, <2>2, <3>1, Zenon DEF Ints, NoIdx
  <2>3. CASE ~(used_idx # last_used_idx /\ ~broken)
    <3>1. armed' = armed
      BY <1>8, <2>3, Zenon DEF vring_interrupt, more_used_split
    <3>2. ASSUME ~broken, armed # NoIdx
          PROVE  Minus(used_idx, last_used_idx)' - Minus(armed, last_used_idx)'
                   <= Minus(used_idx, signalled)'
      <4>1. /\ Minus(used_idx, last_used_idx)' = Minus(used_idx, last_used_idx)
            /\ Minus(armed, last_used_idx)' = Minus(armed, last_used_idx)
            /\ Minus(used_idx, signalled)' = Minus(used_idx, signalled)
        BY <2>1, <3>1, Zenon DEF Minus
      <4>2. armed \in Idx /\ Minus(used_idx, last_used_idx) = 0
        BY <1>0, <2>3, <3>2, Zenon DEF Indices
      <4>3. QED
        BY <1>0, <4>1, <4>2
    <3>3. QED
      BY <2>1, <3>1, <3>2, Zenon DEF Ints, NoIdx
  <2>4. QED
    BY <2>2, <2>3, Zenon
<1>9. CASE \E h \in fetched : DevUse(h) \/ DevBadUse(h)
  <2>1. /\ dev # "reset" /\ ~broken /\ used_idx' = Inc(used_idx)
        /\ Minus(used_idx, signalled) < Num
        /\ UNCHANGED <<event, cbVars, signalled, last_used_idx, bufs, irq, broken, dev, pc>>
    BY <1>9, Zenon DEF DevUse, DevBadUse
  <2>2. PICK h \in fetched : DevUse(h) \/ DevBadUse(h)
    BY <1>9, Zenon
  <2>3. Minus(used_idx, last_used_idx) + 1 < Word /\ Minus(used_idx, signalled) + 1 < Word
    BY <2>2, UseCounts, Zenon
  <2>4. /\ Minus(used_idx, last_used_idx)' = Minus(used_idx, last_used_idx) + 1
        /\ Minus(used_idx, signalled)' = Minus(used_idx, signalled) + 1
    BY <2>1, <2>3, MinusInc, Zenon DEF Indices
  <2>5. used_idx' # last_used_idx'
    <3>1. used_idx' \in Idx /\ last_used_idx' \in Idx
      BY <2>1, IncIs, Zenon DEF Indices
    <3>2. Minus(used_idx', last_used_idx') # 0
      BY <1>0, <2>4
    <3>3. QED
      BY <3>1, <3>2, MinusInc, Zenon
  <2>6. /\ UNCHANGED <<no_int_shadow, no_interrupt, used_event, wanted, armed>>
        /\ Minus(armed, last_used_idx)' = Minus(armed, last_used_idx)
    BY <2>1, Zenon DEF cbVars, Minus
  <2>7. armed # NoIdx /\ ~irq =>
          Minus(used_idx, last_used_idx)' - Minus(armed, last_used_idx)' <= Minus(used_idx, signalled)'
    <3>1. SUFFICES ASSUME armed # NoIdx, ~irq
                   PROVE  Minus(used_idx, last_used_idx)' - Minus(armed, last_used_idx)'
                            <= Minus(used_idx, signalled)'
      BY Zenon
    <3>2. Minus(used_idx, last_used_idx) - Minus(armed, last_used_idx) <= Minus(used_idx, signalled)
      BY <2>1, <3>1, Zenon DEF Ints
    <3>3. armed \in Idx
      BY <3>1, Zenon DEF Indices
    <3>4. QED
      BY <1>0, <2>4, <2>6, <3>2, <3>3
  <2>8. QED
    BY <2>1, <2>5, <2>6, <2>7, Zenon DEF Ints, NoIdx
<1>10. CASE DevSignal
  <2>1. /\ dev # "reset" /\ ~broken /\ signalled' = used_idx
        /\ UNCHANGED <<event, cbVars, used_idx, last_used_idx, bufs, broken, dev, pc>>
    BY <1>10, Zenon DEF DevSignal, devVars
  <2>2. UNCHANGED <<no_int_shadow, no_interrupt, used_event, wanted, armed>>
    BY <2>1, Zenon DEF cbVars
  <2>3. ASSUME armed # NoIdx, ~irq'
        PROVE  Minus(used_idx, last_used_idx)' - Minus(armed, last_used_idx)'
                 <= Minus(used_idx, signalled)'
    <3>1. /\ Minus(used_idx, last_used_idx)' = Minus(used_idx, last_used_idx)
          /\ Minus(armed, last_used_idx)' = Minus(armed, last_used_idx)
      BY <2>1, <2>2, Zenon DEF Minus
    <3>2. Minus(used_idx, signalled)' = 0
      BY <2>1, MinusInc, Zenon DEF Indices
    <3>3. armed \in Idx /\ wanted /\ ~no_interrupt
      BY <2>3, Zenon DEF Indices, Ints
    <3>4. event /\ ~irq /\ ~vring_need_event(used_event, used_idx, signalled)
      BY <1>10, <2>3, <3>3, Zenon DEF DevSignal
    <3>5. used_event = armed
      BY <2>3, <3>4, Zenon DEF Ints
    <3>6. Minus(used_idx, last_used_idx) - Minus(armed, last_used_idx) <= Minus(used_idx, signalled)
      BY <2>1, <2>3, <3>4, Zenon DEF Ints
    <3>7. QED
      BY <3>1, <3>2, <3>3, <3>4, <3>5, <3>6, NotPassed, Zenon
  <2>4. QED
    BY <2>1, <2>2, <2>3, Zenon DEF Ints, NoIdx
<1>11. CASE DevReset
  <2>1. /\ wanted' = FALSE /\ armed' = NoIdx
        /\ UNCHANGED <<event, no_int_shadow, no_interrupt>>
    BY <1>11, Zenon DEF DevReset
  <2>2. QED
    BY <2>1, Zenon DEF Ints, NoIdx
<1>12. CASE \E b \in Bufs, table \in BOOLEAN : virtqueue_add_split(b, table) \/ AddNoSpace(b, table)
  BY <1>12, IntsQuiet, Zenon DEF virtqueue_add_split, AddNoSpace, usedVars, devVars
<1>13. CASE AddPublish \/ virtqueue_kick_prepare_split
  BY <1>13, IntsQuiet DEF AddPublish, virtqueue_kick_prepare_split, usedVars, devVars
<1>14. CASE \E ok \in BOOLEAN : virtqueue_notify(ok)
  BY <1>14, IntsQuiet, Zenon DEF virtqueue_notify, usedVars, devVars
<1>15. CASE virtio_break_device \/ virtqueue_detach_unused_buf_split \/ UNCHANGED vars
  BY <1>15, IntsQuiet DEF virtio_break_device, virtqueue_detach_unused_buf_split, vars, usedVars, devVars
<1>16. CASE DevFetch \/ DevAskKick \/ DevSleep \/ DevWake
  BY <1>16, IntsQuiet, Zenon DEF DevFetch, DevAskKick, DevSleep, DevWake, usedVars
<1>17. QED
  BY <1>1, <1>2, <1>3, <1>4, <1>5, <1>6, <1>7, <1>8, <1>9, <1>10, <1>11, <1>12, <1>13, <1>14,
     <1>15, <1>16, Zenon DEF SplitNext, DriverNext, DeviceNext, DetachNone

-----------------------------------------------------------------------------
LEMMA Finite == FiniteLaws
<1>1. ASSUME NEW T \in SUBSET Nat, T # {} PROVE \E x \in T : \A y \in T : x <= y
  <2>1. PICK x \in T : \A y \in T : ~(<<y, x>> \in OpToRel(<, Nat))
    BY <1>1, NatLessThanWellFounded, WFMin, Zenon
  <2>2. ASSUME NEW y \in T PROVE ~(y < x)
    <3>1. y < x => <<y, x>> \in OpToRel(<, Nat)
      BY Zenon DEF OpToRel
    <3>2. QED
      BY <2>1, <3>1, Zenon
  <2>3. QED
    BY <2>2
<1>2. /\ \A m \in Nat : IsFiniteSet(1 .. m) /\ Cardinality(1 .. m) = m
      /\ IsFiniteSet(Descs) /\ Cardinality(Descs) = Num
  BY Widths, FS_Interval DEF Descs
<1>3. ASSUME NEW m \in Nat, NEW f \in [1 .. m -> Descs],
             \A j, k \in 1 .. m : f[j] = f[k] => j = k
      PROVE  m <= Num
  <2>1. f \in Injection(1 .. m, Descs)
    BY <1>3, Zenon DEF Injection, IsInjective
  <2>2. QED
    BY <1>2, <2>1, FS_Injection
<1>4. ASSUME NEW S \in SUBSET Descs
      PROVE  IsFiniteSet(S) /\ Cardinality(S) \in 0 .. Num
  <2>1. IsFiniteSet(S) /\ Cardinality(S) <= Cardinality(Descs)
    BY <1>2, FS_Subset, Zenon
  <2>2. Cardinality(S) \in Nat
    BY <2>1, FS_CardinalityType, Zenon
  <2>3. QED
    BY <1>2, <2>1, <2>2, Widths
<1>5. ASSUME NEW S \in SUBSET Descs, NEW x \in Descs
      PROVE  /\ Cardinality(S \cup {x}) = IF x \in S THEN Cardinality(S) ELSE Cardinality(S) + 1
             /\ Cardinality(S \ {x}) = IF x \in S THEN Cardinality(S) - 1 ELSE Cardinality(S)
  BY <1>4, FS_AddElement, FS_RemoveElement, Zenon
<1>6. Cardinality({}) = 0
  BY FS_EmptySet, Zenon
<1>7. QED
  BY <1>1, <1>2, <1>3, <1>4, <1>5, <1>6, Zenon DEF FiniteLaws

(* The chain of a buffer is its scatterlist.                               *)
LEMMA ScatterlistIs ==
  ASSUME FiniteLaws, Structure
  PROVE  ChainsIntact
<1> SUFFICES ASSUME NEW h \in Heads
             PROVE  /\ [k \in 1 .. Len(ChainOf(h)) |-> desc[ChainOf(h)[k]].segs] =
                         IF indir_desc[h] THEN <<SegsOf(data[h])>>
                         ELSE [k \in 1 .. TotalSg[data[h]] |-> << <<data[h], k>> >>]
                    /\ indir_desc[h] => TotalSg[data[h]] > 1
  BY Zenon DEF ChainsIntact
<1>1. PICK own, rank : ListTypes /\ Labelling(own, rank)
  BY Zenon DEF Structure
<1> DEFINE chain == ChainOf(h)
<1>2. /\ Len(chain) = Size(h)
      /\ \A k \in 1 .. Size(h) : chain[k] \in Descs /\ own[chain[k]] = h /\ rank[chain[k]] = k
  BY <1>1, ChainIs
<1> HIDE DEF chain
<1>3. /\ \A i \in Descs : desc[i] = Content(own[i], rank[i], extra_next[i])
      /\ indir_desc[h] => TotalSg[data[h]] > 1
  BY <1>1, Zenon DEF Labelling, Filled
<1>4. \A k \in 1 .. Size(h) :
        desc[chain[k]].segs = IF indir_desc[h] THEN SegsOf(data[h]) ELSE << <<data[h], k>> >>
  <2> TAKE k \in 1 .. Size(h)
  <2>1. desc[chain[k]] = Content(h, k, extra_next[chain[k]]) /\ h # NoDesc
    BY <1>2, <1>3, Constants, Zenon
  <2>2. Content(h, k, extra_next[chain[k]]).segs =
          IF indir_desc[h] THEN SegsOf(data[h]) ELSE << <<data[h], k>> >>
    BY <2>1, Zenon DEF Content
  <2>3. QED
    BY <2>1, <2>2, Zenon
<1>5. Size(h) = IF indir_desc[h] THEN 1 ELSE TotalSg[data[h]]
  BY Constants, Zenon DEF Size
<1>6. CASE indir_desc[h]
  <2>1. [k \in 1 .. 1 |-> desc[chain[k]].segs] = [k \in 1 .. 1 |-> SegsOf(data[h])]
    BY <1>4, <1>5, <1>6, Zenon
  <2>2. [k \in 1 .. 1 |-> SegsOf(data[h])] = <<SegsOf(data[h])>>
    OBVIOUS
  <2>3. QED
    BY <1>2, <1>3, <1>5, <1>6, <2>1, <2>2, Zenon DEF chain
<1>7. CASE ~indir_desc[h]
  BY <1>2, <1>4, <1>5, <1>7, Zenon DEF chain
<1>8. QED
  BY <1>6, <1>7, Zenon

(* What FreeListExact says of the lists.                                   *)
LEMMA ListsExact ==
  ASSUME FiniteLaws, Structure
  PROVE  LET free == FreeChain(free_head, num_free)
         IN  /\ num_free \in 0 .. Num
             /\ \A i \in Descs : desc[i].next \in Descs \cup {NoDesc}
             /\ IsInjective(free)
             /\ \A k \in 1 .. num_free : desc[free[k]] = Unmapped
             /\ \A h \in Heads : Range(ChainOf(h)) \cap Range(free) = {}
             /\ \A i \in Descs \ Range(free) :
                  \E h \in Heads : \A g \in Heads : i \in Range(ChainOf(g)) <=> g = h
<1> DEFINE free == FreeChain(free_head, num_free)
<1>1. PICK own, rank : ListTypes /\ Labelling(own, rank)
  BY Zenon DEF Structure
<1>2. /\ num_free \in 0 .. Num /\ num_free \in 0 .. num_free
      /\ \A h \in Heads : Size(h) \in Nat
  BY <1>1, SizeType DEF Lists, Size, ListTypes
<1>3. /\ DOMAIN free = 1 .. num_free
      /\ \A k \in 1 .. num_free : free[k] \in Descs /\ own[free[k]] = NoDesc /\ rank[free[k]] = k
  BY <1>1, <1>2, FreeChainIs
<1> HIDE DEF free
<1>4. \A i \in Descs : desc[i] = Content(own[i], rank[i], extra_next[i])
  BY <1>1, Zenon DEF Labelling, Filled
<1>5. ASSUME NEW i \in Descs PROVE desc[i].next \in Descs \cup {NoDesc}
  <2>1. extra_next[i] \in Descs
    BY <1>1, Zenon DEF ListTypes
  <2>2. Content(own[i], rank[i], extra_next[i]).next \in {extra_next[i], NoDesc}
    BY Zenon DEF Content, Unmapped
  <2>3. QED
    BY <1>4, <2>1, <2>2, Zenon
<1>6. IsInjective(free)
  BY <1>3 DEF IsInjective
<1>7. \A k \in 1 .. num_free : desc[free[k]] = Unmapped
  BY <1>3, <1>4, Zenon DEF Content
<1>8. ASSUME NEW i \in Descs PROVE i \in Range(free) <=> own[i] = NoDesc
  <2>1. ASSUME own[i] = NoDesc PROVE i \in Range(free)
    <3>1. rank[i] \in 1 .. num_free
      BY <1>1, <1>2, <2>1 DEF Labelling, Placed, Size
    <3>2. free[rank[i]] = i
      BY <1>1, <1>3, <2>1, <3>1, Zenon DEF Labelling, Placed
    <3>3. QED
      BY <1>3, <3>1, <3>2, Zenon DEF Range
  <2>2. QED
    BY <1>3, <2>1 DEF Range
<1>9. ASSUME NEW i \in Descs, NEW h \in Heads PROVE i \in Range(ChainOf(h)) <=> own[i] = h
  <2>1. /\ DOMAIN ChainOf(h) = 1 .. Size(h)
        /\ \A k \in 1 .. Size(h) : /\ ChainOf(h)[k] \in Descs /\ own[ChainOf(h)[k]] = h
                                   /\ rank[ChainOf(h)[k]] = k
    BY <1>1, <1>2, ChainIs
  <2>2. ASSUME own[i] = h PROVE i \in Range(ChainOf(h))
    <3>1. rank[i] \in 1 .. Size(h)
      BY <1>1, <1>2, <2>2 DEF Labelling, Placed
    <3>2. ChainOf(h)[rank[i]] = i
      BY <1>1, <2>1, <2>2, <3>1, Zenon DEF Labelling, Placed
    <3>3. QED
      BY <2>1, <3>1, <3>2, Zenon DEF Range
  <2>3. QED
    BY <2>1, <2>2 DEF Range
<1>10. ASSUME NEW h \in Heads PROVE Range(ChainOf(h)) \cap Range(free) = {}
  <2>1. Range(free) \subseteq Descs /\ h # NoDesc
    BY <1>3, Constants DEF Range
  <2>2. QED
    BY <1>8, <1>9, <2>1, Zenon
<1>11. ASSUME NEW i \in Descs \ Range(free)
       PROVE  \E h \in Heads : \A g \in Heads : i \in Range(ChainOf(g)) <=> g = h
  <2>1. own[i] \in Heads
    BY <1>1, <1>8, Zenon DEF Labelling, Placed, Lists
  <2>2. QED
    BY <1>9, <2>1, Zenon
<1>12. QED
  BY <1>2, <1>5, <1>6, <1>7, <1>10, <1>11, Zenon DEF free

Inv == Structure /\ Indices /\ Counts /\ Kicks /\ Ints

LEMMA Invariant == SplitSpec => []Inv
<1>1. SplitInit => Inv
  BY Finite, StructureInit, IndicesInit, CountsInit, EventsInit, Zenon DEF Inv
<1>2. Inv /\ [SplitNext]_vars => Inv'
  BY Finite, StructureStep, IndicesStep, CountsStep, KicksStep, IntsStep, Zenon DEF Inv
<1>3. QED
  BY <1>1, <1>2, PTL DEF SplitSpec

(* A device that walks the shared table from the head of a buffer reads    *)
(* that buffer's scatterlist, complete and in order, whatever has been     *)
(* added, used and detached before (virtqueue_add_split(),                 *)
(* detach_buf_split()).                                                    *)
THEOREM ScatterlistRead == SplitSpec => []ChainsIntact
<1>1. Inv => ChainsIntact
  BY Finite, ScatterlistIs, Zenon DEF Inv
<1>2. QED
  BY <1>1, Invariant, PTL

(* The free list and the chains partition the descriptors at every         *)
(* moment, and every index keeps its width, for every size of the ring     *)
(* (virtqueue_add_split(), detach_buf_split()).                            *)
THEOREM DescriptorsPartitioned == SplitSpec => []FreeListExact
<1>1. Inv => FreeListExact
  <2> SUFFICES ASSUME Inv PROVE FreeListExact
    BY Zenon
  <2>1. TypeOK
    <3>1. num_free \in 0 .. Num /\ \A i \in Descs : desc[i].next \in Descs \cup {NoDesc}
      BY Finite, ListsExact, Zenon DEF Inv
    <3>2. num_added \in 0 .. Word - 1
      BY Widths DEF Inv, Indices
    <3>3. QED
      BY <3>1, <3>2, Zenon DEF Inv, Structure, ListTypes, Indices, TypeOK
  <2>2. QED
    BY <2>1, Finite, ListsExact, Zenon DEF Inv, FreeListExact
<1>2. QED
  BY <1>1, Invariant, PTL

(* No kick is lost between virtqueue_kick_prepare_split() and a device     *)
(* that asks for one and goes to sleep, whichever way kicks are suppressed *)
(* and however often the indexes wrap.                                     *)
THEOREM KickNotLost == SplitSpec => []NoLostKick
<1>1. Inv => NoLostKick
  <2> SUFFICES ASSUME Inv, dev = "asleep", last_avail # avail_idx, ~broken,
                      ~notified, pc # "notify"
               PROVE  num_added > 0
    BY Zenon DEF NoLostKick
  <2>1. Minus(avail_idx, last_avail) <= num_added
    BY Zenon DEF Inv, Kicks
  <2>2. Minus(avail_idx, last_avail) \in Nat /\ Minus(avail_idx, last_avail) # 0
    BY MinusIs, MinusInc DEF Inv, Indices, Idx
  <2>3. QED
    BY <2>1, <2>2 DEF Inv, Indices
<1>2. QED
  BY <1>1, Invariant, PTL

(* No interrupt is lost between a driver that enables callbacks            *)
(* (virtqueue_enable_cb(), virtqueue_enable_cb_delayed(), the store of     *)
(* virtqueue_get_buf_ctx_split()) and the device's decision, whichever way *)
(* interrupts are suppressed and however often the indexes wrap.           *)
THEOREM InterruptNotLost == SplitSpec => []NoLostInterrupt
<1>1. Inv => NoLostInterrupt
  <2> SUFFICES ASSUME Inv, ~broken, dev # "reset", armed # NoIdx, ~irq,
                      vring_need_event(armed, used_idx, last_used_idx)
               PROVE  signalled # used_idx
    BY Zenon DEF NoLostInterrupt
  <2>1. Minus(used_idx, last_used_idx) - Minus(armed, last_used_idx) <= Minus(used_idx, signalled)
    BY Zenon DEF Inv, Ints
  <2>2. armed \in Idx /\ Minus(armed, last_used_idx) < Minus(used_idx, last_used_idx)
    BY NeedEvent, Zenon DEF Inv, Indices
  <2>3. /\ Minus(used_idx, last_used_idx) \in Nat /\ Minus(armed, last_used_idx) \in Nat
        /\ (used_idx = signalled => Minus(used_idx, signalled) = 0)
    BY <2>2, MinusIs, MinusInc DEF Inv, Indices, Idx
  <2>4. QED
    BY <2>1, <2>2, <2>3
<1>2. QED
  BY <1>1, Invariant, PTL
=============================================================================
