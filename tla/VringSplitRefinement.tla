------------------------ MODULE VringSplitRefinement -------------------------
(***************************************************************************)
(* The split ring of VringSplit as a virtqueue: the tokens on its rings    *)
(* are the queues of VirtQueue.                                            *)
(***************************************************************************)
EXTENDS VringSplit

\* The entries of a ring between two indexes.
Between(ring, from, to) ==
    [k \in 1 .. Minus(to, from) |-> ring[(from + k - 1) % Num]]

TokensOf(heads) ==
    LET known == SelectSeq(heads, LAMBDA h : h \in Descs)
    IN  [k \in 1 .. Len(known) |-> data[known[k]]]

Tokens(heads) == {data[h] : h \in heads}

\* Heads a faulty device has lost: the driver waits for them in vain.
Lost ==
    Heads \ (fetched \cup Range(Between(avail_ring, last_avail, avail_idx))
             \cup Range(Between(used_ring, last_used_idx, used_idx))
             \cup (IF pc = "publish" THEN {avail_ring[AvailSlot]} ELSE {}))

VQ == INSTANCE VirtQueue WITH
    offered <- IF dev = "reset" THEN << >>
               ELSE TokensOf(Between(avail_ring, last_avail, avail_idx)),
    fetched <- IF dev = "reset" THEN Tokens(Heads) ELSE Tokens(fetched \cup Lost),
    used <- IF dev = "reset" THEN << >>
            ELSE TokensOf(Between(used_ring, last_used_idx, used_idx)),
    down <- dev = "reset"

\* The split ring implements the virtqueue: every buffer reaches the device once
\* and in order, its token comes back once and in the order of use, and after a
\* reset every buffer not yet returned is reclaimed.
Virtqueue == VQ!VQSpec

==============================================================================
